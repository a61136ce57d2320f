---------------------------- MODULE AgentProofs ----------------------------
(* Proofs about Agent, for all EXECSETs, bounds and numbers of signals.     *)
EXTENDS Agent, SequenceTheorems, FiniteSetTheorems, TLAPS

\* Taking an event out of the timeline leaves a sequence of events.
LEMMA RemoveAtType ==
  ASSUME NEW S, NEW s \in Seq(S), NEW i \in 1 .. Len(s)
  PROVE  RemoveAt(s, i) \in Seq(S)
<1>1. SubSeq(s, 1, i - 1) \in Seq(S)
  OBVIOUS
<1>2. SubSeq(s, i + 1, Len(s)) \in Seq(S)
  OBVIOUS
<1> QED
  BY <1>1, <1>2 DEF RemoveAt

\* A message of n values is a sequence of EXECSETs.
LEMMA ValuesType ==
  ASSUME NEW n \in Nat, NEW vs \in [1 .. n -> ExecSets]
  PROVE  vs \in Seq(ExecSets)
  BY SeqDef

LEMMA HeadTailType ==
  ASSUME NEW S, NEW s \in Seq(S), s # <<>>
  PROVE  Head(s) \in S /\ Tail(s) \in Seq(S)
  OBVIOUS

LEMMA AppendType ==
  ASSUME NEW S, NEW s \in Seq(S), NEW e \in S
  PROVE  Append(s, e) \in Seq(S)
  OBVIOUS

LEMMA PushType ==
  ASSUME NEW S, NEW q \in Seq(S), NEW m \in S
  PROVE  Push(q, m) \in Seq(S)
  BY BoundsAssumption DEF Push

LEMMA EntryType ==
  ASSUME NEW src \in {"mgr", "startup", "rule"}, NEW kind
  PROVE  NewEntry(src, kind) \in Entry
  BY DEF NewEntry, Entry

-----------------------------------------------------------------------------
(* Type correctness.                                                        *)

LEMMA InitType == Init => TypeOK
<1> SUFFICES ASSUME Init PROVE TypeOK
  OBVIOUS
<1>1. exec_end \in BOOLEAN /\ rule_event \in BOOLEAN /\ execs_enable \in BOOLEAN
  BY FlagsAssumption, Zenon DEF Init
<1>2. ingress \in {"check", "external"}
  BY DEF Init
<1>3. \A S : <<>> \in Seq(S)
  OBVIOUS
<1> QED
  BY <1>1, <1>2, <1>3, StartupAssumption DEF Init, TypeOK

LEMMA IngressType == TypeOK /\ Ingress => TypeOK'
<1> SUFFICES ASSUME TypeOK, Ingress PROVE TypeOK'
  OBVIOUS
<1> USE DEF TypeOK, notIngress, mainVars, execVars, seqVars, egressVars,
            rptgsVars, execsVars
<1>1. CASE IngressCheck
  BY <1>1 DEF IngressCheck
<1>2. CASE IngressRecv
  <2>1. PICK n \in 0 .. MaxValues :
          \E vs \in [1 .. n -> ExecSets], res \in {0, 1} :
            \/ ingress' = "check" /\ UNCHANGED <<vals, recv_res>>
            \/ ingress' = "push" /\ vals' = vs /\ recv_res' = res
    BY <1>2 DEF IngressRecv
  <2>2. PICK vs \in [1 .. n -> ExecSets] :
          \/ ingress' = "check" /\ UNCHANGED <<vals, recv_res>>
          \/ ingress' = "push" /\ vals' = vs /\ recv_res' \in {0, 1}
    BY <2>1
  <2>3. vs \in Seq(ExecSets)
    BY ValuesType, BoundsAssumption
  <2> QED
    BY <1>2, <2>2, <2>3 DEF IngressRecv
<1>3. CASE IngressRecvEnd
  BY <1>3 DEF IngressRecvEnd, RecvFailed
<1>4. CASE IngressRecvStopped
  BY <1>4 DEF IngressRecvStopped, RecvFailed
<1>5. CASE IngressPush
  <2>1. execs' \in Seq(Message)
    <3>1. \A v \in ExecSets : Msg(v) \in Message
      BY ExecSetsAssumption DEF Msg, Message
    <3>2. \E v \in ExecSets : execs' = Push(execs, Msg(v))
      BY <1>5 DEF IngressPush
    <3> QED
      BY <3>1, <3>2, PushType
  <2>2. vals' \in Seq(ExecSets)
    BY <1>5, HeadTailType DEF IngressPush
  <2>3. nrecv' \in Nat /\ ingress' \in {"post", "external_post"}
    BY <1>5 DEF IngressPush
  <2> QED
    BY <1>5, <2>1, <2>2, <2>3 DEF IngressPush
<1>6. CASE IngressPost
  BY <1>6 DEF IngressPost
<1>7. CASE IngressNext
  <2>1. Undef \in Message
    BY DEF Undef, Message
  <2>2. execs' \in Seq(Message)
    BY <1>7, <2>1, PushType DEF IngressNext
  <2> QED
    BY <1>7, <2>2 DEF IngressNext
<1> QED
  BY <1>1, <1>2, <1>3, <1>4, <1>5, <1>6, <1>7 DEF Ingress

LEMMA PushReportType ==
  TypeOK /\ PushReport => /\ rptgs' \in Seq({"report", "undef"})
                          /\ rptgs_sem' \in Nat
  BY PushType DEF TypeOK, PushReport

LEMMA ExecType == TypeOK /\ Exec => TypeOK'
<1> SUFFICES ASSUME TypeOK, Exec PROVE TypeOK'
  OBVIOUS
<1> USE DEF TypeOK, notExec, mainVars, ingressVars, seqVars, egressVars,
            rptgsVars, execsVars
<1>1. CASE ExecWake
  BY <1>1 DEF ExecWake
<1>2. CASE ExecTimeout
  BY <1>2 DEF ExecTimeout
<1>3. CASE ExecEvent
  <2>1. PICK i \in 1 .. Len(timeline) :
          /\ exec_state' = Append(exec_state, NewEntry(timeline[i].src, "quick"))
          /\ timeline' = RemoveAt(timeline, i)
          /\ PushReport \/ UNCHANGED rptgsVars
    BY <1>3 DEF ExecEvent
  <2>2. timeline' \in Seq(Entry)
    BY <2>1, RemoveAtType
  <2>3. exec_state' \in Seq(Entry)
    <3>1. timeline[i] \in Entry
      OBVIOUS
    <3>2. NewEntry(timeline[i].src, "quick") \in Entry
      BY <3>1, EntryType DEF Entry
    <3> QED
      BY <2>1, <3>2
  <2>4. rptgs' \in Seq({"report", "undef"}) /\ rptgs_sem' \in Nat
    BY <2>1, PushReportType
  <2> QED
    BY <1>3, <2>2, <2>3, <2>4 DEF ExecEvent
<1>4. CASE ExecRuleEvent
  BY <1>4, EntryType DEF ExecRuleEvent
<1>5. CASE ExecEventsOver
  BY <1>5 DEF ExecEventsOver
<1>6. CASE ExecPopNone
  BY <1>6 DEF ExecPopNone
<1>7. CASE ExecPopExecset
  <2>1. Head(execs) \in Message /\ Tail(execs) \in Seq(Message)
    BY <1>7, HeadTailType DEF ExecPopExecset
  <2>2. targets' \in Seq(Kinds)
    BY <1>7, <2>1 DEF ExecPopExecset, Message
  <2> QED
    BY <1>7, <2>1, <2>2 DEF ExecPopExecset
<1>8. CASE ExecAddTarget
  <2>1. rptgs' \in Seq({"report", "undef"}) /\ rptgs_sem' \in Nat
    BY <1>8, PushReportType DEF ExecAddTarget
  <2>2. exec_state' \in Seq(Entry)
    <3>1. NewEntry("mgr", Head(targets)) \in Entry
      BY EntryType
    <3>2. Append(exec_state, NewEntry("mgr", Head(targets))) \in Seq(Entry)
      BY <3>1, AppendType
    <3> QED
      BY <1>8, <3>2 DEF ExecAddTarget
  <2> QED
    BY <1>8, <2>1, <2>2 DEF ExecAddTarget, Controls
<1>9. CASE ExecAddOver
  BY <1>9 DEF ExecAddOver
<1>10. CASE ExecPopEnd
  <2>1. execs' \in Seq(Message)
    BY <1>10, HeadTailType DEF ExecPopEnd
  <2>2. exec_end' \in BOOLEAN /\ rule_event' \in BOOLEAN
    BY <1>10, Zenon DEF ExecPopEnd
  <2> QED
    BY <1>10, <2>1, <2>2 DEF ExecPopEnd
<1>11. CASE ExecEnd
  BY <1>11, PushType DEF ExecEnd
<1>12. CASE ExecCollect
  BY <1>12 DEF ExecCollect
<1>13. CASE ExecRun
  <2>1. rptgs' \in Seq({"report", "undef"}) /\ rptgs_sem' \in Nat
    BY <1>13, PushReportType DEF ExecRun
  <2>2. timeline' \in Seq(Entry) /\ ready' \in Seq(Entry)
    <3>1. Head(ready) \in Entry /\ Tail(ready) \in Seq(Entry)
      BY <1>13, HeadTailType DEF ExecRun
    <3>2. Append(timeline, Head(ready)) \in Seq(Entry)
      BY <3>1, AppendType
    <3> QED
      BY <1>13, <3>1, <3>2 DEF ExecRun
  <2>3. status' \in {"none", "pending", "finished", "failed"}
    BY <1>13 DEF ExecRun
  <2> QED
    BY <1>13, <2>1, <2>2, <2>3 DEF ExecRun
<1>14. CASE ExecRunOver
  BY <1>14 DEF ExecRunOver
<1> QED
  BY <1>1, <1>2, <1>3, <1>4, <1>5, <1>6, <1>7, <1>8, <1>9, <1>10, <1>11, <1>12,
     <1>13, <1>14 DEF Exec

LEMMA EgressType == TypeOK /\ Egress => TypeOK'
<1> SUFFICES ASSUME TypeOK, Egress PROVE TypeOK'
  OBVIOUS
<1> USE DEF TypeOK, notEgress, mainVars, ingressVars, execVars, seqVars,
            rptgsVars, execsVars
<1>1. CASE EgressWake
  BY <1>1 DEF EgressWake
<1>2. CASE EgressPopNone
  BY <1>2 DEF EgressPopNone
<1>3. CASE EgressPopReport
  BY <1>3 DEF EgressPopReport
<1>4. CASE EgressPopEnd
  BY <1>4 DEF EgressPopEnd
<1> QED
  BY <1>1, <1>2, <1>3, <1>4 DEF Egress

LEMMA MainType == TypeOK /\ Main => TypeOK'
<1> SUFFICES ASSUME TypeOK, Main PROVE TypeOK'
  OBVIOUS
<1> USE DEF TypeOK, notMain, ingressVars, execVars, seqVars, egressVars,
            rptgsVars, execsVars
<1>1. CASE MainStartup
  <2>1. exec_state' \in Seq(Entry)
    <3>1. NewEntry("startup", Head(startup)) \in Entry
      BY EntryType
    <3>2. Append(exec_state, NewEntry("startup", Head(startup))) \in Seq(Entry)
      BY <3>1, AppendType
    <3> QED
      BY <1>1, <3>2 DEF MainStartup
  <2> QED
    BY <1>1, <2>1 DEF MainStartup
<1>2. CASE MainStartupPost
  BY <1>2 DEF MainStartupPost
<1>3. CASE MainStartupDone
  BY <1>3 DEF MainStartupDone, StartupReturns
<1>4. CASE MainEnable
  BY <1>4 DEF MainEnable
<1>5. CASE MainEnablePost
  BY <1>5 DEF MainEnablePost
<1>6. CASE MainRunWait
  BY <1>6 DEF MainRunWait
<1>7. CASE MainStop
  <2>1. Undef \in Message
    BY DEF Undef, Message
  <2>2. execs' \in Seq(Message)
    BY <1>7, <2>1, PushType DEF MainStop
  <2> QED
    BY <1>7, <2>2 DEF MainStop
<1>8. CASE MainStopPost
  BY <1>8 DEF MainStopPost
<1>9. CASE MainStopRun
  BY <1>9 DEF MainStopRun
<1>10. CASE MainJoin
  BY <1>10 DEF MainJoin
<1> QED
  BY <1>1, <1>2, <1>3, <1>4, <1>5, <1>6, <1>7, <1>8, <1>9, <1>10 DEF Main

LEMMA SignalType == TypeOK /\ Signal => TypeOK'
<1> SUFFICES ASSUME TypeOK, Signal PROVE TypeOK'
  OBVIOUS
<1> USE DEF TypeOK, Handler, mainVars, ingressVars, execVars, seqVars,
            egressVars, rptgsVars, execsVars
<1>1. CASE SignalMain
  BY <1>1 DEF SignalMain, StartupReturns
<1>2. CASE SignalIngress
  BY <1>2 DEF SignalIngress
<1>3. CASE SignalExec
  BY <1>3 DEF SignalExec
<1>4. CASE SignalEgress
  BY <1>4 DEF SignalEgress
<1> QED
  BY <1>1, <1>2, <1>3, <1>4 DEF Signal

LEMMA NextType == TypeOK /\ [Next]_vars => TypeOK'
<1>1. TypeOK /\ UNCHANGED vars => TypeOK'
  BY DEF TypeOK, vars, mainVars, ingressVars, execVars, seqVars, egressVars,
         rptgsVars, execsVars
<1> QED
  BY <1>1, IngressType, ExecType, EgressType, MainType, SignalType DEF Next

\* The threads stay at known places and the shared state keeps its types,
\* whatever EXECSETs arrive and however many signals are delivered.
THEOREM TypeCorrect == Spec => []TypeOK
  BY InitType, NextType, PTL DEF Spec

-----------------------------------------------------------------------------
(* No wake-up is lost, provided that no EXECSET is empty.  The invariant    *)
(* has to hold from the moment the worker has looked at the queue and not   *)
(* only when it waits, and it rests on two facts about the queue: nothing   *)
(* follows the sentinel, and what precedes it brings a token of its own.    *)

NoEmptySet == \A ts \in ExecSets : ts # <<>>

Posting ==
  \/ ingress \in {"post", "end_post", "external_post"}
  \/ main \in {"enable_post", "stop_post"}

QueueAwake == execs_enable /\ execs # <<>> => execs_sem > 0 \/ Posting
StateAwake == exec_state # <<>> => execs_sem > 0 \/ main = "startup_post"

Awake ==
  /\ exec \in {"collect", "run", "wait"} \/ (exec = "add" /\ targets = <<>>)
       => QueueAwake
  /\ exec \in {"run", "wait"} => StateAwake

GateOpen ==
  main \notin {"startup", "startup_post", "startup_wait"} => execs_enable

QueueNonEmpty ==
  NoEmptySet => \A i \in 1 .. Len(execs) : execs[i].end \/ execs[i].targets # <<>>

SentinelPushed ==
  IF HasRecv THEN ingress \in {"end_post", "done"}
  ELSE /\ ingress = "external"
       /\ main \in {"stop_post", "stop_run", "join", "exit"}

SentinelLast ==
  \A i \in 1 .. Len(execs) : execs[i].end => i = Len(execs) /\ SentinelPushed

WakeInv == Awake /\ GateOpen /\ QueueNonEmpty /\ SentinelLast

LEMMA GateStep == TypeOK /\ GateOpen /\ [Next]_vars => GateOpen'
<1> SUFFICES ASSUME TypeOK, GateOpen, [Next]_vars PROVE GateOpen'
  OBVIOUS
<1> USE DEF GateOpen, mainVars, execsVars
<1>1. CASE Ingress
  BY <1>1 DEF Ingress, IngressCheck, IngressRecv, IngressRecvEnd,
     IngressRecvStopped, RecvFailed, IngressPush, IngressPost, IngressNext,
     notIngress
<1>2. CASE Exec
  BY <1>2 DEF Exec, ExecWake, ExecTimeout, ExecEvent, ExecRuleEvent,
     ExecEventsOver, ExecPopNone, ExecPopExecset, ExecAddTarget, ExecAddOver,
     ExecPopEnd, ExecEnd, ExecCollect, ExecRun, ExecRunOver
<1>3. CASE Egress
  BY <1>3 DEF Egress, EgressWake, EgressPopNone, EgressPopReport, EgressPopEnd,
     notEgress
<1>4. CASE Main
  BY <1>4 DEF Main, MainStartup, MainStartupPost, MainStartupDone,
     StartupReturns, MainEnable, MainEnablePost, MainRunWait, MainStop,
     MainStopPost, MainStopRun, MainJoin
<1>5. CASE Signal
  BY <1>5 DEF Signal, SignalMain, SignalIngress, SignalExec, SignalEgress,
     StartupReturns
<1>6. CASE UNCHANGED vars
  BY <1>6 DEF vars
<1> QED
  BY <1>1, <1>2, <1>3, <1>4, <1>5, <1>6 DEF Next

\* What pushing and popping do to the items of a queue.
LEMMA PushItems ==
  ASSUME NEW S, NEW q \in Seq(S), NEW m \in S
  PROVE  \/ Push(q, m) = q
         \/ /\ Len(Push(q, m)) = Len(q) + 1
            /\ \A i \in 1 .. Len(q) : Push(q, m)[i] = q[i]
            /\ Push(q, m)[Len(q) + 1] = m
  BY DEF Push

LEMMA TailItems ==
  ASSUME NEW S, NEW q \in Seq(S), q # <<>>
  PROVE  /\ Len(Tail(q)) = Len(q) - 1
         /\ \A i \in 1 .. Len(q) - 1 : Tail(q)[i] = q[i + 1]
         /\ Head(q) = q[1]
         /\ Len(q) \in Nat /\ Len(q) > 0
  OBVIOUS

QueueInv == QueueNonEmpty /\ SentinelLast

LEMMA QueueSame ==
  ASSUME QueueInv, UNCHANGED execs,
         SentinelPushed => SentinelPushed'
  PROVE  QueueInv'
  BY DEF QueueInv, QueueNonEmpty, SentinelLast

LEMMA QueueTail ==
  ASSUME TypeOK, QueueInv, execs # <<>>, execs' = Tail(execs),
         UNCHANGED <<ingress, main>>
  PROVE  QueueInv'
<1>1. /\ Len(execs') = Len(execs) - 1
      /\ \A i \in 1 .. Len(execs) - 1 : execs'[i] = execs[i + 1]
      /\ Len(execs) \in Nat
  BY TailItems DEF TypeOK
<1>2. SentinelPushed' <=> SentinelPushed
  BY DEF SentinelPushed, HasRecv
<1>3. QueueNonEmpty'
  BY <1>1 DEF QueueInv, QueueNonEmpty
<1>4. \A i \in 1 .. Len(execs') :
        execs'[i].end => i = Len(execs') /\ SentinelPushed'
  <2> DEFINE n == Len(execs')
  <2>1. n \in Nat /\ Len(execs) = n + 1
    BY <1>1, TailItems DEF TypeOK
  <2>2. \A i \in 1 .. n : execs'[i].end => execs[i + 1].end
    BY <1>1
  <2> HIDE DEF n
  <2>3. \A i \in 1 .. n : execs'[i].end => i + 1 = n + 1 /\ SentinelPushed
    BY <2>1, <2>2 DEF QueueInv, SentinelLast
  <2>4. \A i \in 1 .. n : execs'[i].end => i = n /\ SentinelPushed'
    BY <1>2, <2>1, <2>3
  <2> QED
    BY <2>4 DEF n
<1>5. SentinelLast'
  BY <1>4 DEF QueueInv, SentinelLast
<1> QED
  BY <1>3, <1>5 DEF QueueInv

LEMMA QueueIngress ==
  ASSUME TypeOK, QueueInv, Ingress
  PROVE  QueueInv'
<1> USE DEF notIngress, mainVars, execsVars
<1>1. CASE IngressPush
  <2>1. PICK v \in ExecSets : execs' = Push(execs, Msg(v))
    BY <1>1 DEF IngressPush, TypeOK
  <2>2. Msg(v) \in Message /\ Msg(v).end = FALSE /\ (NoEmptySet => Msg(v).targets # <<>>)
    BY ExecSetsAssumption DEF Msg, Message, NoEmptySet
  <2>3. \A i \in 1 .. Len(execs) : ~execs[i].end
    <3>1. ~SentinelPushed
      BY <1>1 DEF IngressPush, SentinelPushed, HasRecv
    <3> QED
      BY <3>1 DEF QueueInv, SentinelLast
  <2>4. \A i \in 1 .. Len(execs') : ~execs'[i].end /\ (NoEmptySet => execs'[i].targets # <<>>)
    <3>1. \/ execs' = execs
          \/ /\ Len(execs') = Len(execs) + 1
             /\ \A i \in 1 .. Len(execs) : execs'[i] = execs[i]
             /\ execs'[Len(execs) + 1] = Msg(v)
      BY <2>1, <2>2, PushItems DEF TypeOK
    <3>2. NoEmptySet => \A i \in 1 .. Len(execs) : execs[i].targets # <<>>
      BY <2>3 DEF QueueInv, QueueNonEmpty
    <3>3. Len(execs) \in Nat
      BY DEF TypeOK
    <3>4. CASE execs' = execs
      BY <2>3, <3>2, <3>4
    <3> QED
      BY <2>2, <2>3, <3>1, <3>2, <3>3, <3>4
  <2> QED
    BY <2>4 DEF QueueInv, QueueNonEmpty, SentinelLast
<1>2. CASE IngressNext /\ recv_res # 0
  <2>1. execs' = Push(execs, Undef) /\ ingress = "push" /\ ingress' = "end_post"
    BY <1>2 DEF IngressNext
  <2>2. HasRecv /\ SentinelPushed'
    BY <2>1 DEF SentinelPushed, HasRecv
  <2>3. \A i \in 1 .. Len(execs) : ~execs[i].end
    BY <2>1, <2>2 DEF QueueInv, SentinelLast, SentinelPushed
  <2>4. \/ execs' = execs
        \/ /\ Len(execs') = Len(execs) + 1
           /\ \A i \in 1 .. Len(execs) : execs'[i] = execs[i]
           /\ execs'[Len(execs) + 1] = Undef
    <3>1. Undef \in Message
      BY DEF Undef, Message
    <3> QED
      BY <2>1, <3>1, PushItems DEF TypeOK
  <2>5. QueueNonEmpty'
    BY <2>4 DEF QueueInv, QueueNonEmpty, Undef, TypeOK
  <2>6. SentinelLast'
    BY <2>1, <2>2, <2>3, <2>4 DEF SentinelLast, TypeOK
  <2> QED
    BY <2>5, <2>6 DEF QueueInv
<1>3. CASE ~IngressPush /\ ~(IngressNext /\ recv_res # 0)
  <2>1. UNCHANGED <<execs, main>>
    BY <1>3 DEF Ingress, IngressCheck, IngressRecv, IngressRecvEnd,
       IngressRecvStopped, RecvFailed, IngressPost, IngressNext
  <2>2. SentinelPushed => SentinelPushed'
    BY <1>3, <2>1 DEF SentinelPushed, HasRecv, Ingress,
       IngressCheck, IngressRecv, IngressRecvEnd, IngressRecvStopped,
       RecvFailed, IngressPost, IngressNext
  <2> QED
    BY <2>1, <2>2, QueueSame
<1> QED
  BY <1>1, <1>2, <1>3

LEMMA QueueMain ==
  ASSUME TypeOK, QueueInv, Main
  PROVE  QueueInv'
<1> USE DEF notMain, ingressVars
<1>1. CASE MainStop /\ ~HasRecv
  <2>1. /\ execs' = Push(execs, Undef)
        /\ main = "stop" /\ main' = "stop_post" /\ ingress' = ingress
    BY <1>1 DEF MainStop
  <2>2. ingress = "external"
    BY <1>1 DEF MainStop, HasRecv
  <2>3. SentinelPushed'
    BY <2>1, <2>2 DEF SentinelPushed, HasRecv
  <2>4. \A i \in 1 .. Len(execs) : ~execs[i].end
    BY <1>1, <2>1 DEF QueueInv, SentinelLast, SentinelPushed, HasRecv
  <2>5. \/ execs' = execs
        \/ /\ Len(execs') = Len(execs) + 1
           /\ \A i \in 1 .. Len(execs) : execs'[i] = execs[i]
           /\ execs'[Len(execs) + 1] = Undef
    <3>1. Undef \in Message
      BY DEF Undef, Message
    <3> QED
      BY <2>1, <3>1, PushItems DEF TypeOK
  <2>6. QueueNonEmpty'
    BY <2>5 DEF QueueInv, QueueNonEmpty, Undef, TypeOK
  <2>7. SentinelLast'
    BY <1>1, <2>1, <2>2, <2>3, <2>4, <2>5 DEF SentinelLast, TypeOK
  <2> QED
    BY <2>6, <2>7 DEF QueueInv
<1>2. CASE ~(MainStop /\ ~HasRecv)
  <2>1. UNCHANGED <<execs, ingress>>
    BY <1>2 DEF Main, MainStartup, MainStartupPost, MainStartupDone, MainEnable,
       MainEnablePost, MainRunWait, MainStop, MainStopPost, MainStopRun,
       MainJoin, execsVars
  <2>2. SentinelPushed => SentinelPushed'
    BY <1>2, <2>1 DEF SentinelPushed, HasRecv, Main, MainStartup, MainStartupPost,
       MainStartupDone, StartupReturns, MainEnable, MainEnablePost,
       MainRunWait, MainStop, MainStopPost, MainStopRun, MainJoin
  <2> QED
    BY <2>1, <2>2, QueueSame DEF QueueInv, SentinelLast
<1> QED
  BY <1>1, <1>2

LEMMA QueueStep ==
  ASSUME TypeOK, QueueInv, [Next]_vars
  PROVE  QueueInv'
<1> USE DEF mainVars, ingressVars, execsVars
<1>1. CASE Exec
  <2>1. /\ UNCHANGED <<ingress, main>>
        /\ UNCHANGED execs \/ (execs # <<>> /\ execs' = Tail(execs))
    BY <1>1 DEF Exec, ExecWake, ExecTimeout, ExecEvent, ExecRuleEvent,
       ExecEventsOver, ExecPopNone, ExecPopExecset, ExecAddTarget, ExecAddOver,
       ExecPopEnd, ExecEnd, ExecCollect, ExecRun, ExecRunOver, notExec
  <2>2. SentinelPushed => SentinelPushed'
    BY <2>1 DEF SentinelPushed, HasRecv
  <2> QED
    BY <2>1, <2>2, QueueSame, QueueTail DEF QueueInv, SentinelLast
<1>2. CASE Egress \/ Signal \/ UNCHANGED vars
  <2>1. UNCHANGED execs
    BY <1>2 DEF Egress, EgressWake, EgressPopNone, EgressPopReport,
       EgressPopEnd, notEgress, Signal, SignalMain, SignalIngress, SignalExec,
       SignalEgress, vars
  <2>2. SentinelPushed => SentinelPushed'
    BY <1>2 DEF SentinelPushed, HasRecv, Egress, EgressWake,
       EgressPopNone, EgressPopReport, EgressPopEnd, notEgress, Signal,
       SignalMain, StartupReturns, SignalIngress, SignalExec, SignalEgress, vars
  <2> QED
    BY <2>1, <2>2, QueueSame
<1> QED
  BY <1>1, <1>2, QueueIngress, QueueMain DEF Next

\* When the exec worker takes the sentinel the queue is empty behind it.
LEMMA SentinelTaken ==
  ASSUME TypeOK, QueueInv, ExecPopEnd
  PROVE  SentinelPushed /\ execs' = <<>>
<1>1. /\ Head(execs) = execs[1] /\ 1 \in 1 .. Len(execs)
      /\ Len(Tail(execs)) = Len(execs) - 1
  BY TailItems DEF ExecPopEnd, TypeOK
<1>2. Len(execs) = 1 /\ SentinelPushed
  BY <1>1 DEF ExecPopEnd, QueueInv, SentinelLast
<1>3. Tail(execs) \in Seq(Message) /\ Len(Tail(execs)) = 0
  BY <1>1, <1>2, HeadTailType DEF ExecPopEnd, TypeOK
<1> QED
  BY <1>2, <1>3 DEF ExecPopEnd

\* The semaphore only loses a token when the worker wakes up.
LEMMA AwakeIngress ==
  ASSUME TypeOK, Awake, Ingress
  PROVE  Awake'
<1> USE DEF notIngress, mainVars, execVars, seqVars, execsVars
<1>1. UNCHANGED <<exec, targets, exec_state, main, execs_enable>>
  BY DEF Ingress, IngressCheck, IngressRecv, IngressRecvEnd, IngressRecvStopped,
     RecvFailed, IngressPush, IngressPost, IngressNext
<1>2. execs_sem' = execs_sem \/ execs_sem' > 0
  <2>1. CASE IngressPost
    BY <2>1 DEF TypeOK, IngressPost
  <2>2. CASE ~IngressPost
    BY <2>2 DEF Ingress, IngressCheck, IngressRecv, IngressRecvEnd,
       IngressRecvStopped, RecvFailed, IngressPush, IngressNext
  <2> QED
    BY <2>1, <2>2
<1>3. QueueAwake => QueueAwake'
  <2>1. CASE IngressPost
    <3>1. execs_sem' > 0
      BY <2>1 DEF TypeOK, IngressPost
    <3> QED
      BY <3>1 DEF QueueAwake
  <2>2. CASE IngressPush
    BY <2>2 DEF QueueAwake, Posting, IngressPush
  <2>3. CASE IngressCheck \/ IngressRecv \/ IngressRecvEnd \/ IngressRecvStopped
             \/ IngressNext
    BY <1>1, <2>3 DEF QueueAwake, Posting, IngressCheck, IngressRecv,
       IngressRecvEnd, IngressRecvStopped, RecvFailed, IngressNext
  <2> QED
    BY <2>1, <2>2, <2>3 DEF Ingress
<1>4. StateAwake => StateAwake'
  BY <1>1, <1>2 DEF StateAwake
<1> QED
  BY <1>1, <1>3, <1>4 DEF Awake

LEMMA AwakeMain ==
  ASSUME TypeOK, GateOpen, Awake, Main
  PROVE  Awake'
<1> USE DEF notMain, ingressVars, execVars, seqVars, execsVars
<1>1. UNCHANGED <<exec, targets, ingress>>
  BY DEF Main, MainStartup, MainStartupPost, MainStartupDone, MainEnable,
     MainEnablePost, MainRunWait, MainStop, MainStopPost, MainStopRun, MainJoin
<1>2. QueueAwake => QueueAwake'
  <2>1. CASE MainEnable
    BY <2>1 DEF MainEnable, QueueAwake, Posting
  <2>2. CASE MainStop
    <3>1. execs_enable
      BY <2>2 DEF MainStop, GateOpen
    <3>2. CASE HasRecv
      BY <1>1, <2>2, <3>1, <3>2 DEF MainStop, QueueAwake, Posting
    <3>3. CASE ~HasRecv
      BY <2>2, <3>3 DEF MainStop, QueueAwake, Posting
    <3> QED
      BY <3>2, <3>3
  <2>3. CASE MainEnablePost \/ MainStopPost \/ MainStartupPost
    <3>1. execs_sem' > 0
      <4>1. execs_sem' = execs_sem + 1
        BY <2>3 DEF MainEnablePost, MainStopPost, MainStartupPost
      <4> QED
        BY <4>1 DEF TypeOK
    <3> QED
      BY <3>1 DEF QueueAwake
  <2>4. CASE MainStartup \/ MainStartupDone \/ MainRunWait \/ MainStopRun
             \/ MainJoin
    BY <1>1, <2>4 DEF QueueAwake, Posting, MainStartup, MainStartupDone,
       StartupReturns, MainRunWait, MainStopRun, MainJoin
  <2> QED
    BY <2>1, <2>2, <2>3, <2>4 DEF Main
<1>3. StateAwake => StateAwake'
  <2>1. CASE MainStartup \/ MainStartupDone
    BY <2>1 DEF MainStartup, MainStartupDone, StartupReturns, StateAwake
  <2>2. CASE MainStartupPost \/ MainEnablePost \/ MainStopPost
    <3>1. execs_sem' > 0
      BY <2>2 DEF MainEnablePost, MainStopPost, MainStartupPost, TypeOK
    <3> QED
      BY <3>1 DEF StateAwake
  <2>3. CASE MainEnable \/ MainRunWait \/ MainStop \/ MainStopRun \/ MainJoin
    <3>1. UNCHANGED <<exec_state, execs_sem>> /\ main # "startup_post"
      BY <2>3 DEF MainEnable, MainRunWait, MainStop, MainStopRun, MainJoin
    <3> QED
      BY <3>1 DEF StateAwake
  <2> QED
    BY <2>1, <2>2, <2>3 DEF Main
<1> QED
  BY <1>1, <1>2, <1>3 DEF Awake

LEMMA AwakeExec ==
  ASSUME NoEmptySet, TypeOK, QueueInv, Awake, Exec
  PROVE  Awake'
<1> USE DEF Awake, notExec, ingressVars, mainVars, seqVars, execsVars
<1>1. CASE ExecWake
  BY <1>1 DEF ExecWake
<1>2. CASE ExecTimeout
  BY <1>2 DEF ExecTimeout
<1>3. CASE ExecEvent
  BY <1>3 DEF ExecEvent
<1>4. CASE ExecRuleEvent
  BY <1>4 DEF ExecRuleEvent
<1>5. CASE ExecEventsOver
  BY <1>5 DEF ExecEventsOver
<1>6. CASE ExecPopNone
  BY <1>6 DEF ExecPopNone, QueueAwake
<1>7. CASE ExecPopExecset
  <2>1. Head(execs).targets # <<>>
    <3>1. Head(execs) = execs[1] /\ 1 \in 1 .. Len(execs)
      BY <1>7, TailItems DEF ExecPopExecset, TypeOK
    <3> QED
      BY <1>7, <3>1 DEF ExecPopExecset, QueueInv, QueueNonEmpty
  <2> QED
    BY <1>7, <2>1 DEF ExecPopExecset
<1>8. CASE ExecAddTarget
  <2>1. execs_sem' > 0
    BY <1>8 DEF ExecAddTarget, TypeOK
  <2> QED
    BY <1>8, <2>1 DEF ExecAddTarget, QueueAwake
<1>9. CASE ExecAddOver
  BY <1>9 DEF ExecAddOver, QueueAwake, Posting
<1>10. CASE ExecPopEnd
  <2>1. execs' = <<>>
    BY <1>10, SentinelTaken
  <2> QED
    BY <1>10, <2>1 DEF ExecPopEnd, QueueAwake
<1>11. CASE ExecEnd
  BY <1>11 DEF ExecEnd
<1>12. CASE ExecCollect
  BY <1>12 DEF ExecCollect, QueueAwake, StateAwake, Posting
<1>13. CASE ExecRun
  BY <1>13 DEF ExecRun, QueueAwake, StateAwake, Posting
<1>14. CASE ExecRunOver
  BY <1>14 DEF ExecRunOver, QueueAwake, StateAwake, Posting
<1> QED
  BY <1>1, <1>2, <1>3, <1>4, <1>5, <1>6, <1>7, <1>8, <1>9, <1>10, <1>11, <1>12,
     <1>13, <1>14 DEF Exec

LEMMA AwakeOther ==
  ASSUME TypeOK, Awake, Egress \/ Signal \/ UNCHANGED vars
  PROVE  Awake'
<1>1. /\ UNCHANGED <<execs, execs_sem, execs_enable, exec_state, targets>>
      /\ exec' = exec \/ exec' \in {"pop", "events"}
  BY DEF Egress, EgressWake, EgressPopNone, EgressPopReport, EgressPopEnd,
     notEgress, Signal, SignalMain, SignalIngress, SignalExec, SignalEgress,
     vars, execVars, seqVars, execsVars
<1>2. /\ ingress \in {"post", "end_post", "external_post"} => ingress' = ingress
      /\ main \in {"enable_post", "stop_post", "startup_post"} => main' = main
  BY DEF Egress, EgressWake, EgressPopNone, EgressPopReport, EgressPopEnd,
     notEgress, Signal, SignalMain, StartupReturns, SignalIngress, SignalExec,
     SignalEgress, vars, ingressVars, mainVars
<1> QED
  BY <1>1, <1>2 DEF Awake, QueueAwake, StateAwake, Posting

LEMMA WakeInit == Init => WakeInv
<1> SUFFICES ASSUME Init PROVE WakeInv
  OBVIOUS
<1>1. main = "startup" /\ execs = <<>> /\ exec_state = <<>> /\ execs_enable = FALSE
  BY DEF Init
<1>2. Awake /\ GateOpen
  BY <1>1 DEF Awake, QueueAwake, StateAwake, GateOpen
<1>3. QueueNonEmpty /\ SentinelLast
  BY <1>1 DEF QueueNonEmpty, SentinelLast
<1> QED
  BY <1>2, <1>3 DEF WakeInv

LEMMA WakeStep ==
  ASSUME NoEmptySet, TypeOK, WakeInv, [Next]_vars
  PROVE  WakeInv'
  BY GateStep, QueueStep, AwakeIngress, AwakeMain, AwakeExec, AwakeOther
     DEF WakeInv, QueueInv, Next

\* If every EXECSET has a target, the exec worker never waits on execs_sem while
\* a queued EXECSET or a startup sequence is its to run and no post is coming,
\* for any number of messages, startup targets and signals and any queue size.
THEOREM WakeupsKept == NoEmptySet => (Spec => []NoLostWakeup)
<1> SUFFICES ASSUME NoEmptySet PROVE Spec => []NoLostWakeup
  OBVIOUS
<1>1. Init => TypeOK /\ WakeInv
  BY InitType, WakeInit
<1>2. TypeOK /\ WakeInv /\ [Next]_vars => (TypeOK /\ WakeInv)'
  BY NextType, WakeStep
<1>3. TypeOK /\ WakeInv => NoLostWakeup
  BY DEF WakeInv, Awake, QueueAwake, StateAwake, Posting, NoLostWakeup
<1> QED
  BY <1>1, <1>2, <1>3, PTL DEF Spec

-----------------------------------------------------------------------------
(* Every CTRL is reported, provided that no target of a manager waits and   *)
(* that the report queue does not fill.  Each CTRL that was counted is a    *)
(* report that was sent or is queued, or the front of a sequence; the two   *)
(* sentinels travel behind all of them.                                     *)

(* How many items of a sequence are of a kind. *)
Count(s, S) == Cardinality({i \in DOMAIN s : s[i] \in S})

LEMMA CountType ==
  ASSUME NEW T, NEW s \in Seq(T), NEW S
  PROVE  /\ IsFiniteSet({i \in DOMAIN s : s[i] \in S}) /\ Count(s, S) \in Nat
         /\ (\A i \in DOMAIN s : s[i] \notin S) => Count(s, S) = 0
<1> DEFINE M == {i \in DOMAIN s : s[i] \in S}
<1>1. DOMAIN s = 1 .. Len(s) /\ Len(s) \in Nat /\ 1 \in Int /\ Len(s) \in Int
  OBVIOUS
<1>2. IsFiniteSet(1 .. Len(s))
  BY <1>1, FS_Interval
<1>3. IsFiniteSet(M)
  BY <1>1, <1>2, FS_Subset
<1>4. (\A i \in DOMAIN s : s[i] \notin S) => M = {}
  OBVIOUS
<1> QED
  BY <1>3, <1>4, FS_CardinalityType, FS_EmptySet DEF Count

LEMMA CountEmpty ==
  ASSUME NEW S PROVE Count(<<>>, S) = 0
<1>1. <<>> \in Seq({}) /\ DOMAIN <<>> = {}
  OBVIOUS
<1> QED
  BY <1>1, CountType

LEMMA CountAppend ==
  ASSUME NEW T, NEW s \in Seq(T), NEW e \in T, NEW S
  PROVE  Count(Append(s, e), S) = Count(s, S) + (IF e \in S THEN 1 ELSE 0)
<1> DEFINE M == {i \in DOMAIN s : s[i] \in S}
           N == {i \in DOMAIN Append(s, e) : Append(s, e)[i] \in S}
           n == Len(s) + 1
<1>1. /\ DOMAIN s = 1 .. Len(s) /\ Len(s) \in Nat /\ DOMAIN Append(s, e) = 1 .. n
      /\ Append(s, e)[n] = e
  OBVIOUS
<1>2. \A i \in 1 .. Len(s) : Append(s, e)[i] = s[i]
  OBVIOUS
<1>3. IsFiniteSet(M) /\ Cardinality(M) \in Nat
  BY CountType DEF Count
<1>4. n \notin M /\ \A i : i \in 1 .. n <=> i \in 1 .. Len(s) \/ i = n
  BY <1>1
<1>5. N = IF e \in S THEN M \cup {n} ELSE M
  BY <1>1, <1>2, <1>4
<1> HIDE DEF M, N, n
<1>6. Cardinality(N) = Cardinality(M) + (IF e \in S THEN 1 ELSE 0)
  <2>1. CASE e \in S
    <3>1. N = M \cup {n} /\ Cardinality(M \cup {n}) = Cardinality(M) + 1
      BY <1>3, <1>4, <1>5, <2>1, FS_AddElement
    <3> QED
      BY <2>1, <3>1
  <2>2. CASE e \notin S
    BY <1>3, <1>5, <2>2
  <2> QED
    BY <2>1, <2>2
<1> QED
  BY <1>6 DEF Count, M, N

LEMMA CountTail ==
  ASSUME NEW T, NEW s \in Seq(T), s # <<>>, NEW S
  PROVE  Count(s, S) = Count(Tail(s), S) + (IF Head(s) \in S THEN 1 ELSE 0)
<1> DEFINE M == {i \in DOMAIN s : s[i] \in S}
           N == {i \in DOMAIN Tail(s) : Tail(s)[i] \in S}
           f == [i \in M \ {1} |-> i - 1]
<1>1. /\ DOMAIN s = 1 .. Len(s) /\ Len(s) \in Nat \ {0} /\ Head(s) = s[1] /\ DOMAIN Tail(s) = 1 .. Len(s) - 1
      /\ Tail(s) \in Seq(T)
  OBVIOUS
<1>2. \A i \in 1 .. Len(s) - 1 : Tail(s)[i] = s[i + 1]
  OBVIOUS
<1>3. IsFiniteSet(M) /\ Cardinality(M) \in Nat /\ IsFiniteSet(N) /\ Cardinality(N) \in Nat
  BY <1>1, CountType DEF Count
<1>4. \A i \in M \ {1} : i - 1 \in N
  <2> SUFFICES ASSUME NEW i \in M \ {1} PROVE i - 1 \in N
    OBVIOUS
  <2>1. i \in Nat /\ i - 1 \in 1 .. Len(s) - 1 /\ (i - 1) + 1 = i
    BY <1>1
  <2> QED
    BY <1>1, <1>2, <2>1
<1>5. \A j \in N : j + 1 \in M \ {1} /\ (j + 1) - 1 = j
  <2> SUFFICES ASSUME NEW j \in N PROVE j + 1 \in M \ {1} /\ (j + 1) - 1 = j
    OBVIOUS
  <2>1. j \in 1 .. Len(s) - 1 /\ j + 1 \in 1 .. Len(s) /\ j + 1 # 1 /\ (j + 1) - 1 = j
    BY <1>1
  <2> QED
    BY <1>1, <1>2, <2>1
<1>6. \A i \in M \ {1} : i \in Nat
  BY <1>1
<1>7. 1 \in M <=> Head(s) \in S
  BY <1>1
<1> HIDE DEF M, N
<1>8. f \in Bijection(M \ {1}, N)
  <2>1. f \in [M \ {1} -> N]
    BY <1>4
  <2>2. \A a, b \in M \ {1} : f[a] = f[b] => a = b
    BY <1>6
  <2>3. \A j \in N : \E i \in M \ {1} : f[i] = j
    BY <1>5
  <2> QED
    <3> HIDE DEF f
    <3> QED
      BY <2>1, <2>2, <2>3 DEF Bijection, Injection, IsInjective, Surjection
<1>9. Cardinality(N) = Cardinality(M \ {1})
  <2>1. IsFiniteSet(M \ {1}) /\ ExistsBijection(M \ {1}, N)
    BY <1>3, <1>8, FS_RemoveElement DEF ExistsBijection
  <2> QED
    BY <2>1, FS_Bijection
<1>10. Cardinality(M) = Cardinality(N) + (IF Head(s) \in S THEN 1 ELSE 0)
  <2>1. Cardinality(M \ {1}) = IF 1 \in M THEN Cardinality(M) - 1 ELSE Cardinality(M)
    BY <1>3, FS_RemoveElement
  <2> QED
    BY <1>3, <1>7, <1>9, <2>1
<1> QED
  BY <1>10 DEF Count, M, N

LEMMA SeqSubset ==
  ASSUME NEW S, NEW T, S \subseteq T, NEW s \in Seq(S) PROVE s \in Seq(T)
  OBVIOUS

Prompt == {"quick", "bad"}
Untimed == ExecSets \subseteq Seq(Prompt)
NotFull == Len(rptgs) < QUEUE_SIZE

Managers == {e \in Entry : e.src = "mgr"}
Others == {e \in Entry : e.src # "mgr"}
Runnable == {e \in Entry : e.src # "mgr" \/ e.front = "ctrl"}

Sequences ==
  /\ ready # <<>> => exec = "run"
  /\ exec_state \in Seq(Runnable) /\ (exec \notin {"add", "collect"} => exec_state \in Seq(Others))
  /\ ready \in Seq(Runnable) /\ timeline \in Seq(Others)
  /\ targets \in Seq(Prompt) /\ execs \in Seq([end : BOOLEAN, targets : Seq(Prompt)])

InputOver ==
  /\ exec_end => SentinelPushed /\ execs = <<>> /\ exec # "add"
  /\ exec \in {"end", "done"} => exec_end

OutputOver ==
  /\ \A i \in 1 .. Len(rptgs) : rptgs[i] = "undef" => i = Len(rptgs) /\ exec = "done"
  /\ egress = "done" => exec = "done" /\ rptgs = <<>>
  /\ main = "exit" /\ retval = 0 => exec = "done" /\ egress = "done"

Balance ==
  controls = num_rptset_sent + Count(rptgs, {"report"}) + Count(exec_state, Managers) + Count(ready, Managers)

ReportInv == Sequences /\ InputOver /\ OutputOver /\ Balance

\* Nothing follows the sentinel.
LEMMA PushedStays ==
  ASSUME TypeOK, SentinelPushed, execs = <<>>, [Next]_vars
  PROVE  SentinelPushed' /\ execs' = <<>>
<1> USE DEF SentinelPushed, HasRecv, mainVars, ingressVars, execsVars
<1>1. CASE Ingress
  BY <1>1 DEF Ingress, IngressCheck, IngressRecv, IngressRecvEnd, IngressRecvStopped,
     RecvFailed, IngressPush, IngressPost, IngressNext, notIngress
<1>2. CASE Exec
  BY <1>2 DEF Exec, ExecWake, ExecTimeout, ExecEvent, ExecRuleEvent, ExecEventsOver,
     ExecPopNone, ExecPopExecset, ExecAddTarget, ExecAddOver, ExecPopEnd, ExecEnd,
     ExecCollect, ExecRun, ExecRunOver, notExec
<1>3. CASE Egress \/ UNCHANGED vars
  BY <1>3 DEF Egress, EgressWake, EgressPopNone, EgressPopReport, EgressPopEnd,
     notEgress, vars
<1>4. CASE Main
  BY <1>4 DEF Main, MainStartup, MainStartupPost, MainStartupDone, StartupReturns,
     MainEnable, MainEnablePost, MainRunWait, MainStop, MainStopPost, MainStopRun,
     MainJoin, notMain
<1>5. CASE Signal
  BY <1>5 DEF Signal, SignalMain, StartupReturns, SignalIngress, SignalExec, SignalEgress
<1> QED
  BY <1>1, <1>2, <1>3, <1>4, <1>5 DEF Next

\* Only the exec worker, or a signal that wakes it, moves it on.
LEMMA ExecMoves ==
  ASSUME ~Exec, [Next]_vars
  PROVE  /\ exec' = exec \/ (exec = "wait" /\ exec' \in {"pop", "events"})
         /\ UNCHANGED <<exec_end, ready, timeline, targets, controls>>
  BY DEF Next, vars, execVars, seqVars,
     Ingress, IngressCheck, IngressRecv, IngressRecvEnd, IngressRecvStopped,
     RecvFailed, IngressPush, IngressPost, IngressNext, notIngress,
     Egress, EgressWake, EgressPopNone, EgressPopReport, EgressPopEnd, notEgress,
     Main, MainStartup, MainStartupPost, MainStartupDone, MainEnable, MainEnablePost,
     MainRunWait, MainStop, MainStopPost, MainStopRun, MainJoin, notMain,
     Signal, SignalMain, SignalIngress, SignalExec, SignalEgress

LEMMA InputStep ==
  ASSUME TypeOK, QueueInv, InputOver, [Next]_vars
  PROVE  InputOver'
<1>1. CASE ExecPopEnd
  <2>1. SentinelPushed' /\ execs' = <<>>
    BY <1>1, SentinelTaken DEF ExecPopEnd, notExec, mainVars, ingressVars,
       SentinelPushed, HasRecv
  <2> QED
    BY <1>1, <2>1 DEF ExecPopEnd, InputOver
<1>2. CASE Exec /\ ~ExecPopEnd
  <2>1. /\ exec_end' = exec_end
        /\ exec' = "add" => exec = "add" \/ execs # <<>>
        /\ exec' \in {"end", "done"} => exec_end \/ exec = "end"
    BY <1>2 DEF Exec, ExecWake, ExecTimeout, ExecEvent, ExecRuleEvent, ExecEventsOver,
       ExecPopNone, ExecPopExecset, ExecAddTarget, ExecAddOver, ExecEnd, ExecCollect,
       ExecRun, ExecRunOver, seqVars
  <2> QED
    BY <2>1, PushedStays DEF InputOver
<1>3. CASE ~Exec
  BY <1>3, ExecMoves, PushedStays DEF InputOver
<1> QED
  BY <1>1, <1>2, <1>3

\* What a step does to the report queue, which is not full.
LEMMA RptgsChange ==
  ASSUME TypeOK, NotFull, [Next]_vars
  PROVE  \/ rptgs' = rptgs /\ (exec = "done" => exec' = "done")
         \/ exec # "done" /\ rptgs' = Append(rptgs, "report") /\ egress' = egress
         \/ exec = "end" /\ exec' = "done" /\ rptgs' = Append(rptgs, "undef") /\ egress' = egress
         \/ exec' = exec /\ rptgs # <<>> /\ rptgs' = Tail(rptgs) /\ (EgressPopReport \/ EgressPopEnd)
<1>1. CASE Exec
  BY <1>1 DEF Exec, ExecWake, ExecTimeout, ExecEvent, ExecRuleEvent, ExecEventsOver,
     ExecPopNone, ExecPopExecset, ExecAddTarget, ExecAddOver, ExecPopEnd, ExecEnd,
     ExecCollect, ExecRun, ExecRunOver, notExec, rptgsVars, egressVars, PushReport, Push, NotFull
<1>2. CASE Egress
  BY <1>2 DEF Egress, EgressWake, EgressPopNone, EgressPopReport, EgressPopEnd,
     notEgress, execVars, rptgsVars
<1>3. CASE Ingress \/ Main \/ Signal \/ UNCHANGED vars
  <2>1. rptgs' = rptgs
    BY <1>3 DEF vars, rptgsVars,
       Ingress, IngressCheck, IngressRecv, IngressRecvEnd, IngressRecvStopped,
       RecvFailed, IngressPush, IngressPost, IngressNext, notIngress,
       Main, MainStartup, MainStartupPost, MainStartupDone, MainEnable, MainEnablePost,
       MainRunWait, MainStop, MainStopPost, MainStopRun, MainJoin, notMain,
       Signal, SignalMain, SignalIngress, SignalExec, SignalEgress
  <2>2. CASE Exec
    BY <1>1, <2>2
  <2> QED
    BY <2>1, <2>2, ExecMoves
<1> QED
  BY <1>1, <1>2, <1>3 DEF Next

LEMMA OutputStep ==
  ASSUME TypeOK, NotFull, OutputOver, [Next]_vars
  PROVE  OutputOver'
<1> DEFINE UndefLast == \A i \in 1 .. Len(rptgs) : rptgs[i] = "undef" => i = Len(rptgs) /\ exec = "done"
<1>1. UndefLast /\ Len(rptgs) \in Nat
  BY DEF OutputOver, TypeOK
<1>2. UndefLast' /\ (egress = "done" => exec' = "done" /\ rptgs' = <<>>)
  <2>1. CASE rptgs' = rptgs /\ (exec = "done" => exec' = "done")
    BY <1>1, <2>1 DEF OutputOver
  <2>2. ASSUME NEW x \in {"report", "undef"}, exec # "done", rptgs' = Append(rptgs, x),
               x = "undef" => exec' = "done"
        PROVE  UndefLast' /\ (egress = "done" => exec' = "done" /\ rptgs' = <<>>)
    <3>1. /\ Len(rptgs') = Len(rptgs) + 1 /\ rptgs'[Len(rptgs) + 1] = x
          /\ \A i \in 1 .. Len(rptgs) : rptgs'[i] = rptgs[i]
      BY <2>2 DEF TypeOK
    <3> QED
      BY <1>1, <2>2, <3>1 DEF OutputOver
  <2>3. CASE exec' = exec /\ rptgs # <<>> /\ rptgs' = Tail(rptgs) /\ (EgressPopReport \/ EgressPopEnd)
    <3>1. /\ Len(rptgs') = Len(rptgs) - 1 /\ Len(rptgs) > 0
          /\ \A i \in 1 .. Len(rptgs) - 1 : rptgs'[i] = rptgs[i + 1]
      BY <1>1, <2>3, TailItems DEF TypeOK
    <3>2. egress # "done"
      BY <2>3 DEF EgressPopReport, EgressPopEnd
    <3>3. \A i \in 1 .. Len(rptgs) - 1 :
            i + 1 \in 1 .. Len(rptgs) /\ (i + 1 = Len(rptgs) => i = Len(rptgs) - 1)
      BY <1>1
    <3>4. \A i \in 1 .. Len(rptgs) - 1 : rptgs[i + 1] = "undef" => i = Len(rptgs) - 1 /\ exec = "done"
      BY <1>1, <3>3
    <3>5. \A i \in 1 .. Len(rptgs') : rptgs'[i] = "undef" => i = Len(rptgs') /\ exec' = "done"
      BY <2>3, <3>1, <3>4
    <3> QED
      BY <3>2, <3>5
  <2> QED
    BY <2>1, <2>2, <2>3, RptgsChange
<1>3. egress' = "done" => exec' = "done" /\ rptgs' = <<>>
  <2>1. CASE EgressPopEnd
    <3>1. rptgs # <<>> /\ Head(rptgs) = "undef" /\ Head(rptgs) = rptgs[1] /\ 1 \in 1 .. Len(rptgs)
      BY <2>1, TailItems DEF EgressPopEnd, TypeOK
    <3>2. Len(rptgs) = 1 /\ exec = "done"
      BY <1>1, <3>1
    <3>3. rptgs' = Tail(rptgs) /\ exec' = exec
      BY <2>1 DEF EgressPopEnd, notEgress, execVars
    <3>4. Tail(rptgs) \in Seq({"report", "undef"}) /\ Len(Tail(rptgs)) = 0
      BY <3>1, <3>2, HeadTailType, TailItems DEF TypeOK
    <3> QED
      BY <3>2, <3>3, <3>4
  <2>2. CASE ~EgressPopEnd
    <3>1. egress' = "done" => egress = "done"
      BY <2>2 DEF Next, vars, egressVars,
       Ingress, IngressCheck, IngressRecv, IngressRecvEnd, IngressRecvStopped,
       RecvFailed, IngressPush, IngressPost, IngressNext, notIngress,
       Exec, ExecWake, ExecTimeout, ExecEvent, ExecRuleEvent, ExecEventsOver,
       ExecPopNone, ExecPopExecset, ExecAddTarget, ExecAddOver, ExecPopEnd, ExecEnd,
       ExecCollect, ExecRun, ExecRunOver, notExec,
       Egress, EgressWake, EgressPopNone, EgressPopReport,
       Main, MainStartup, MainStartupPost, MainStartupDone, MainEnable, MainEnablePost,
       MainRunWait, MainStop, MainStopPost, MainStopRun, MainJoin, notMain,
       Signal, SignalMain, SignalIngress, SignalExec, SignalEgress
    <3> QED
      BY <1>2, <3>1
  <2> QED
    BY <2>1, <2>2
<1>4. main' = "exit" /\ retval' = 0 => exec' = "done" /\ egress' = "done"
  <2>1. main' = "exit" /\ retval' = 0 => (main = "exit" /\ retval = 0) \/ MainJoin
    BY DEF TypeOK, Next, vars, mainVars,
       Ingress, IngressCheck, IngressRecv, IngressRecvEnd, IngressRecvStopped,
       RecvFailed, IngressPush, IngressPost, IngressNext, notIngress,
       Exec, ExecWake, ExecTimeout, ExecEvent, ExecRuleEvent, ExecEventsOver,
       ExecPopNone, ExecPopExecset, ExecAddTarget, ExecAddOver, ExecPopEnd, ExecEnd,
       ExecCollect, ExecRun, ExecRunOver,
       Egress, EgressWake, EgressPopNone, EgressPopReport, EgressPopEnd, notEgress,
       Main, MainStartup, MainStartupPost, MainStartupDone, StartupReturns, MainEnable,
       MainEnablePost, MainRunWait, MainStop, MainStopPost, MainStopRun,
       Signal, SignalMain, SignalIngress, SignalExec, SignalEgress
  <2>2. CASE MainJoin
    BY <2>2 DEF MainJoin, notMain, execVars, egressVars
  <2>3. CASE main = "exit" /\ retval = 0
    <3>1. exec = "done" /\ egress = "done"
      BY <2>3 DEF OutputOver
    <3>2. egress' = "done"
      BY <3>1 DEF Next, vars, egressVars,
       Ingress, IngressCheck, IngressRecv, IngressRecvEnd, IngressRecvStopped,
       RecvFailed, IngressPush, IngressPost, IngressNext, notIngress,
       Exec, ExecWake, ExecTimeout, ExecEvent, ExecRuleEvent, ExecEventsOver,
       ExecPopNone, ExecPopExecset, ExecAddTarget, ExecAddOver, ExecPopEnd, ExecEnd,
       ExecCollect, ExecRun, ExecRunOver, notExec,
       Egress, EgressWake, EgressPopNone, EgressPopReport, EgressPopEnd,
       Main, MainStartup, MainStartupPost, MainStartupDone, MainEnable, MainEnablePost,
       MainRunWait, MainStop, MainStopPost, MainStopRun, MainJoin, notMain,
       Signal, SignalMain, SignalIngress, SignalExec, SignalEgress
    <3> QED
      BY <1>2, <3>1, <3>2
  <2> QED
    BY <2>1, <2>2, <2>3
<1> QED
  BY <1>2, <1>3, <1>4 DEF OutputOver

LEMMA OthersRun == Others \subseteq Runnable /\ Runnable \subseteq Entry
  BY DEF Others, Runnable

LEMMA NoManagers ==
  ASSUME NEW s \in Seq(Others) PROVE Count(s, Managers) = 0
<1>1. \A i \in DOMAIN s : s[i] \notin Managers
  BY DEF Others, Managers
<1> QED
  BY <1>1, CountType

\* A sequence of no manager is added to exec_state.
LEMMA OtherAppended ==
  ASSUME NEW e \in Others, NEW s \in Seq(Runnable)
  PROVE  /\ Append(s, e) \in Seq(Runnable) /\ (s \in Seq(Others) => Append(s, e) \in Seq(Others))
         /\ Count(Append(s, e), Managers) = Count(s, Managers)
<1>1. e \in Runnable /\ e \notin Managers
  BY OthersRun DEF Others, Managers
<1>2. Count(Append(s, e), Managers) = Count(s, Managers) + 0 /\ Count(s, Managers) \in Nat
  BY <1>1, CountAppend, CountType
<1> QED
  BY <1>1, <1>2

LEMMA OtherEntry ==
  ASSUME NEW src \in {"startup", "rule"}, NEW kind PROVE NewEntry(src, kind) \in Others
  BY EntryType DEF NewEntry, Others

\* An event of the timeline belongs to no manager.
LEMMA EventReport ==
  ASSUME TypeOK, Sequences, Balance, ExecEvent
  PROVE  Sequences' /\ Balance'
<1>1. PICK i \in 1 .. Len(timeline) :
        /\ exec_state' = Append(exec_state, NewEntry(timeline[i].src, "quick"))
        /\ timeline' = RemoveAt(timeline, i)
        /\ IF timeline[i].src = "mgr" THEN PushReport ELSE UNCHANGED rptgsVars
  BY DEF ExecEvent
<1>2. timeline[i] \in Others
  BY <1>1 DEF Sequences
<1>3. timeline[i].src \in {"startup", "rule"}
  BY <1>2 DEF Others, Entry
<1>4. NewEntry(timeline[i].src, "quick") \in Others /\ rptgs' = rptgs
  BY <1>1, <1>3, OtherEntry DEF rptgsVars
<1>5. timeline' \in Seq(Others)
  BY <1>1, RemoveAtType DEF Sequences
<1>6. /\ exec \notin {"add", "collect", "run"} /\ exec' = "events"
      /\ UNCHANGED <<ready, targets, execs, controls, num_rptset_sent>>
  BY DEF ExecEvent, notExec, egressVars, execsVars
<1>7. /\ exec_state' \in Seq(Runnable) /\ (exec_state \in Seq(Others) => exec_state' \in Seq(Others))
      /\ Count(exec_state', Managers) = Count(exec_state, Managers)
  BY <1>1, <1>4, OtherAppended DEF Sequences
<1> QED
  BY <1>4, <1>5, <1>6, <1>7 DEF Sequences, Balance

LEMMA RuleReport ==
  ASSUME TypeOK, Sequences, Balance, ExecRuleEvent
  PROVE  Sequences' /\ Balance'
<1>1. /\ exec \notin {"add", "collect", "run"} /\ exec' = "pop"
      /\ UNCHANGED <<ready, timeline, targets, execs, controls, num_rptset_sent, rptgs>>
      /\ exec_state' = Append(exec_state, NewEntry("rule", "quick"))
  BY DEF ExecRuleEvent, notExec, egressVars, rptgsVars
<1>2. /\ exec_state' \in Seq(Runnable) /\ (exec_state \in Seq(Others) => exec_state' \in Seq(Others))
      /\ Count(exec_state', Managers) = Count(exec_state, Managers)
  BY <1>1, OtherEntry, OtherAppended DEF Sequences
<1> QED
  BY <1>1, <1>2 DEF Sequences, Balance

LEMMA StartupReport ==
  ASSUME TypeOK, Sequences, Balance, MainStartup
  PROVE  Sequences' /\ Balance'
<1>1. /\ UNCHANGED <<exec, ready, timeline, targets, execs, controls, num_rptset_sent, rptgs>>
      /\ exec_state' = exec_state \/ exec_state' = Append(exec_state, NewEntry("startup", Head(startup)))
  BY DEF MainStartup, notMain, egressVars, rptgsVars, execsVars
<1>2. /\ exec_state' \in Seq(Runnable) /\ (exec_state \in Seq(Others) => exec_state' \in Seq(Others))
      /\ Count(exec_state', Managers) = Count(exec_state, Managers)
  BY <1>1, OtherEntry, OtherAppended DEF Sequences
<1> QED
  BY <1>1, <1>2 DEF Sequences, Balance

LEMMA PopReport ==
  ASSUME TypeOK, Sequences, Balance, ExecPopExecset
  PROVE  Sequences' /\ Balance'
<1>1. /\ UNCHANGED <<exec_state, ready, timeline, controls, num_rptset_sent, rptgs>>
      /\ execs # <<>> /\ execs' = Tail(execs) /\ targets' = Head(execs).targets
      /\ exec = "pop" /\ exec' = "add"
  BY DEF ExecPopExecset, notExec, egressVars, rptgsVars
<1>2. Head(execs) \in [end : BOOLEAN, targets : Seq(Prompt)] /\ execs' \in Seq([end : BOOLEAN, targets : Seq(Prompt)])
  BY <1>1, HeadTailType DEF Sequences
<1>3. targets' \in Seq(Prompt)
  BY <1>1, <1>2
<1> QED
  BY <1>1, <1>2, <1>3 DEF Sequences, Balance

\* A target is counted and becomes a sequence, or a report that it failed.
LEMMA AddReport ==
  ASSUME TypeOK, NotFull, Sequences, Balance, ExecAddTarget
  PROVE  Sequences' /\ Balance'
<1>1. /\ UNCHANGED <<exec, ready, timeline, execs, num_rptset_sent>> /\ exec = "add"
      /\ targets # <<>> /\ targets' = Tail(targets) /\ controls' = controls + Controls(Head(targets))
  BY DEF ExecAddTarget, notExec, egressVars
<1>2. Head(targets) \in Prompt /\ targets' \in Seq(Prompt)
  BY <1>1, HeadTailType DEF Sequences
<1>3. controls' = controls + 1 /\ controls \in Nat
  BY <1>1, <1>2 DEF Controls, Prompt, TypeOK
<1>4. /\ Count(rptgs, {"report"}) \in Nat /\ Count(exec_state, Managers) \in Nat
      /\ Count(ready, Managers) \in Nat /\ num_rptset_sent \in Nat
  BY CountType DEF TypeOK
<1>5. CASE Head(targets) = "bad"
  <2>1. rptgs' = Append(rptgs, "report") /\ exec_state' = exec_state
    BY <1>5 DEF ExecAddTarget, PushReport, Push, NotFull
  <2>2. Count(rptgs', {"report"}) = Count(rptgs, {"report"}) + 1
    BY <2>1, CountAppend DEF TypeOK
  <2>3. Sequences'
    BY <1>1, <1>2, <2>1 DEF Sequences
  <2> QED
    BY <1>1, <1>3, <1>4, <2>1, <2>2, <2>3 DEF Balance
<1>6. CASE Head(targets) # "bad"
  <2> DEFINE e == NewEntry("mgr", Head(targets))
  <2>1. exec_state' = Append(exec_state, e) /\ rptgs' = rptgs
    BY <1>6 DEF ExecAddTarget, rptgsVars
  <2>2. e \in Managers /\ e \in Runnable /\ e \in Entry
    BY <1>2, EntryType DEF NewEntry, Managers, Runnable, Prompt
  <2> HIDE DEF e
  <2>3. Count(exec_state', Managers) = Count(exec_state, Managers) + 1
    BY <2>1, <2>2, CountAppend DEF TypeOK
  <2>4. exec_state' \in Seq(Runnable)
    BY <2>1, <2>2, AppendType DEF Sequences
  <2>5. Sequences'
    BY <1>1, <1>2, <2>4 DEF Sequences
  <2> QED
    BY <1>1, <1>3, <1>4, <2>1, <2>3, <2>5 DEF Balance
<1> QED
  BY <1>5, <1>6

LEMMA CollectReport ==
  ASSUME TypeOK, Sequences, Balance, ExecCollect
  PROVE  Sequences' /\ Balance'
<1>1. /\ UNCHANGED <<timeline, targets, execs, controls, num_rptset_sent, rptgs>>
      /\ exec = "collect" /\ exec' = "run" /\ ready' = exec_state /\ exec_state' = <<>>
  BY DEF ExecCollect, notExec, egressVars, rptgsVars, execsVars
<1>2. ready = <<>> /\ <<>> \in Seq(Others) /\ <<>> \in Seq(Runnable)
  BY <1>1 DEF Sequences
<1>3. Count(<<>>, Managers) = 0 /\ Count(exec_state, Managers) \in Nat
  BY CountEmpty, CountType DEF TypeOK
<1>4. num_rptset_sent \in Nat /\ Count(rptgs, {"report"}) \in Nat
  BY CountType DEF TypeOK
<1> QED
  BY <1>1, <1>2, <1>3, <1>4 DEF Sequences, Balance

\* The front of a sequence is run and reported; one that waits has no manager.
LEMMA RunReport ==
  ASSUME TypeOK, NotFull, Sequences, Balance, ExecRun
  PROVE  Sequences' /\ Balance'
<1> DEFINE e == Head(ready)
<1>1. /\ UNCHANGED <<exec, exec_state, targets, execs, controls, num_rptset_sent>> /\ exec = "run"
      /\ ready # <<>> /\ ready' = Tail(ready)
      /\ IF e.front = "timed"
         THEN timeline' = Append(timeline, e) /\ rptgs' = rptgs
         ELSE timeline' = timeline /\ (IF e.src = "mgr" THEN rptgs' = Append(rptgs, "report") ELSE rptgs' = rptgs)
  BY DEF ExecRun, notExec, egressVars, rptgsVars, execsVars, PushReport, Push, NotFull
<1>2. e \in Runnable /\ ready' \in Seq(Runnable)
  BY <1>1, HeadTailType DEF Sequences
<1>3. Count(ready, Managers) = Count(ready', Managers) + (IF e \in Managers THEN 1 ELSE 0)
  BY <1>1, CountTail DEF TypeOK
<1>4. e \in Managers <=> e.src = "mgr"
  BY <1>2 DEF Managers, Runnable
<1>5. e.front = "timed" => e \in Others
  BY <1>2 DEF Runnable, Others
<1> HIDE DEF e
<1>6. timeline' \in Seq(Others)
  BY <1>1, <1>5, AppendType DEF Sequences
<1>7. Count(Append(rptgs, "report"), {"report"}) = Count(rptgs, {"report"}) + 1
  BY CountAppend DEF TypeOK
<1>8. /\ Count(rptgs, {"report"}) \in Nat /\ Count(exec_state, Managers) \in Nat
      /\ Count(ready', Managers) \in Nat /\ num_rptset_sent \in Nat
  BY <1>2, CountType DEF TypeOK
<1>9. Count(rptgs', {"report"}) = Count(rptgs, {"report"}) + (IF e \in Managers THEN 1 ELSE 0)
  <2>1. CASE e.src = "mgr"
    <3>1. e.front # "timed" /\ e \in Managers
      BY <1>4, <1>5, <2>1 DEF Others
    <3> QED
      BY <1>1, <1>7, <2>1, <3>1
  <2>2. CASE e.src # "mgr"
    <3>1. rptgs' = rptgs /\ e \notin Managers
      BY <1>1, <1>4, <2>2
    <3> QED
      BY <1>8, <3>1
  <2> QED
    BY <2>1, <2>2
<1>10. Balance'
  BY <1>1, <1>3, <1>8, <1>9 DEF Balance
<1> QED
  BY <1>1, <1>2, <1>6, <1>10 DEF Sequences

LEMMA EndReport ==
  ASSUME TypeOK, NotFull, Sequences, Balance, ExecEnd
  PROVE  Sequences' /\ Balance'
<1>1. /\ UNCHANGED <<exec_state, ready, timeline, targets, execs, controls, num_rptset_sent>>
      /\ exec = "end" /\ exec' = "done" /\ rptgs' = Append(rptgs, "undef")
  BY DEF ExecEnd, notExec, seqVars, egressVars, execsVars, Push, NotFull
<1>2. Count(rptgs, {"report"}) \in Nat /\ "undef" \notin {"report"} /\ rptgs \in Seq({"report", "undef"})
  BY CountType DEF TypeOK
<1>3. Count(Append(rptgs, "undef"), {"report"}) = Count(rptgs, {"report"}) + (IF "undef" \in {"report"} THEN 1 ELSE 0)
  BY <1>2, CountAppend
<1>4. Count(rptgs', {"report"}) = Count(rptgs, {"report"})
  BY <1>1, <1>2, <1>3
<1> QED
  BY <1>1, <1>4 DEF Sequences, Balance

\* An EXECSET that is put in the queue has no target that waits.
LEMMA Queued ==
  ASSUME Untimed, TypeOK, Sequences, Ingress \/ Main
  PROVE  execs' \in Seq([end : BOOLEAN, targets : Seq(Prompt)])
<1> DEFINE P == [end : BOOLEAN, targets : Seq(Prompt)]
<1>1. execs' = execs \/ execs' = Push(execs, Undef) \/ \E v \in ExecSets : execs' = Push(execs, Msg(v))
  <2>1. CASE IngressPush
    BY <2>1 DEF IngressPush, TypeOK
  <2>2. CASE ~IngressPush
    BY <2>2 DEF Ingress, IngressCheck, IngressRecv, IngressRecvEnd, IngressRecvStopped,
       RecvFailed, IngressPost, IngressNext, execsVars,
       Main, MainStartup, MainStartupPost, MainStartupDone, MainEnable, MainEnablePost,
       MainRunWait, MainStop, MainStopPost, MainStopRun, MainJoin
  <2> QED
    BY <2>1, <2>2
<1>2. Undef \in P /\ \A v \in ExecSets : Msg(v) \in P
  BY DEF Undef, Msg, Untimed
<1>3. execs \in Seq(P)
  BY DEF Sequences
<1> HIDE DEF P
<1>4. execs' \in Seq(P)
  BY <1>1, <1>2, <1>3, PushType
<1> QED
  BY <1>4 DEF P

LEMMA QuietReport ==
  ASSUME Untimed, TypeOK, InputOver, Sequences, Balance, [Next]_vars, ~MainStartup, ~EgressPopReport, ~EgressPopEnd,
         Exec => \/ ExecWake \/ ExecTimeout \/ ExecEventsOver \/ ExecPopNone \/ ExecAddOver \/ ExecPopEnd \/ ExecRunOver
  PROVE  Sequences' /\ Balance'
<1>1. CASE Exec
  <2>1. /\ UNCHANGED <<exec_state, ready, timeline, targets, controls, num_rptset_sent, rptgs>>
        /\ execs' = execs \/ (execs # <<>> /\ execs' = Tail(execs))
        /\ exec = "run" => ready = <<>>
        /\ exec \in {"add", "collect"} => exec' = "collect"
    BY <1>1 DEF Exec, ExecWake, ExecTimeout, ExecEventsOver, ExecPopNone, ExecAddOver,
       ExecPopEnd, ExecRunOver, notExec, seqVars, egressVars, rptgsVars, execsVars, InputOver
  <2>2. execs' \in Seq([end : BOOLEAN, targets : Seq(Prompt)])
    BY <2>1, HeadTailType DEF Sequences
  <2> QED
    BY <2>1, <2>2 DEF Sequences, Balance
<1>2. CASE ~Exec
  <2>1. UNCHANGED <<exec_state, num_rptset_sent, rptgs>>
    BY <1>2 DEF Next, vars, execVars, seqVars, egressVars, rptgsVars,
       Ingress, IngressCheck, IngressRecv, IngressRecvEnd, IngressRecvStopped,
       RecvFailed, IngressPush, IngressPost, IngressNext, notIngress,
       Egress, EgressWake, EgressPopNone, notEgress,
       Main, MainStartupPost, MainStartupDone, MainEnable, MainEnablePost,
       MainRunWait, MainStop, MainStopPost, MainStopRun, MainJoin, notMain,
       Signal, SignalMain, SignalIngress, SignalExec, SignalEgress
  <2>2. execs' \in Seq([end : BOOLEAN, targets : Seq(Prompt)])
    <3>1. CASE Ingress \/ Main
      BY <3>1, Queued
    <3>2. CASE Egress \/ Signal \/ UNCHANGED vars
      BY <3>2 DEF Sequences, vars, execsVars, Egress, EgressWake, EgressPopNone, EgressPopReport,
         EgressPopEnd, notEgress, Signal, SignalMain, SignalIngress, SignalExec, SignalEgress
    <3> QED
      BY <1>2, <3>1, <3>2 DEF Next
  <2> QED
    BY <1>2, <2>1, <2>2, ExecMoves DEF Sequences, Balance
<1> QED
  BY <1>1, <1>2

LEMMA SentReport ==
  ASSUME TypeOK, Sequences, Balance, EgressPopReport \/ EgressPopEnd
  PROVE  Sequences' /\ Balance'
<1>1. /\ UNCHANGED <<exec, exec_state, ready, timeline, targets, execs, controls>>
      /\ rptgs # <<>> /\ rptgs' = Tail(rptgs)
      /\ \/ Head(rptgs) = "report" /\ num_rptset_sent' = num_rptset_sent + 1
         \/ Head(rptgs) = "undef" /\ num_rptset_sent' = num_rptset_sent
  BY DEF EgressPopReport, EgressPopEnd, notEgress, execVars, seqVars, execsVars
<1>2. Count(rptgs, {"report"}) = Count(rptgs', {"report"}) + (IF Head(rptgs) \in {"report"} THEN 1 ELSE 0)
  BY <1>1, CountTail DEF TypeOK
<1>3. Tail(rptgs) \in Seq({"report", "undef"})
  BY <1>1, HeadTailType DEF TypeOK
<1>4. /\ Count(rptgs', {"report"}) \in Nat /\ Count(exec_state, Managers) \in Nat
      /\ Count(ready, Managers) \in Nat /\ num_rptset_sent \in Nat
  BY <1>1, <1>3, CountType DEF TypeOK
<1>5. num_rptset_sent' + Count(rptgs', {"report"}) = num_rptset_sent + Count(rptgs, {"report"})
  BY <1>1, <1>2, <1>4
<1> QED
  BY <1>1, <1>5 DEF Sequences, Balance

LEMMA ReportStep ==
  ASSUME Untimed, TypeOK, QueueInv, NotFull, ReportInv, [Next]_vars
  PROVE  ReportInv'
<1>1. InputOver' /\ OutputOver'
  BY InputStep, OutputStep DEF ReportInv
<1>2. Sequences' /\ Balance'
  <2>1. CASE \/ ExecEvent \/ ExecRuleEvent \/ ExecPopExecset \/ ExecAddTarget \/ ExecCollect
             \/ ExecRun \/ ExecEnd
    BY <2>1, EventReport, RuleReport, PopReport, AddReport, CollectReport, RunReport, EndReport DEF ReportInv
  <2>2. CASE MainStartup \/ EgressPopReport \/ EgressPopEnd
    BY <2>2, StartupReport, SentReport DEF ReportInv
  <2> QED
    BY <2>1, <2>2, QuietReport DEF ReportInv, Exec
<1> QED
  BY <1>1, <1>2 DEF ReportInv

LEMMA ReportInit == Init => ReportInv
<1> SUFFICES ASSUME Init PROVE ReportInv
  OBVIOUS
<1>1. /\ execs = <<>> /\ exec_state = <<>> /\ ready = <<>> /\ targets = <<>> /\ timeline = <<>> /\ rptgs = <<>>
      /\ exec = "wait" /\ egress = "wait" /\ main = "startup" /\ ~exec_end
      /\ controls = 0 /\ num_rptset_sent = 0
  BY DEF Init
<1>2. \A S : <<>> \in Seq(S)
  OBVIOUS
<1>3. Count(<<>>, {"report"}) = 0 /\ Count(<<>>, Managers) = 0
  BY CountEmpty
<1> QED
  BY <1>1, <1>2, <1>3 DEF ReportInv, Sequences, InputOver, OutputOver, Balance

\* If no target of a manager waits and the report queue always has room, then
\* once refda_agent_stop has joined the workers no EXECSET is left and every
\* CTRL has had its execution report sent, for any number of messages, EXECSETs,
\* startup targets, rules and signals, and whichever thread pushes the EXECSETs.
\* Both conditions are needed: a report for a full queue is dropped, and so is a
\* sequence that resumes in the pass of the worker that takes the sentinel.
THEOREM ReportsKept == Untimed => (Spec /\ []NotFull => []EveryTargetReported)
<1> SUFFICES ASSUME Untimed PROVE Spec /\ []NotFull => []EveryTargetReported
  OBVIOUS
<1>1. Init => TypeOK /\ QueueInv /\ ReportInv
  BY InitType, WakeInit, ReportInit DEF WakeInv, QueueInv
<1>2. TypeOK /\ QueueInv /\ NotFull /\ ReportInv /\ [Next]_vars => (TypeOK /\ QueueInv /\ ReportInv)'
  BY NextType, QueueStep, ReportStep
<1>3. TypeOK /\ ReportInv => EveryTargetReported
  <2> SUFFICES ASSUME TypeOK, ReportInv, main = "exit", retval = 0
               PROVE  execs = <<>> /\ num_rptset_sent = controls
    BY DEF EveryTargetReported
  <2>1. exec = "done" /\ execs = <<>> /\ rptgs = <<>>
    BY DEF ReportInv, InputOver, OutputOver
  <2>2. ready = <<>> /\ exec_state \in Seq(Others)
    BY <2>1 DEF ReportInv, Sequences
  <2>3. Count(rptgs, {"report"}) = 0 /\ Count(ready, Managers) = 0 /\ Count(exec_state, Managers) = 0
    BY <2>1, <2>2, CountEmpty, NoManagers
  <2> QED
    BY <2>1, <2>3 DEF ReportInv, Balance, TypeOK
<1> QED
  BY <1>1, <1>2, <1>3, PTL DEF Spec
=============================================================================
