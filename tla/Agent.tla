------------------------------- MODULE Agent -------------------------------
(***************************************************************************)
(* The threads of a DTNMA Agent and what they share: the ingress, exec and *)
(* egress workers and the main thread, the two hand-off queues with their  *)
(* semaphores, the startup gate execs_enable, the run/stop semaphore and   *)
(* the end-of-input sentinel that travels ingress -> exec -> egress.       *)
(*                                                                         *)
(* An EXECSET is the sequence of its targets, and a target is what it does *)
(* to the worker: "quick" finishes when it is run, "timed" first waits for *)
(* a timeline event and then has one more CTRL to run, "bad" fails to      *)
(* expand.  Every CTRL of a manager's target ends in an execution report.   *)
(* Time is abstract: a timeline event is due at some moment, unspecified.  *)
(***************************************************************************)
EXTENDS Integers, Sequences, SequencesExt

CONSTANTS
  ExecSets,     \* the EXECSETs a peer may send, sequences of target kinds
  MaxValues,    \* bound: ARIs in one received message
  MaxRecv,      \* bound: messages received
  Startup,      \* the startup targets of the command line, in order
  HasRule,      \* whether an enabled rule keeps an event in the timeline
  RecvModes,    \* whether mif.recv may be, or not be, given
  QUEUE_SIZE,   \* AGENT_QUEUE_SIZE
  MaxSignals    \* bound: termination signals delivered

Kinds == {"quick", "timed", "bad"}

ASSUME ExecSetsAssumption == ExecSets \subseteq Seq(Kinds)
ASSUME StartupAssumption == Startup \in Seq(Kinds)
ASSUME BoundsAssumption ==
  /\ MaxValues \in Nat /\ MaxRecv \in Nat /\ MaxSignals \in Nat
  /\ QUEUE_SIZE \in Nat \ {0}
ASSUME FlagsAssumption == HasRule \in BOOLEAN /\ RecvModes \subseteq BOOLEAN

VARIABLES
  main, ingress, exec, egress,    \* where each thread is
  startup, status, retval,        \* locals of main()
  vals, recv_res, nrecv,          \* locals of the ingress worker, and its bound
  stop,                           \* value of agent.running.stop
  execs, execs_sem, execs_enable, \* the EXECSET queue
  exec_end, exec_state, ready,    \* the sequences, and the ones being run
  targets,                        \* of the EXECSET being added
  timeline, rule_event,           \* EXEC events; whether the rule has one
  rptgs, rptgs_sem,               \* the RPTSET queue
  num_rptset_sent, controls,      \* reports sent; managers' CTRLs to report
  nsig

mainVars    == <<main, startup, status, retval>>
ingressVars == <<ingress, vals, recv_res, nrecv>>
seqVars     == <<exec_end, exec_state, ready, targets, timeline, rule_event>>
execVars    == <<exec, seqVars>>
egressVars  == <<egress, num_rptset_sent>>
execsVars   == <<execs, execs_sem, execs_enable>>
rptgsVars   == <<rptgs, rptgs_sem>>

vars == <<mainVars, ingressVars, execVars, egressVars, execsVars, rptgsVars,
          stop, controls, nsig>>

\* What the steps of one thread leave alone.
notIngress == <<mainVars, execVars, egressVars, rptgsVars, stop, controls, nsig>>
notExec    == <<ingressVars, egressVars, stop, nsig>>
notEgress  == <<mainVars, ingressVars, execVars, execsVars, controls, nsig>>
notMain    == <<ingressVars, egressVars, rptgsVars, controls, nsig>>

Undef == [end |-> TRUE, targets |-> <<>>]
Msg(ts) == [end |-> FALSE, targets |-> ts]
Message == [end : BOOLEAN, targets : Seq(Kinds)]

\* How many CTRLs of a target are to be reported.
Controls(kind) == IF kind = "timed" THEN 2 ELSE 1

\* A sequence in exec_state: who asked for it, and what its front item does.
Entry == [src : {"mgr", "startup", "rule"}, front : {"ctrl", "timed"}]

NewEntry(src, kind) ==
  [src |-> src, front |-> IF kind = "timed" THEN "timed" ELSE "ctrl"]

\* refda_msgdata_queue_push_move: a full buffer refuses the item, silently.
Push(q, m) == IF Len(q) < QUEUE_SIZE THEN Append(q, m) ELSE q

Running == stop = 0

\* agent.mif.recv is given; otherwise there is no ingress worker and an external
\* thread of the embedding program pushes the EXECSETs.
HasRecv == ingress \notin {"external", "external_post"}
TimelineEmpty == timeline = <<>> /\ ~rule_event

Init ==
  /\ main = "startup" /\ startup = Startup /\ status = "none" /\ retval = 0
  /\ \E recv \in RecvModes : ingress = IF recv THEN "check" ELSE "external"
  /\ vals = <<>> /\ recv_res = 0 /\ nrecv = 0
  /\ exec = "wait" /\ exec_end = FALSE
  /\ exec_state = <<>> /\ ready = <<>> /\ targets = <<>>
  /\ timeline = <<>> /\ rule_event = HasRule
  /\ egress = "wait" /\ num_rptset_sent = 0
  /\ execs = <<>> /\ execs_sem = 0 /\ execs_enable = FALSE
  /\ rptgs = <<>> /\ rptgs_sem = 0
  /\ stop = 0 /\ controls = 0 /\ nsig = 0

-----------------------------------------------------------------------------
(* The ingress worker.                                                      *)

IngressCheck ==
  /\ ingress = "check"
  /\ ingress' = IF Running THEN "recv" ELSE "done"
  /\ UNCHANGED <<vals, recv_res, nrecv, notIngress, execsVars>>

\* mif.recv gives some values and a result; the values that are not EXECSETs
\* are skipped, a message from an undefined source is ignored with its result.
IngressRecv ==
  /\ ingress = "recv"
  /\ nrecv < MaxRecv
  /\ nrecv' = nrecv + 1
  /\ \E n \in 0 .. MaxValues :
       \E vs \in [1 .. n -> ExecSets], res \in {0, 1}, undefsrc \in BOOLEAN :
         IF undefsrc /\ n > 0
         THEN /\ ingress' = "check"
              /\ UNCHANGED <<vals, recv_res>>
         ELSE /\ ingress' = "push"
              /\ vals' = vs
              /\ recv_res' = res
  /\ UNCHANGED <<notIngress, execsVars>>

\* mif.recv fails with nothing received: the transport is closed ...
RecvFailed ==
  /\ ingress = "recv"
  /\ ingress' = "push"
  /\ vals' = <<>>
  /\ recv_res' = 1
  /\ UNCHANGED <<nrecv, notIngress, execsVars>>

IngressRecvEnd == RecvFailed

\* ... or its poll timed out and found that the daemon is to stop.
IngressRecvStopped == ~Running /\ RecvFailed

\* Also refda_ingress_push_move called by an external thread, until it stops.
IngressPush ==
  /\ \/ /\ ingress = "push" /\ vals # <<>>
        /\ execs' = Push(execs, Msg(Head(vals)))
        /\ vals' = Tail(vals)
        /\ ingress' = "post"
        /\ UNCHANGED nrecv
     \/ /\ ingress = "external" /\ nrecv < MaxRecv
        /\ main \in {"startup", "startup_post", "startup_wait", "enable_post",
                     "run_wait"}
        /\ \E v \in ExecSets : execs' = Push(execs, Msg(v))
        /\ nrecv' = nrecv + 1
        /\ ingress' = "external_post"
        /\ UNCHANGED vals
  /\ UNCHANGED <<recv_res, execs_sem, execs_enable, notIngress>>

IngressPost ==
  /\ ingress \in {"post", "end_post", "external_post"}
  /\ execs_sem' = execs_sem + 1
  /\ ingress' = IF ingress = "post" THEN "push"
                ELSE IF ingress = "end_post" THEN "done" ELSE "external"
  /\ UNCHANGED <<vals, recv_res, nrecv, execs, execs_enable, notIngress>>

IngressNext ==
  /\ ingress = "push" /\ vals = <<>>
  /\ IF recv_res = 0
     THEN ingress' = "check" /\ UNCHANGED execs
     ELSE ingress' = "end_post" /\ execs' = Push(execs, Undef)
  /\ UNCHANGED <<vals, recv_res, nrecv, execs_sem, execs_enable, notIngress>>

Ingress ==
  \/ IngressCheck \/ IngressRecv \/ IngressRecvEnd \/ IngressRecvStopped
  \/ IngressPush \/ IngressPost \/ IngressNext

-----------------------------------------------------------------------------
(* The exec worker: one pass of refda_exec_worker_iteration goes            *)
(* wait -> (due ->) events -> pop -> (add ->) collect -> run -> wait.       *)

\* sem_wait, or sem_timedwait when the timeline is not empty, gets a token ...
ExecWake ==
  /\ exec = "wait" /\ execs_sem > 0
  /\ execs_sem' = execs_sem - 1
  /\ exec' = IF TimelineEmpty THEN "pop" ELSE "events"
  /\ UNCHANGED <<execs, execs_enable, notExec, controls, mainVars, rptgsVars,
                 seqVars>>

\* ... or sem_timedwait gives up at the time of the first event.
ExecTimeout ==
  /\ exec = "wait" /\ execs_sem = 0 /\ ~TimelineEmpty
  /\ exec' = "due"
  /\ UNCHANGED <<notExec, controls, mainVars, execsVars, rptgsVars, seqVars>>

\* refda_reporting_ctrl: the token is posted even for a report that is lost.
PushReport ==
  /\ rptgs' = Push(rptgs, "report")
  /\ rptgs_sem' = rptgs_sem + 1

\* An EXEC event: the waiting item finishes and is reported, the rest of its
\* sequence is ready.
ExecEvent ==
  /\ exec \in {"due", "events"}
  /\ \E i \in 1 .. Len(timeline) :
       /\ exec_state' = Append(exec_state, NewEntry(timeline[i].src, "quick"))
       /\ timeline' = RemoveAt(timeline, i)
       /\ IF timeline[i].src = "mgr" THEN PushReport ELSE UNCHANGED rptgsVars
  /\ exec' = "events"
  /\ UNCHANGED <<targets, exec_end, ready, rule_event, notExec, controls,
                 mainVars, execsVars>>

\* A rule event: its action is expanded and the rule scheduled a period later,
\* which is past the nowtime of this pass.
ExecRuleEvent ==
  /\ exec \in {"due", "events"} /\ rule_event
  /\ exec_state' = Append(exec_state, NewEntry("rule", "quick"))
  /\ execs_sem' = execs_sem + 1
  /\ exec' = "pop"
  /\ UNCHANGED <<targets, exec_end, ready, timeline, rule_event, execs,
                 execs_enable, notExec, controls, mainVars, rptgsVars>>

ExecEventsOver ==
  /\ exec = "events"
  /\ exec' = "pop"
  /\ UNCHANGED <<notExec, controls, mainVars, execsVars, rptgsVars, seqVars>>

\* The gate is closed or the queue is empty: go on to the waiting sequences.
ExecPopNone ==
  /\ exec = "pop" /\ (~execs_enable \/ execs = <<>>)
  /\ exec' = "collect"
  /\ UNCHANGED <<notExec, controls, mainVars, execsVars, rptgsVars, seqVars>>

\* An EXECSET is taken from the queue ...
ExecPopExecset ==
  /\ exec = "pop" /\ execs_enable /\ execs # <<>> /\ ~Head(execs).end
  /\ execs' = Tail(execs)
  /\ targets' = Head(execs).targets
  /\ exec' = "add"
  /\ UNCHANGED <<execs_sem, execs_enable, exec_end, exec_state, ready,
                 timeline, rule_event, notExec, controls, mainVars, rptgsVars>>

\* Mutant: a target that does not expand is dropped without a report.
ExecAddTargetUnreported ==
  /\ exec = "add" /\ targets # <<>>
  /\ targets' = Tail(targets)
  /\ execs_sem' = execs_sem + 1
  /\ controls' = controls + Controls(Head(targets))
  /\ exec_state' = IF Head(targets) = "bad" THEN exec_state
                   ELSE Append(exec_state, NewEntry("mgr", Head(targets)))
  /\ UNCHANGED <<exec, exec_end, ready, timeline, rule_event, execs,
                 execs_enable, notExec, mainVars, rptgsVars>>

\* ... and every target of it becomes a sequence and a wake-up; one that does
\* not expand is reported as failed and its sequence dropped.
ExecAddTarget ==
  /\ exec = "add" /\ targets # <<>>
  /\ targets' = Tail(targets)
  /\ execs_sem' = execs_sem + 1
  /\ controls' = controls + Controls(Head(targets))
  /\ IF Head(targets) = "bad"
     THEN PushReport /\ UNCHANGED exec_state
     ELSE /\ exec_state' = Append(exec_state, NewEntry("mgr", Head(targets)))
          /\ UNCHANGED rptgsVars
  /\ UNCHANGED <<exec, exec_end, ready, timeline, rule_event, execs,
                 execs_enable, notExec, mainVars>>

ExecAddOver ==
  /\ exec = "add" /\ targets = <<>>
  /\ exec' = IF exec_end /\ TimelineEmpty THEN "end" ELSE "collect"
  /\ UNCHANGED <<notExec, controls, mainVars, execsVars, rptgsVars, seqVars>>

\* Mutant: the rule events stay in the timeline.
ExecPopEndKeepRules ==
  /\ exec = "pop" /\ execs_enable /\ execs # <<>> /\ Head(execs).end
  /\ execs' = Tail(execs)
  /\ exec_end' = TRUE
  /\ exec' = IF TimelineEmpty THEN "end" ELSE "collect"
  /\ UNCHANGED <<targets, execs_sem, execs_enable, exec_state, ready,
                 timeline, rule_event, notExec, controls, mainVars, rptgsVars>>

\* The sentinel: rule events are dropped, and with nothing left in the timeline
\* the worker stops at once, without looking at exec_state.
ExecPopEnd ==
  /\ exec = "pop" /\ execs_enable /\ execs # <<>> /\ Head(execs).end
  /\ execs' = Tail(execs)
  /\ exec_end' = TRUE
  /\ rule_event' = FALSE
  /\ exec' = IF timeline = <<>> THEN "end" ELSE "collect"
  /\ UNCHANGED <<targets, execs_sem, execs_enable, exec_state, ready,
                 timeline, notExec, controls, mainVars, rptgsVars>>

ExecEnd ==
  /\ exec = "end"
  /\ rptgs' = Push(rptgs, "undef")
  /\ rptgs_sem' = rptgs_sem + 1
  /\ exec' = "done"
  /\ UNCHANGED <<notExec, controls, mainVars, execsVars, seqVars>>

\* refda_exec_waiting: collect the sequences whose front is not waiting ...
ExecCollect ==
  /\ exec = "collect"
  /\ ready' = exec_state
  /\ exec_state' = <<>>
  /\ exec' = "run"
  /\ UNCHANGED <<targets, exec_end, timeline, rule_event, notExec, controls,
                 mainVars, execsVars, rptgsVars>>

\* ... and run each until it is empty or waits.
ExecRun ==
  /\ exec = "run" /\ ready # <<>>
  /\ ready' = Tail(ready)
  /\ IF Head(ready).front = "timed"
     THEN /\ timeline' = Append(timeline, Head(ready))
          /\ UNCHANGED <<status, rptgsVars>>
     ELSE /\ IF Head(ready).src = "mgr" THEN PushReport ELSE UNCHANGED rptgsVars
          /\ status' = IF Head(ready).src = "startup" THEN "finished"
                       ELSE status
          /\ UNCHANGED timeline
  /\ UNCHANGED <<targets, exec, exec_end, exec_state, rule_event, main,
                 startup, retval, notExec, controls, execsVars>>

ExecRunOver ==
  /\ exec = "run" /\ ready = <<>>
  /\ exec' = "wait"
  /\ UNCHANGED <<notExec, controls, mainVars, execsVars, rptgsVars, seqVars>>

Exec ==
  \/ ExecWake \/ ExecTimeout \/ ExecEvent \/ ExecRuleEvent \/ ExecEventsOver
  \/ ExecPopNone \/ ExecPopExecset \/ ExecAddTarget \/ ExecAddOver
  \/ ExecPopEnd \/ ExecEnd
  \/ ExecCollect \/ ExecRun \/ ExecRunOver

-----------------------------------------------------------------------------
(* The egress worker.                                                       *)

EgressWake ==
  /\ egress = "wait" /\ rptgs_sem > 0
  /\ rptgs_sem' = rptgs_sem - 1
  /\ egress' = "pop"
  /\ UNCHANGED <<num_rptset_sent, rptgs, stop, notEgress>>

EgressPopNone ==
  /\ egress = "pop" /\ rptgs = <<>>
  /\ egress' = "wait"
  /\ UNCHANGED <<num_rptset_sent, stop, notEgress, rptgsVars>>

\* mif.send is called and the report counted as sent, whatever send returns.
EgressPopReport ==
  /\ egress = "pop" /\ rptgs # <<>> /\ Head(rptgs) = "report"
  /\ rptgs' = Tail(rptgs)
  /\ num_rptset_sent' = num_rptset_sent + 1
  /\ egress' = "wait"
  /\ UNCHANGED <<rptgs_sem, stop, notEgress>>

EgressPopEnd ==
  /\ egress = "pop" /\ rptgs # <<>> /\ Head(rptgs) = "undef"
  /\ rptgs' = Tail(rptgs)
  /\ stop' = stop + 1
  /\ egress' = "done"
  /\ UNCHANGED <<num_rptset_sent, rptgs_sem, notEgress>>

Egress == EgressWake \/ EgressPopNone \/ EgressPopReport \/ EgressPopEnd

-----------------------------------------------------------------------------
(* The main thread, from the startup targets on.                            *)

\* refda_agent_startup_exec: add the target under the exec_state mutex; one
\* that does not expand has its status posted as failed there and then.
MainStartup ==
  /\ main = "startup" /\ startup # <<>>
  /\ IF Head(startup) = "bad"
     THEN status' = "failed" /\ UNCHANGED exec_state
     ELSE /\ status' = "pending"
          /\ exec_state' = Append(exec_state,
               NewEntry("startup", Head(startup)))
  /\ startup' = Tail(startup)
  /\ main' = "startup_post"
  /\ UNCHANGED <<targets, retval, exec, exec_end, ready, timeline,
                 rule_event, stop, notMain, execsVars>>

MainStartupPost ==
  /\ main = "startup_post"
  /\ execs_sem' = execs_sem + 1
  /\ main' = "startup_wait"
  /\ UNCHANGED <<startup, status, retval, execs, execs_enable, stop,
                 notMain, execVars>>

\* refda_exec_status_wait returned, on a post or on a signal.
StartupReturns ==
  /\ main = "startup_wait"
  /\ retval' = IF status = "failed" THEN 3 ELSE retval
  /\ status' = "none"
  /\ main' = "startup"

MainStartupDone ==
  /\ status \in {"finished", "failed"}
  /\ StartupReturns
  /\ UNCHANGED <<startup, stop, notMain, execVars, execsVars>>

\* Mutant: the gate is opened without a post.
MainEnableNoPost ==
  /\ main = "startup" /\ startup = <<>>
  /\ execs_enable' = TRUE
  /\ main' = IF retval = 0 THEN "run_wait" ELSE "exit"
  /\ UNCHANGED <<startup, status, retval, execs, execs_sem, stop,
                 notMain, execVars>>

\* refda_agent_enable_exec.
MainEnable ==
  /\ main = "startup" /\ startup = <<>>
  /\ execs_enable' = TRUE
  /\ main' = "enable_post"
  /\ UNCHANGED <<startup, status, retval, execs, execs_sem, stop,
                 notMain, execVars>>

\* After a startup failure main goes straight to refda_agent_deinit.
MainEnablePost ==
  /\ main = "enable_post"
  /\ execs_sem' = execs_sem + 1
  /\ main' = IF retval = 0 THEN "run_wait" ELSE "exit"
  /\ UNCHANGED <<startup, status, retval, execs, execs_enable, stop,
                 notMain, execVars>>

\* cace_daemon_run_wait takes the token: the daemon is "running" again.
MainRunWait ==
  /\ main = "run_wait" /\ stop > 0
  /\ stop' = stop - 1
  /\ main' = "stop"
  /\ UNCHANGED <<startup, status, retval, notMain, execVars, execsVars>>

\* Mutant: no sentinel is pushed when there is no mif.recv.
MainStopNoSentinel ==
  /\ main = "stop" /\ ingress # "external_post"
  /\ execs_enable' = TRUE
  /\ main' = "stop_run"
  /\ UNCHANGED <<startup, status, retval, execs, execs_sem, stop,
                 notMain, execVars>>

\* refda_agent_stop: the sentinel is main's to push when there is no mif.recv.
MainStop ==
  /\ main = "stop" /\ ingress # "external_post"
  /\ execs_enable' = TRUE
  /\ IF HasRecv
     THEN /\ main' = "stop_run"
          /\ UNCHANGED execs
     ELSE /\ main' = "stop_post"
          /\ execs' = Push(execs, Undef)
  /\ UNCHANGED <<startup, status, retval, execs_sem, stop, notMain,
                 execVars>>

MainStopPost ==
  /\ main = "stop_post"
  /\ execs_sem' = execs_sem + 1
  /\ main' = "stop_run"
  /\ UNCHANGED <<startup, status, retval, execs, execs_enable, stop,
                 notMain, execVars>>

MainStopRun ==
  /\ main = "stop_run"
  /\ stop' = stop + 1
  /\ main' = "join"
  /\ UNCHANGED <<startup, status, retval, notMain, execVars, execsVars>>

\* cace_threadset_join, then refda_agent_deinit.
MainJoin ==
  /\ main = "join"
  /\ ingress \in {"done", "external"} /\ exec = "done" /\ egress = "done"
  /\ main' = "exit"
  /\ UNCHANGED <<startup, status, retval, stop, notMain, execVars,
                 execsVars>>

Main ==
  \/ MainStartup \/ MainStartupPost \/ MainStartupDone
  \/ MainEnable \/ MainEnablePost \/ MainRunWait
  \/ MainStop \/ MainStopPost \/ MainStopRun \/ MainJoin

-----------------------------------------------------------------------------
(* SIGINT or SIGTERM, handled in any of the threads.  The handlers are      *)
(* installed without SA_RESTART, so that a blocked call may return EINTR.   *)

Handler ==
  /\ nsig < MaxSignals
  /\ nsig' = nsig + 1
  /\ stop' = stop + 1

SignalMain ==
  /\ Handler
  /\ main # "exit"
  /\ \/ UNCHANGED mainVars
     \/ StartupReturns /\ UNCHANGED startup
     \/ /\ main = "run_wait" /\ main' = "stop"
        /\ UNCHANGED <<startup, status, retval>>
  /\ UNCHANGED <<controls, ingressVars, execVars, egressVars, execsVars,
                 rptgsVars>>

SignalIngress ==
  /\ Handler
  /\ ingress = "recv" /\ ingress' = "push" /\ vals' = <<>> /\ recv_res' = 1
  /\ UNCHANGED <<nrecv, controls, mainVars, execVars, egressVars,
                 execsVars, rptgsVars>>

SignalExec ==
  /\ Handler
  /\ exec = "wait" /\ exec' = (IF TimelineEmpty THEN "pop" ELSE "events")
  /\ UNCHANGED <<controls, mainVars, ingressVars, egressVars, execsVars,
                 rptgsVars, seqVars>>

SignalEgress ==
  /\ Handler
  /\ egress = "wait" /\ egress' = "pop"
  /\ UNCHANGED <<num_rptset_sent, controls, mainVars, ingressVars,
                 execVars, execsVars, rptgsVars>>

Signal == SignalMain \/ SignalIngress \/ SignalExec \/ SignalEgress

Next == Ingress \/ Exec \/ Egress \/ Main \/ Signal

\* Every thread that can go on does, and time passes, so that a timeline event
\* is due in the end.  Nothing obliges a peer to send, a transport to close or
\* a user to signal.
Fairness ==
  /\ WF_vars(IngressCheck \/ IngressRecvStopped \/ IngressPost \/ IngressNext
             \/ (ingress = "push" /\ IngressPush))
  /\ WF_vars(Exec) /\ SF_vars(ExecEvent)
  /\ WF_vars(Egress)
  /\ WF_vars(Main)

Spec == Init /\ [][Next]_vars
FairSpec == Spec /\ Fairness

-----------------------------------------------------------------------------
(* Properties.                                                              *)

\* The threads are at known places and the shared state keeps its types.
TypeOK ==
  /\ main \in {"startup", "startup_post", "startup_wait", "enable_post",
               "run_wait", "stop", "stop_post", "stop_run", "join", "exit"}
  /\ startup \in Seq(Kinds)
  /\ status \in {"none", "pending", "finished", "failed"}
  /\ retval \in {0, 3}
  /\ ingress \in {"check", "recv", "push", "post", "end_post", "external",
                  "external_post", "done"}
  /\ vals \in Seq(ExecSets) /\ recv_res \in {0, 1} /\ nrecv \in Nat
  /\ exec \in {"wait", "due", "events", "pop", "add", "end",
              "collect", "run", "done"}
  /\ exec_end \in BOOLEAN /\ rule_event \in BOOLEAN
  /\ exec_state \in Seq(Entry) /\ ready \in Seq(Entry)
  /\ timeline \in Seq(Entry) /\ targets \in Seq(Kinds)
  /\ egress \in {"wait", "pop", "done"} /\ num_rptset_sent \in Nat
  /\ execs \in Seq(Message) /\ execs_sem \in Nat /\ execs_enable \in BOOLEAN
  /\ rptgs \in Seq({"report", "undef"}) /\ rptgs_sem \in Nat
  /\ stop \in Nat /\ controls \in Nat /\ nsig \in Nat

\* The exec worker never sleeps on work it may do: when it is about to wait on
\* execs_sem and there is a queued EXECSET behind an open gate, or a sequence
\* added at startup, a token is there or its post is the next step of the
\* thread that made the work available.
NoLostWakeup ==
  exec = "wait" =>
    /\ execs_enable /\ execs # <<>> =>
         \/ execs_sem > 0
         \/ ingress \in {"post", "end_post", "external_post"}
         \/ main \in {"enable_post", "stop_post"}
    /\ exec_state # <<>> => execs_sem > 0 \/ main = "startup_post"

\* When refda_agent_stop has joined the workers no EXECSET is left in the queue
\* and every CTRL of every target has had its execution report sent: the
\* sentinel overtakes neither a queued EXECSET, nor a sequence, nor a report.
EveryTargetReported ==
  main = "exit" /\ retval = 0 => execs = <<>> /\ num_rptset_sent = controls

\* A transport that ends brings the whole agent down: the sentinel passes all
\* three workers and main joins them.
EndOfInputStops == (ingress = "push" /\ recv_res = 1) ~> main = "exit"

\* refda_agent_stop returns.
StopJoins == main = "stop" ~> main = "exit"

\* Without mif.recv, refda_agent_stop returns whenever it is called: its own
\* sentinel reaches the exec worker, and the one of that the egress worker.
ExternalStopJoins == main = "stop" /\ ~HasRecv ~> main = "exit"
=============================================================================
