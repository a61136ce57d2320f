------------------------------ MODULE Manager ------------------------------
(***************************************************************************)
(* The manager (refdm): its registry of agents (mgr.c, agents.c), the      *)
(* ingress worker that records reports (ingress.c), the threads of the     *)
(* HTTP server that run the REST handlers (nm_rest.c) and main().  A build *)
(* without a database keeps the reports itself; what one with a database   *)
(* does instead is in Database.                                            *)
(*                                                                         *)
(* What is done under agent_mutex is one step.  log_mutex is state of each *)
(* agent, as one path returns with it locked.  An agent object is known by *)
(* its place in agent_list; reports are counted, and the content of        *)
(* messages and responses is left out.                                     *)
(***************************************************************************)
EXTENDS Integers, Sequences, Functions

CONSTANTS
  Eid, Peer,   \* agent EIDs, and those that messages and requests have
  Rest,        \* threads of the HTTP server
  LogCfg,      \* the logging configurations, agent_log_cfg, mains may give
  Builds,      \* the values of POSTGRESQL_FOUND
  MaxRecv,     \* bound: messages received
  MaxValues,   \* bound: values in a message
  MaxRequests, \* bound: HTTP requests
  MaxSignals   \* bound: SIGINT and SIGTERM received

ASSUME PeerAssumption == Peer \subseteq Eid
ASSUME LogAssumption == LogCfg \subseteq [enabled : BOOLEAN, rx_rpt : BOOLEAN, limit : Nat]
ASSUME BuildsAssumption == Builds \subseteq BOOLEAN
ASSUME BoundsAssumption == MaxRecv \in Nat /\ MaxValues \in Nat /\ MaxRequests \in Nat /\ MaxSignals \in Nat

VARIABLES
  agent_list, agent_dict,   \* EIDs in order; the place of each EID
  agents,                   \* by place: the fields of refdm_agent_t
  created,                  \* by EID: how often is_new was given as true
  ingress, got, cur, vals,  \* ingress worker: where it is, recv's result and EID,
  recv_res, nrecv,          \* the agent, RPTSETs left
  rest, obj, nreq,          \* REST threads: where they are, and the agent each uses
  main, stop, nsig,         \* main(), the semaphore it waits for, signals
  cfg, POSTGRESQL_FOUND     \* agent_log_cfg, and whether there is a database

registry == <<agent_list, agent_dict, created>>
ingressVars == <<ingress, got, cur, vals, recv_res, nrecv>>
restVars == <<rest, obj, nreq>>
mainVars == <<main, stop, nsig>>
build == <<cfg, POSTGRESQL_FOUND>>
mgrVars == <<registry, agents, ingressVars, restVars, mainVars, build>>

\* cace_daemon_run_get
running == stop = 0

NewAgent == [rptsets |-> 0, mgr_time |-> 0, log_mutex |-> FALSE,
             log_fd |-> FALSE, log_fd_cnt |-> 0, log_file_num |-> 0]

Init ==
  /\ agent_list = <<>> /\ agent_dict = [e \in {} |-> 0] /\ agents = <<>>
  /\ created = [e \in Eid |-> 0]
  /\ ingress = "check" /\ got = "" /\ cur = 0 /\ vals = 0 /\ recv_res = 0 /\ nrecv = 0
  /\ rest = [r \in Rest |-> "idle"] /\ obj = [r \in Rest |-> 0] /\ nreq = 0
  /\ main = "wait" /\ stop = 0 /\ nsig = 0
  /\ cfg \in LogCfg /\ POSTGRESQL_FOUND \in Builds

-----------------------------------------------------------------------------
(* The registry.                                                            *)

\* refdm_mgr_agent_get_eid: the place of an agent, or 0.
GetEid(e) == IF e \in DOMAIN agent_dict THEN agent_dict[e] ELSE 0

\* refdm_mgr_agent_get_index
GetIndex(i) == IF i <= Len(agent_list) THEN i ELSE 0

\* Mutant: the caller's own look-up is relied on.
AgentAddUnchecked(e) ==
  /\ agent_list' = Append(agent_list, e)
  /\ agents' = Append(agents, NewAgent)
  /\ agent_dict' = [x \in DOMAIN agent_dict \cup {e} |->
                      IF x = e THEN Len(agent_list) + 1 ELSE agent_dict[x]]
  /\ created' = [created EXCEPT ![e] = @ + 1]

\* refdm_mgr_agent_add, with agent_mutex held.
AgentAdd(e) ==
  IF e \in DOMAIN agent_dict THEN UNCHANGED <<registry, agents>>
  ELSE /\ agent_list' = Append(agent_list, e)
       /\ agents' = Append(agents, NewAgent)
       /\ agent_dict' = [x \in DOMAIN agent_dict \cup {e} |->
                           IF x = e THEN Len(agent_list) + 1 ELSE agent_dict[x]]
       /\ created' = [created EXCEPT ![e] = @ + 1]

\* refdm_agent_rotate_log: the return that keeps the open file keeps the mutex
\* locked as well.  Opening the next file may fail.
RotateLog(i, force) ==
  /\ ~agents[i].log_mutex
  /\ LET a == agents[i]
         rotate == force \/ a.log_fd_cnt < 0 \/ (cfg.limit > 0 /\ a.log_fd_cnt > cfg.limit)
     IN  \E next \in IF ~cfg.enabled THEN {[a EXCEPT !.log_fd = FALSE]}
                    ELSE IF a.log_fd /\ ~rotate THEN {[a EXCEPT !.log_mutex = TRUE]}
                    ELSE {[a EXCEPT !.log_fd = FALSE],
                          [a EXCEPT !.log_fd = TRUE, !.log_fd_cnt = 0, !.log_file_num = @ + 1]} :
           agents' = [agents EXCEPT ![i] = next]

-----------------------------------------------------------------------------
(* The ingress worker.                                                      *)

IngressCheck ==
  /\ ingress = "check"
  /\ ingress' = IF running THEN "recv" ELSE "done"
  /\ UNCHANGED <<got, cur, vals, recv_res, nrecv, registry, agents, restVars, mainVars, build>>

\* mif.recv gives values with a result, from a source with or without a text EID.
IngressRecv ==
  /\ ingress = "recv" /\ nrecv < MaxRecv
  /\ nrecv' = nrecv + 1
  /\ \E e \in Peer \cup {""}, n \in 0 .. MaxValues, res \in {0, 1} :
       /\ got' = e /\ vals' = n /\ recv_res' = res
       /\ ingress' = IF n = 0 \/ e = "" THEN "next" ELSE "lookup"
  /\ UNCHANGED <<cur, registry, agents, restVars, mainVars, build>>

\* mif.recv fails when it finds the daemon stopped.
IngressRecvStopped ==
  /\ ingress = "recv" /\ ~running
  /\ vals' = 0 /\ recv_res' = 1
  /\ ingress' = "next"
  /\ UNCHANGED <<got, cur, nrecv, registry, agents, restVars, mainVars, build>>

IngressLookup ==
  /\ ingress = "lookup"
  /\ cur' = GetEid(got)
  /\ ingress' = IF GetEid(got) = 0 THEN "add" ELSE "push"
  /\ UNCHANGED <<got, vals, recv_res, nrecv, registry, agents, restVars, mainVars, build>>

\* Another thread may have added it since.
IngressAdd ==
  /\ ingress = "add"
  /\ AgentAdd(got)
  /\ cur' = agent_dict'[got]
  /\ ingress' = IF created' # created THEN "new" ELSE "push"
  /\ UNCHANGED <<got, vals, recv_res, nrecv, restVars, mainVars, build>>

\* A value that is not an RPTSET is skipped.
IngressPush ==
  /\ ingress = "push"
  /\ IF vals = 0 THEN ingress' = "next" /\ UNCHANGED vals
     ELSE vals' = vals - 1 /\ ingress' \in {"push", "store"}
  /\ UNCHANGED <<got, cur, recv_res, nrecv, registry, agents, restVars, mainVars, build>>

\* handle_recv: the report is stored, its time set, it is logged, the log rotated.
IngressStore ==
  /\ ingress = "store" /\ ~POSTGRESQL_FOUND
  /\ agents' = [agents EXCEPT ![cur].rptsets = @ + 1]
  /\ ingress' = "time"
  /\ UNCHANGED <<got, cur, vals, recv_res, nrecv, registry, restVars, mainVars, build>>

IngressTime ==
  /\ ingress = "time"
  /\ agents' = [agents EXCEPT ![cur].mgr_time = 1]
  /\ ingress' = "log"
  /\ UNCHANGED <<got, cur, vals, recv_res, nrecv, registry, restVars, mainVars, build>>

IngressLog ==
  /\ ingress = "log" /\ ~agents[cur].log_mutex
  /\ agents' = IF agents[cur].log_fd /\ cfg.rx_rpt
               THEN [agents EXCEPT ![cur].log_fd_cnt = @ + 1] ELSE agents
  /\ ingress' = "rotate"
  /\ UNCHANGED <<got, cur, vals, recv_res, nrecv, registry, restVars, mainVars, build>>

IngressRotate ==
  /\ ingress \in {"new", "rotate"}
  /\ RotateLog(cur, ingress = "new")
  /\ ingress' = IF ingress = "new" /\ POSTGRESQL_FOUND THEN "insert_agent" ELSE "push"
  /\ UNCHANGED <<got, cur, vals, recv_res, nrecv, registry, restVars, mainVars, build>>

IngressNext ==
  /\ ingress = "next"
  /\ ingress' = IF recv_res = 0 THEN "check" ELSE "done"
  /\ got' = "" /\ cur' = 0 /\ vals' = 0 /\ recv_res' = 0
  /\ UNCHANGED <<nrecv, registry, agents, restVars, mainVars, build>>

IngressStep ==
  \/ IngressCheck \/ IngressRecvStopped \/ IngressLookup \/ IngressAdd \/ IngressPush
  \/ IngressStore \/ IngressTime \/ IngressLog \/ IngressRotate \/ IngressNext

-----------------------------------------------------------------------------
(* The REST handlers, each in a thread of the HTTP server.                  *)

Request == main \in {"wait", "stop", "rest"} /\ nreq < MaxRequests /\ nreq' = nreq + 1

\* POST /agents: 201 for a new agent, 303 for a known one, 422 for no EID.
RestAdd(r) ==
  /\ rest[r] = "idle" /\ Request
  /\ \E e \in Peer :
       /\ AgentAdd(e)
       /\ IF created' # created
          THEN /\ rest' = [rest EXCEPT ![r] = "new"]
               /\ obj' = [obj EXCEPT ![r] = agent_dict'[e]]
          ELSE UNCHANGED <<rest, obj>>
  /\ UNCHANGED <<ingressVars, mainVars, build>>

RestNew(r) ==
  /\ rest[r] = "new"
  /\ RotateLog(obj[r], TRUE)
  /\ rest' = [rest EXCEPT ![r] = IF POSTGRESQL_FOUND THEN "insert_agent" ELSE "idle"]
  /\ obj' = IF POSTGRESQL_FOUND THEN obj ELSE [obj EXCEPT ![r] = 0]
  /\ UNCHANGED <<nreq, registry, ingressVars, mainVars, build>>

\* A request on an agent, by EID or index: 404 when it is unknown.
RestLookup(r) ==
  /\ rest[r] = "idle" /\ Request
  /\ \E op \in {"reports", "clear", "send"} :
       \E i \in {GetEid(e) : e \in Eid} \cup {GetIndex(k) : k \in 1 .. Len(agent_list) + 1} :
         /\ rest' = [rest EXCEPT ![r] = IF i = 0 THEN "idle" ELSE op]
         /\ obj' = [obj EXCEPT ![r] = i]
  /\ UNCHANGED <<registry, agents, ingressVars, mainVars, build>>

\* clear_reports, in no critical section: the list, then the time.
RestClear(r) ==
  /\ rest[r] = "clear" /\ ~POSTGRESQL_FOUND
  /\ agents' = [agents EXCEPT ![obj[r]].rptsets = 0]
  /\ rest' = [rest EXCEPT ![r] = "cleared"]
  /\ UNCHANGED <<obj, nreq, registry, ingressVars, mainVars, build>>

RestCleared(r) ==
  /\ rest[r] = "cleared"
  /\ agents' = [agents EXCEPT ![obj[r]].mgr_time = 0]
  /\ rest' = [rest EXCEPT ![r] = "idle"]
  /\ obj' = [obj EXCEPT ![r] = 0]
  /\ UNCHANGED <<nreq, registry, ingressVars, mainVars, build>>

\* agentShowReports: the reports are encoded, in no critical section.
RestReports(r) ==
  /\ rest[r] = "reports" /\ ~POSTGRESQL_FOUND
  /\ rest' = [rest EXCEPT ![r] = "idle"]
  /\ obj' = [obj EXCEPT ![r] = 0]
  /\ UNCHANGED <<nreq, registry, agents, ingressVars, mainVars, build>>

\* The body is decoded, from text, CBOR or hexadecimal: 400 or 415 unless all of it
\* is EXECSETs, and nothing is sent then.
RestParse(r) ==
  /\ rest[r] = "send"
  /\ \E ok \in BOOLEAN :
       /\ rest' = [rest EXCEPT ![r] = IF ok THEN "items" ELSE "idle"]
       /\ obj' = IF ok THEN obj ELSE [obj EXCEPT ![r] = 0]
  /\ UNCHANGED <<nreq, registry, agents, ingressVars, mainVars, build>>

\* agentSendItems: one message with all of them, 204 or 504.
RestSend(r) ==
  /\ rest[r] = "items"
  /\ \E sent \in BOOLEAN :
       /\ rest' = [rest EXCEPT ![r] = IF sent /\ POSTGRESQL_FOUND THEN "insert_execset" ELSE "idle"]
       /\ obj' = IF sent /\ POSTGRESQL_FOUND THEN obj ELSE [obj EXCEPT ![r] = 0]
  /\ UNCHANGED <<nreq, registry, agents, ingressVars, mainVars, build>>

RestStep(r) ==
  \/ RestNew(r) \/ RestClear(r) \/ RestCleared(r) \/ RestReports(r) \/ RestParse(r) \/ RestSend(r)

-----------------------------------------------------------------------------
(* main(): a signal stops the daemon; refdm_mgr_stop waits for the HTTP     *)
(* server and for the ingress worker.                                       *)

\* The handler's cace_daemon_run_stop.  main() leaves cace_daemon_run_wait with the
\* token, or without it when the handler ran in its own thread.
MainSignal ==
  /\ nsig < MaxSignals
  /\ nsig' = nsig + 1 /\ stop' = stop + 1
  /\ main' \in {main} \cup IF main = "wait" THEN {"stop"} ELSE {}
  /\ UNCHANGED <<registry, agents, ingressVars, restVars, build>>

MainWait ==
  /\ main = "wait" /\ stop > 0
  /\ main' = "stop" /\ stop' = stop - 1
  /\ UNCHANGED <<nsig, registry, agents, ingressVars, restVars, build>>

\* Mutant: the token that woke main() is taken to stop the workers as well.
MainStopOnce ==
  /\ main = "stop"
  /\ main' = "rest"
  /\ UNCHANGED <<stop, nsig, registry, agents, ingressVars, restVars, build>>

\* refdm_mgr_stop: the workers are notified again,
MainStop ==
  /\ main = "stop"
  /\ main' = "rest" /\ stop' = stop + 1
  /\ UNCHANGED <<nsig, registry, agents, ingressVars, restVars, build>>

\* mg_stop returns when no handler runs,
MainRestStop ==
  /\ main = "rest" /\ \A r \in Rest : rest[r] = "idle"
  /\ main' = "join"
  /\ UNCHANGED <<stop, nsig, registry, agents, ingressVars, restVars, build>>

\* and the ingress worker is joined.
MainJoin ==
  /\ main = "join" /\ ingress = "done"
  /\ main' = "exit"
  /\ UNCHANGED <<stop, nsig, registry, agents, ingressVars, restVars, build>>

Main == MainWait \/ MainStop \/ MainRestStop \/ MainJoin

Next ==
  \/ IngressRecv \/ IngressStep
  \/ \E r \in Rest : RestAdd(r) \/ RestLookup(r) \/ RestStep(r)
  \/ MainSignal \/ Main

-----------------------------------------------------------------------------
(* Properties.                                                              *)

TypeOK ==
  /\ agent_list \in Seq(Eid)
  /\ DOMAIN agent_dict \subseteq Eid /\ agent_dict \in [DOMAIN agent_dict -> Nat]
  /\ agents \in Seq([rptsets : Nat, mgr_time : {0, 1}, log_mutex : BOOLEAN, log_fd : BOOLEAN,
                     log_fd_cnt : Nat, log_file_num : Nat])
  /\ Len(agents) = Len(agent_list)
  /\ created \in [Eid -> Nat]
  /\ ingress \in {"check", "recv", "lookup", "add", "new", "insert_agent", "push", "store", "time",
                  "log", "rotate", "next", "done", "rptlist", "rptitem"}
  /\ got \in Eid \cup {""} /\ cur \in 0 .. Len(agents)
  /\ vals \in Nat /\ recv_res \in {0, 1} /\ nrecv \in Nat
  /\ rest \in [Rest -> {"idle", "new", "reports", "clear", "cleared", "send", "items",
                     "insert_agent", "insert_execset", "list", "latest", "delete"}]
  /\ obj \in [Rest -> 0 .. Len(agents)] /\ nreq \in Nat
  /\ main \in {"wait", "stop", "rest", "join", "exit"} /\ stop \in Nat /\ nsig \in Nat
  /\ cfg \in LogCfg /\ POSTGRESQL_FOUND \in BOOLEAN

\* However the ingress worker's look-up and insertion and the REST handlers
\* interleave, an EID is registered once: agent_list and agent_dict agree, and
\* is_new was given as true to exactly one caller of refdm_mgr_agent_add.
RegisteredOnce ==
  /\ \A e \in Eid : created[e] = IF e \in DOMAIN agent_dict THEN 1 ELSE 0
  /\ \A i \in 1 .. Len(agent_list) :
       agent_list[i] \in DOMAIN agent_dict /\ agent_dict[agent_list[i]] = i
  /\ \A e \in DOMAIN agent_dict :
       agent_dict[e] \in 1 .. Len(agent_list) /\ agent_list[agent_dict[e]] = e

\* Reports go to the agent that sent them: the ingress worker never stores under
\* another agent, nor before it has one, whoever registered it.
StoredWithSender ==
  ingress \in {"new", "insert_agent", "push", "store", "time", "log", "rotate", "rptlist", "rptitem"} =>
    cur \in 1 .. Len(agent_list) /\ agent_list[cur] = got
=============================================================================
