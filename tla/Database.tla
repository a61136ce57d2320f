------------------------------ MODULE Database ------------------------------
(***************************************************************************)
(* The manager with a database (refdm/nm_sql.c): the ingress worker and    *)
(* the REST handlers insert agents, reports and EXECSETs over one          *)
(* connection, DB_RPT_CON, and the REST handlers query over another,       *)
(* DB_REST_CON; the third, DB_CTRL_CON, is not used.  The process may be   *)
(* killed at any time, and started again; the tables stay.                 *)
(*                                                                         *)
(* A row is known by its place in its table.  A row of ari_rptset has, next *)
(* to its agent, its rows of ari_rptlist and for each of these the indexes  *)
(* of its rows of ari_rpt_item: a row is deleted with all that refer to it. *)
(* Who sent a set (sender), its reports, by their numbers of items, and the *)
(* report that a row of ari_rptlist is for (rpt) are not in the tables.     *)
(* The statements of a routine of the database are one transaction, and    *)
(* each routine is called in one of its own.  DB_LOG_INFO and execution_set *)
(* are written only, and left out.                                          *)
(***************************************************************************)
EXTENDS Manager, FiniteSets

CONSTANTS
  Lower,      \* the function that gives an EID in lower case
  RptSets,    \* sets of reports that are received, by the numbers of items of the reports
  MaxFaults,  \* bound: connections lost or not made, and times that the manager is killed
  MaxEvents   \* bound: messages, requests and faults together

ASSUME LowerAssumption == Lower \in [Eid -> Eid] /\ \A e \in Eid : Lower[Lower[e]] = Lower[e]
ASSUME RptSetsAssumption == RptSets \subseteq Seq(Nat) /\ RptSets # {}

VARIABLES
  registered_agents, ari_rptset, \* tables
  conn,             \* the state of each connection
  rpt_lock,         \* whether refdm_db_insert_rptset has the lock of DB_RPT_CON
  ins,              \* where it is: the row of its set, of the list, the report and the item
  row,              \* REST threads: the row of registered_agents that each has found
  nfault

tables == <<registered_agents, ari_rptset>>
dbpool == <<conn, rpt_lock, nfault>>
sqlVars == <<tables, dbpool, ins, row>>
vars == <<mgrVars, sqlVars>>

Connection == {"DB_RPT_CON", "DB_REST_CON"}
NoInsert == [set |-> 0, list |-> 0, rpt |-> 0, item |-> 0]

\* refdm_db_mgt_init: each connection is tried once.
Connected == [Connection -> {"ok", "null"}]
Missing(c) == Cardinality({k \in Connection : c[k] = "null"})

DbInit ==
  /\ Init
  /\ registered_agents = <<>> /\ ari_rptset = <<>>
  /\ conn \in IF POSTGRESQL_FOUND THEN Connected ELSE [Connection -> {"null"}]
  /\ nfault = IF POSTGRESQL_FOUND THEN Missing(conn) ELSE 0
  /\ nfault <= MaxFaults
  /\ rpt_lock = FALSE /\ ins = NoInsert /\ row = [r \in Rest |-> 0]

-----------------------------------------------------------------------------
(* Statements.  One on a connection that is lost, or was never made, fails. *)

\* A statement on connection c in state s is executed (done), and its result is seen (told)
\* unless the connection is lost meanwhile.  That it was lost shows when a statement fails.
Executed(c, s, done, told) ==
  /\ done = (s = "ok") /\ (told => done)
  /\ conn' = [conn EXCEPT ![c] = IF told \/ s = "null" THEN s ELSE "bad"]
  /\ nfault' = IF done /\ ~told THEN nfault + 1 ELSE nfault
  /\ nfault' <= MaxFaults

Lose(c) ==
  /\ conn[c] = "ok" /\ nfault < MaxFaults
  /\ nfault' = nfault + 1 /\ conn' = [conn EXCEPT ![c] = "lost"]
  /\ UNCHANGED <<mgrVars, tables, rpt_lock, ins, row>>

\* refdm_db_mgt_query_fetch: refdm_db_mgt_connected connects again where the connection
\* is known to be lost; if no try succeeds there is none, and none is tried for again.
Fetched(done, told) ==
  LET c == "DB_REST_CON"
  IN  \E s \in IF conn[c] = "bad" THEN {"ok", "null"} ELSE {conn[c]} : Executed(c, s, done, told)

\* SP__insert_agent
SP__insert_agent(e) ==
  IF Lower[e] \in Range(registered_agents) THEN registered_agents ELSE Append(registered_agents, Lower[e])

\* Mutant: the row is taken to be the place in agent_list.
agent_idx_of_list(e) == GetEid(e)

\* refdm_db_fetch_agent_idx: the EID is compared as it is given.  It is escaped with
\* DB_RPT_CON, without which it is the empty text.
refdm_db_fetch_agent_idx(e) ==
  IF conn["DB_RPT_CON"] # "null" /\ e \in Range(registered_agents)
  THEN CHOOSE i \in DOMAIN registered_agents : registered_agents[i] = e ELSE 0

-----------------------------------------------------------------------------
(* Insertion, with the lock of DB_RPT_CON held.                             *)

refdm_db_insert_agent(e) ==
  /\ ~rpt_lock
  /\ \E done, told \in BOOLEAN :
       /\ Executed("DB_RPT_CON", conn["DB_RPT_CON"], done, told)
       /\ registered_agents' = IF done THEN SP__insert_agent(e) ELSE registered_agents
  /\ UNCHANGED <<ari_rptset, rpt_lock, ins, row>>

IngressInsertAgent ==
  /\ ingress = "insert_agent"
  /\ refdm_db_insert_agent(got)
  /\ ingress' = "push"
  /\ UNCHANGED <<got, cur, vals, recv_res, nrecv, registry, agents, restVars, mainVars, build>>

NewSet(reports) ==
  [agent |-> CHOOSE i \in DOMAIN registered_agents' : registered_agents'[i] = Lower[got],
   sender |-> got, reports |-> reports, lists |-> <<>>]
Deleted == [agent |-> 0, sender |-> "", reports |-> <<>>, lists |-> <<>>]

\* refdm_db_insert_rptset: the set with its agent (SP__insert_rptset),
InsertRptset ==
  /\ ingress = "store" /\ POSTGRESQL_FOUND /\ ~rpt_lock
  /\ \E reports \in RptSets, done, told \in BOOLEAN :
       /\ Executed("DB_RPT_CON", conn["DB_RPT_CON"], done, told)
       /\ IF done THEN /\ registered_agents' = SP__insert_agent(got)
                       /\ ari_rptset' = Append(ari_rptset, NewSet(reports))
          ELSE UNCHANGED tables
       /\ IF told THEN /\ ins' = [NoInsert EXCEPT !.set = Len(ari_rptset'), !.rpt = 1]
                       /\ ingress' = "rptlist"
          ELSE ins' = NoInsert /\ ingress' = "log"
       /\ rpt_lock' = told
  /\ UNCHANGED <<got, cur, vals, recv_res, nrecv, registry, agents, restVars, mainVars, build, row>>

Inserting == ari_rptset[ins.set]
AllLists == Inserting # Deleted /\ ins.rpt > Len(Inserting.reports)

\* each of its reports, unless the set was deleted meanwhile,
InsertRptlist ==
  /\ ingress = "rptlist" /\ Inserting # Deleted /\ ~AllLists
  /\ \E done, told \in BOOLEAN :
       /\ Executed("DB_RPT_CON", conn["DB_RPT_CON"], done, told)
       /\ ari_rptset' = IF done THEN [ari_rptset EXCEPT ![ins.set].lists = Append(@, [rpt |-> ins.rpt, items |-> <<>>])]
                        ELSE ari_rptset
       /\ IF told THEN /\ ins' = [ins EXCEPT !.list = Len(Inserting.lists) + 1, !.item = 0]
                       /\ ingress' = "rptitem"
          ELSE ins' = [ins EXCEPT !.rpt = @ + 1] /\ UNCHANGED ingress
  /\ UNCHANGED <<got, cur, vals, recv_res, nrecv, registry, agents, restVars, mainVars, build,
                 registered_agents, rpt_lock, row>>

\* Mutant: the connection is established again for each item.
InsertRptitemConnected ==
  /\ ingress = "rptitem" /\ Inserting # Deleted
  /\ IF ins.item = Inserting.reports[ins.rpt]
     THEN /\ ins' = [ins EXCEPT !.rpt = @ + 1] /\ ingress' = "rptlist"
          /\ UNCHANGED <<ari_rptset, conn, nfault>>
     ELSE /\ \/ Executed("DB_RPT_CON", conn["DB_RPT_CON"], TRUE, TRUE) /\ ari_rptset' = [ari_rptset EXCEPT ![ins.set].lists[ins.list].items = Append(@, ins.item)]
             \/ conn["DB_RPT_CON"] # "ok" /\ conn' = [conn EXCEPT !["DB_RPT_CON"] = "ok"] /\ UNCHANGED <<nfault, ari_rptset>>
          /\ ins' = [ins EXCEPT !.item = @ + 1] /\ UNCHANGED ingress
  /\ UNCHANGED <<got, cur, vals, recv_res, nrecv, registry, agents, restVars, mainVars, build,
                 registered_agents, rpt_lock, row>>

\* each of the items of the report, whether or not the one before it was inserted,
InsertRptitem ==
  /\ ingress = "rptitem" /\ Inserting # Deleted
  /\ IF ins.item = Inserting.reports[ins.rpt]
     THEN /\ ins' = [ins EXCEPT !.rpt = @ + 1] /\ ingress' = "rptlist"
          /\ UNCHANGED <<ari_rptset, conn, nfault>>
     ELSE /\ \E done, told \in BOOLEAN :
               /\ Executed("DB_RPT_CON", conn["DB_RPT_CON"], done, told)
               /\ ari_rptset' = IF done THEN [ari_rptset EXCEPT ![ins.set].lists[ins.list].items = Append(@, ins.item)]
                                ELSE ari_rptset
          /\ ins' = [ins EXCEPT !.item = @ + 1] /\ UNCHANGED ingress
  /\ UNCHANGED <<got, cur, vals, recv_res, nrecv, registry, agents, restVars, mainVars, build,
                 registered_agents, rpt_lock, row>>

\* and the end.  Nothing more can refer to a set that was deleted: what is left of it
\* fails, row by row, which is one step here.
InsertDone ==
  /\ ingress \in {"rptlist", "rptitem"} /\ (Inserting = Deleted \/ (ingress = "rptlist" /\ AllLists))
  /\ rpt_lock' = FALSE /\ ins' = NoInsert /\ ingress' = "log"
  /\ UNCHANGED <<got, cur, vals, recv_res, nrecv, registry, agents, restVars, mainVars, build,
                 tables, conn, nfault, row>>

SqlIngress == IngressInsertAgent \/ InsertRptset \/ InsertRptlist \/ InsertRptitem \/ InsertDone

-----------------------------------------------------------------------------
(* The REST handlers.                                                       *)

Back(r) == rest' = [rest EXCEPT ![r] = "idle"] /\ obj' = [obj EXCEPT ![r] = 0] /\ row' = [row EXCEPT ![r] = 0]

RestInsertAgent(r) ==
  /\ rest[r] = "insert_agent"
  /\ refdm_db_insert_agent(agent_list[obj[r]])
  /\ rest' = [rest EXCEPT ![r] = "idle"] /\ obj' = [obj EXCEPT ![r] = 0]
  /\ UNCHANGED <<nreq, registry, agents, ingressVars, mainVars, build>>

\* refdm_db_insert_execset, of what was sent: one statement stands for those of all EXECSETs.
RestInsertExecset(r) ==
  /\ rest[r] = "insert_execset" /\ ~rpt_lock
  /\ \E done, told \in BOOLEAN : Executed("DB_RPT_CON", conn["DB_RPT_CON"], done, told)
  /\ Back(r)
  /\ UNCHANGED <<nreq, registry, agents, ingressVars, mainVars, build, tables, rpt_lock, ins>>

\* The row of the agent is looked up first; without one nothing is cleared.
RestFindRow(r) ==
  /\ rest[r] \in {"clear", "reports"} /\ POSTGRESQL_FOUND
  /\ \E done, told \in BOOLEAN :
       LET idx == IF told THEN refdm_db_fetch_agent_idx(agent_list[obj[r]]) ELSE 0
       IN /\ Fetched(done, told)
          /\ IF rest[r] = "clear" /\ idx = 0 THEN Back(r)
             ELSE /\ rest' = [rest EXCEPT ![r] = IF @ = "clear" THEN "delete" ELSE "list"]
                  /\ row' = [row EXCEPT ![r] = idx] /\ UNCHANGED obj
  /\ UNCHANGED <<nreq, registry, agents, ingressVars, mainVars, build, tables, rpt_lock, ins>>

\* refdm_db_clear_rptset
RestDelete(r) ==
  /\ rest[r] = "delete"
  /\ \E done, told \in BOOLEAN :
       /\ Fetched(done, told)
       /\ ari_rptset' = IF done THEN [i \in DOMAIN ari_rptset |-> IF ari_rptset[i].agent = row[r] THEN Deleted ELSE ari_rptset[i]]
                        ELSE ari_rptset
  /\ Back(r)
  /\ UNCHANGED <<nreq, registry, agents, ingressVars, mainVars, build, registered_agents, rpt_lock, ins>>

\* refdm_db_fetch_rptset_list: the sets, and then the latest time.  It frees the result of
\* this second query twice when it fails; the abort this may cause is a Crash.
RestList(r) ==
  /\ rest[r] = "list"
  /\ \E done, told \in BOOLEAN :
       /\ Fetched(done, told)
       /\ IF told THEN rest' = [rest EXCEPT ![r] = "latest"] /\ UNCHANGED <<obj, row>> ELSE Back(r)
  /\ UNCHANGED <<nreq, registry, agents, ingressVars, mainVars, build, tables, rpt_lock, ins>>

RestLatest(r) ==
  /\ rest[r] = "latest"
  /\ \E done, told \in BOOLEAN : Fetched(done, told)
  /\ Back(r)
  /\ UNCHANGED <<nreq, registry, agents, ingressVars, mainVars, build, tables, rpt_lock, ins>>

SqlRest(r) ==
  RestInsertAgent(r) \/ RestInsertExecset(r) \/ RestFindRow(r) \/ RestDelete(r) \/ RestList(r) \/ RestLatest(r)

-----------------------------------------------------------------------------
(* A new process connects and loads the agents.                             *)

\* refdm_db_load_agents adds the agent of the first row, once for each of the rows.
Loaded(c) == IF c["DB_REST_CON"] = "ok" /\ registered_agents # <<>> THEN <<registered_agents[1]>> ELSE <<>>

Crash ==
  /\ POSTGRESQL_FOUND /\ main # "exit"
  /\ conn' \in Connected
  /\ nfault' = nfault + 1 + Missing(conn') /\ nfault' <= MaxFaults
  /\ agent_list' = Loaded(conn')
  /\ agent_dict' = [e \in Range(agent_list') |-> 1]
  /\ agents' = [i \in DOMAIN agent_list' |-> NewAgent]
  /\ created' = [e \in Eid |-> IF e \in Range(agent_list') THEN 1 ELSE 0]
  /\ ingress' = "check" /\ got' = "" /\ cur' = 0 /\ vals' = 0 /\ recv_res' = 0
  /\ rest' = [r \in Rest |-> "idle"] /\ obj' = [r \in Rest |-> 0] /\ row' = [r \in Rest |-> 0]
  /\ main' = "wait" /\ stop' = 0 /\ nsig' = 0
  /\ rpt_lock' = FALSE /\ ins' = NoInsert
  /\ UNCHANGED <<tables, nrecv, nreq, build>>

DbNext ==
  /\ \/ Next /\ UNCHANGED sqlVars
     \/ SqlIngress
     \/ \E r \in Rest : SqlRest(r)
     \/ \E c \in Connection : POSTGRESQL_FOUND /\ Lose(c)
     \/ Crash
  /\ nrecv' + nreq' + nfault' <= MaxEvents

Spec == DbInit /\ [][DbNext]_vars

\* Threads go on; nothing obliges a peer to send or a client to ask.
FairSpec ==
  /\ Spec
  /\ WF_vars((IngressStep /\ UNCHANGED sqlVars) \/ SqlIngress)
  /\ \A r \in Rest : WF_vars((RestStep(r) /\ UNCHANGED sqlVars) \/ SqlRest(r))
  /\ WF_vars(Main /\ UNCHANGED sqlVars)

-----------------------------------------------------------------------------
(* Properties.                                                              *)

\* What is stored of a set of reports is a beginning of it: a row for each of its first
\* reports, each but the last of them with all items, and of the last one the first items;
\* and unless a connection was lost or the manager killed, all of it, once it has been
\* inserted.  So it is whichever statements fail and whenever a client clears the reports.
SetsStoredInOrder ==
  \A i \in DOMAIN ari_rptset :
    LET s == ari_rptset[i]
        whole(k) == Len(s.lists[k].items) = s.reports[k]
    IN /\ \A k \in DOMAIN s.lists :
            /\ s.lists[k].rpt = k
            /\ \A j \in DOMAIN s.lists[k].items : s.lists[k].items[j] = j - 1
            /\ k < Len(s.lists) => whole(k)
       /\ nfault = 0 /\ i # ins.set =>
            Len(s.lists) = Len(s.reports) /\ \A k \in DOMAIN s.lists : whole(k)

\* A set of reports is stored with the agent that sent it and with its row, and a client
\* clears or is shown the sets of the row of the agent it asked for: no EID has two rows, and
\* a row that was looked up is still that agent's when it is used, also after a restart.
RowsMatchAgents ==
  /\ StoredWithSender
  /\ \A i, j \in DOMAIN registered_agents : registered_agents[i] = registered_agents[j] => i = j
  /\ \A i \in DOMAIN ari_rptset : ari_rptset[i] # Deleted =>
       registered_agents[ari_rptset[i].agent] = Lower[ari_rptset[i].sender]
  /\ \A r \in Rest : row[r] # 0 =>
       row[r] \in DOMAIN registered_agents /\ registered_agents[row[r]] = agent_list[obj[r]]

\* A manager that is told to stop does, with and without a database: refdm_mgr_stop gets
\* the HTTP server and the ingress worker to end, unless the process is killed first.
ManagerStops == nsig > 0 ~> main = "exit" \/ nsig = 0
=============================================================================
