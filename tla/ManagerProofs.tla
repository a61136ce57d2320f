---------------------------- MODULE ManagerProofs ----------------------------
(***************************************************************************)
(* The registry of agents and the tables of the database, for any EIDs, any  *)
(* number of REST threads, any sets of reports and any faults.               *)
(*                                                                         *)
(* A place in agent_list and a row of registered_agents stay those of one   *)
(* EID: both only grow, until the process is killed, which takes every       *)
(* place with it.  That, and that a registration looks the EID up again in   *)
(* the critical section in which it adds it, is what the invariant says.     *)
(***************************************************************************)
EXTENDS Database, FiniteSetTheorems, TLAPS

RegistryOK ==
  /\ agent_list \in Seq(Eid)
  /\ DOMAIN agent_dict \subseteq Eid /\ agent_dict \in [DOMAIN agent_dict -> Nat]
  /\ created \in [Eid -> Nat]
  /\ RegisteredOnce

WorkerOK ==
  /\ got \in Eid \cup {""} /\ (ingress \in {"lookup", "add"} => got \in Eid)
  /\ StoredWithSender

RowsOK ==
  /\ registered_agents \in Seq(Eid)
  /\ \A i, j \in DOMAIN registered_agents : registered_agents[i] = registered_agents[j] => i = j

HandlerOK(r) ==
  /\ rest[r] # "idle" => obj[r] \in 1 .. Len(agent_list)
  /\ row[r] # 0 => /\ rest[r] \in {"delete", "list", "latest"}
                   /\ row[r] \in DOMAIN registered_agents
                   /\ registered_agents[row[r]] = agent_list[obj[r]]

HandlersOK ==
  /\ rest = [q \in Rest |-> rest[q]] /\ obj \in [Rest -> Nat] /\ row \in [Rest -> Nat]
  /\ \A r \in Rest : HandlerOK(r)

AgentsInv == RegistryOK /\ WorkerOK /\ RowsOK /\ HandlersOK

(* A sequence that has only grown. *)
Grown(s, t) == Len(s) <= Len(t) /\ \A i \in 1 .. Len(s) : t[i] = s[i]

-----------------------------------------------------------------------------
(* The registry.                                                            *)

LEMMA AppendGrows ==
  ASSUME NEW S, NEW s \in Seq(S), NEW x \in S
  PROVE  /\ Append(s, x) \in Seq(S) /\ Grown(s, Append(s, x))
         /\ Len(Append(s, x)) = Len(s) + 1 /\ Append(s, x)[Len(s) + 1] = x
  BY DEF Grown

LEMMA GrownDomain ==
  ASSUME NEW S, NEW s \in Seq(S), NEW t \in Seq(S), Grown(s, t), NEW i \in DOMAIN s
  PROVE  i \in DOMAIN t /\ t[i] = s[i]
<1>1. DOMAIN s = 1 .. Len(s) /\ DOMAIN t = 1 .. Len(t) /\ Len(s) \in Nat /\ Len(t) \in Nat
  OBVIOUS
<1>2. t[i] = s[i]
  BY <1>1 DEF Grown
<1>3. i \in 1 .. Len(t)
  BY <1>1 DEF Grown
<1> QED
  BY <1>1, <1>2, <1>3

LEMMA SameGrows ==
  ASSUME NEW S, NEW s \in Seq(S) PROVE Grown(s, s)
  BY DEF Grown

LEMMA AddKeepsRegistry ==
  ASSUME RegistryOK, NEW e \in Eid, AgentAdd(e)
  PROVE  RegistryOK' /\ Grown(agent_list, agent_list') /\ e \in DOMAIN agent_dict'
<1>1. CASE e \in DOMAIN agent_dict
  <2>1. UNCHANGED registry
    BY <1>1 DEF AgentAdd
  <2>2. Grown(agent_list, agent_list')
    BY <2>1, SameGrows DEF registry, RegistryOK
  <2> QED
    BY <1>1, <2>1, <2>2 DEF registry, RegistryOK, RegisteredOnce
<1>2. CASE e \notin DOMAIN agent_dict
  <2>1. /\ agent_list' = Append(agent_list, e)
        /\ agent_dict' = [x \in DOMAIN agent_dict \cup {e} |->
                            IF x = e THEN Len(agent_list) + 1 ELSE agent_dict[x]]
        /\ created' = [created EXCEPT ![e] = @ + 1]
    BY <1>2 DEF AgentAdd
  <2>2. /\ agent_list' \in Seq(Eid) /\ Grown(agent_list, agent_list')
        /\ Len(agent_list') = Len(agent_list) + 1 /\ agent_list'[Len(agent_list) + 1] = e
    BY <2>1, AppendGrows DEF RegistryOK
  <2>3. Len(agent_list) \in Nat
    BY DEF RegistryOK
  <2>4. /\ DOMAIN agent_dict' = DOMAIN agent_dict \cup {e}
        /\ DOMAIN agent_dict' \subseteq Eid /\ agent_dict' \in [DOMAIN agent_dict' -> Nat]
    BY <2>1, <2>3 DEF RegistryOK
  <2>5. created' \in [Eid -> Nat] /\ created'[e] = 1 /\ \A x \in Eid : x # e => created'[x] = created[x]
    BY <1>2, <2>1 DEF RegistryOK, RegisteredOnce
  <2>6. \A x \in Eid : created'[x] = IF x \in DOMAIN agent_dict' THEN 1 ELSE 0
    BY <2>4, <2>5 DEF RegistryOK, RegisteredOnce
  <2>7. \A i \in 1 .. Len(agent_list') :
          agent_list'[i] \in DOMAIN agent_dict' /\ agent_dict'[agent_list'[i]] = i
    <3> SUFFICES ASSUME NEW i \in 1 .. Len(agent_list')
                 PROVE  agent_list'[i] \in DOMAIN agent_dict' /\ agent_dict'[agent_list'[i]] = i
      OBVIOUS
    <3>1. CASE i = Len(agent_list) + 1
      BY <2>1, <2>2, <2>4, <3>1
    <3>2. CASE i # Len(agent_list) + 1
      <4>1. i \in 1 .. Len(agent_list)
        BY <2>2, <2>3, <3>2
      <4>2. agent_list'[i] = agent_list[i]
        BY <2>2, <4>1 DEF Grown
      <4>3. agent_list[i] \in DOMAIN agent_dict /\ agent_dict[agent_list[i]] = i
        BY <4>1 DEF RegistryOK, RegisteredOnce
      <4> QED
        BY <1>2, <2>1, <2>4, <4>2, <4>3
    <3> QED
      BY <3>1, <3>2
  <2>8. \A x \in DOMAIN agent_dict' :
          agent_dict'[x] \in 1 .. Len(agent_list') /\ agent_list'[agent_dict'[x]] = x
    <3> SUFFICES ASSUME NEW x \in DOMAIN agent_dict'
                 PROVE  agent_dict'[x] \in 1 .. Len(agent_list') /\ agent_list'[agent_dict'[x]] = x
      OBVIOUS
    <3>1. CASE x = e
      BY <2>1, <2>2, <2>3, <2>4, <3>1
    <3>2. CASE x # e
      <4>1. x \in DOMAIN agent_dict /\ agent_dict'[x] = agent_dict[x]
        BY <2>1, <2>4, <3>2
      <4>2. agent_dict[x] \in 1 .. Len(agent_list) /\ agent_list[agent_dict[x]] = x
        BY <4>1 DEF RegistryOK, RegisteredOnce
      <4> QED
        BY <2>2, <2>3, <4>1, <4>2 DEF Grown
    <3> QED
      BY <3>1, <3>2
  <2> QED
    BY <2>2, <2>4, <2>5, <2>6, <2>7, <2>8 DEF RegistryOK, RegisteredOnce
<1> QED
  BY <1>1, <1>2

(* What a step other than an addition or a restart leaves alone. *)
LEMMA OtherSteps ==
  ASSUME [DbNext]_vars, ~IngressAdd, \A r \in Rest : ~RestAdd(r), ~Crash
  PROVE  UNCHANGED registry
<1>1. CASE Next
  <2>1. CASE IngressRecv \/ IngressStep
    BY <2>1 DEF IngressRecv, IngressStep, IngressCheck, IngressRecvStopped, IngressLookup, IngressPush,
       IngressStore, IngressTime, IngressLog, IngressRotate, IngressNext, registry
  <2>2. CASE \E r \in Rest : RestLookup(r) \/ RestStep(r)
    BY <2>2 DEF RestLookup, RestStep, RestNew, RestClear, RestCleared, RestReports, RestParse, RestSend, registry
  <2>3. CASE MainSignal \/ Main
    BY <2>3 DEF MainSignal, Main, MainWait, MainStop, MainRestStop, MainJoin, registry
  <2> QED
    BY <1>1, <2>1, <2>2, <2>3 DEF Next
<1>2. CASE SqlIngress
  BY <1>2 DEF SqlIngress, IngressInsertAgent, InsertRptset, InsertRptlist, InsertRptitem, InsertDone, registry
<1>3. CASE \E r \in Rest : SqlRest(r)
  BY <1>3 DEF SqlRest, RestInsertAgent, RestInsertExecset, RestFindRow, RestDelete, RestList, RestLatest, registry
<1>4. CASE \E c \in Connection : Lose(c)
  BY <1>4 DEF Lose, mgrVars, registry
<1>5. CASE UNCHANGED vars
  BY <1>5 DEF vars, mgrVars, registry
<1> QED
  BY <1>1, <1>2, <1>3, <1>4, <1>5 DEF DbNext

LEMMA RegistryGrows ==
  ASSUME AgentsInv, [DbNext]_vars, ~Crash
  PROVE  RegistryOK' /\ Grown(agent_list, agent_list')
<1>0. RegistryOK
  BY DEF AgentsInv
<1>1. CASE IngressAdd
  <2>1. got \in Eid /\ AgentAdd(got)
    BY <1>1 DEF IngressAdd, AgentsInv, WorkerOK
  <2> QED
    BY <1>0, <2>1, AddKeepsRegistry
<1>2. ASSUME NEW r \in Rest, RestAdd(r) PROVE RegistryOK' /\ Grown(agent_list, agent_list')
  <2>1. PICK e \in Eid : AgentAdd(e)
    BY <1>2, PeerAssumption DEF RestAdd
  <2> QED
    BY <1>0, <2>1, AddKeepsRegistry
<1>3. CASE ~IngressAdd /\ \A r \in Rest : ~RestAdd(r)
  <2>1. UNCHANGED registry
    BY <1>3, OtherSteps
  <2>2. Grown(agent_list, agent_list')
    BY <1>0, <2>1, SameGrows DEF registry, RegistryOK
  <2> QED
    BY <1>0, <2>1, <2>2 DEF registry, RegistryOK, RegisteredOnce
<1> QED
  BY <1>1, <1>2, <1>3

(* A new process has one agent at most. *)
LEMMA CrashRegistry ==
  ASSUME AgentsInv, Crash PROVE RegistryOK'
<1>1. /\ agent_list' = Loaded(conn') /\ agent_dict' = [e \in Range(agent_list') |-> 1]
      /\ created' = [e \in Eid |-> IF e \in Range(agent_list') THEN 1 ELSE 0]
  BY DEF Crash
<1>2. agent_list' = <<>> \/ \E e \in Eid : agent_list' = <<e>>
  BY <1>1 DEF Loaded, AgentsInv, RowsOK
<1>3. CASE agent_list' = <<>>
  <2>1. Range(agent_list') = {}
    BY <1>3 DEF Range
  <2> QED
    BY <1>1, <1>3, <2>1 DEF RegistryOK, RegisteredOnce
<1>4. ASSUME NEW e \in Eid, agent_list' = <<e>> PROVE RegistryOK'
  <2>1. Range(agent_list') = {e}
    BY <1>4 DEF Range
  <2>2. /\ agent_list' \in Seq(Eid) /\ Len(agent_list') = 1 /\ agent_list'[1] = e
        /\ agent_dict' = [x \in {e} |-> 1] /\ created' = [x \in Eid |-> IF x \in {e} THEN 1 ELSE 0]
    BY <1>1, <1>4, <2>1
  <2>3. RegisteredOnce'
    BY <2>2 DEF RegisteredOnce
  <2> QED
    BY <2>2, <2>3 DEF RegistryOK
<1> QED
  BY <1>2, <1>3, <1>4

(* An agent of agent_list is known by its place in it. *)
LEMMA DictPlace ==
  ASSUME RegistryOK, NEW e \in DOMAIN agent_dict
  PROVE  agent_dict[e] \in 1 .. Len(agent_list) /\ agent_list[agent_dict[e]] = e
  BY DEF RegistryOK, RegisteredOnce

-----------------------------------------------------------------------------
(* The ingress worker.                                                      *)

(* What holds of a place in agent_list holds when others are added. *)
LEMMA WorkerElsewhere ==
  ASSUME AgentsInv, RegistryOK', Grown(agent_list, agent_list'), UNCHANGED <<got, cur>>,
         ingress' = ingress
         \/ (ingress \in {"new", "insert_agent", "push", "store", "time", "log", "rotate", "rptlist", "rptitem"}
             /\ ingress' \notin {"lookup", "add"})
         \/ ingress' \in {"check", "recv", "next", "done"}
  PROVE  WorkerOK'
<1>1. Len(agent_list) \in Nat /\ Len(agent_list') \in Nat
  BY DEF AgentsInv, RegistryOK
<1>2. /\ got \in Eid \cup {""} /\ (ingress \in {"lookup", "add"} => got \in Eid)
      /\ StoredWithSender /\ got' = got /\ cur' = cur
  BY DEF AgentsInv, WorkerOK
<1>3. cur \in 1 .. Len(agent_list) => cur \in 1 .. Len(agent_list') /\ agent_list'[cur] = agent_list[cur]
  BY <1>1 DEF Grown
<1>4. StoredWithSender'
  BY <1>2, <1>3 DEF StoredWithSender
<1> QED
  BY <1>2, <1>4 DEF WorkerOK

LEMMA WorkerStep ==
  ASSUME AgentsInv, [DbNext]_vars, ~Crash PROVE WorkerOK'
<1>0. RegistryOK' /\ Grown(agent_list, agent_list')
  BY RegistryGrows
<1>1. CASE Next
  <2>1. CASE IngressRecv
    <3>1. (got' \in Peer \cup {""}) /\ (ingress' = "next" \/ (ingress' = "lookup" /\ got' # ""))
      BY <2>1 DEF IngressRecv
    <3> QED
      BY <3>1, PeerAssumption DEF WorkerOK, StoredWithSender
  <2>2. CASE IngressLookup
    <3>1. got \in Eid /\ got' = got /\ UNCHANGED registry /\ cur' = GetEid(got)
      BY <2>2 DEF IngressLookup, AgentsInv, WorkerOK
    <3>2. CASE GetEid(got) = 0
      BY <2>2, <3>1, <3>2 DEF IngressLookup, WorkerOK, StoredWithSender
    <3>3. CASE GetEid(got) # 0
      <4>1. got \in DOMAIN agent_dict /\ cur' = agent_dict[got]
        BY <3>1, <3>3 DEF GetEid
      <4>2. cur' \in 1 .. Len(agent_list) /\ agent_list[cur'] = got
        BY <4>1, DictPlace DEF AgentsInv
      <4>3. ingress' = "push"
        BY <2>2, <3>3 DEF IngressLookup
      <4> QED
        BY <3>1, <4>2, <4>3 DEF registry, WorkerOK, StoredWithSender
    <3> QED
      BY <3>2, <3>3
  <2>3. CASE IngressAdd
    <3>1. got \in Eid /\ got' = got /\ AgentAdd(got) /\ cur' = agent_dict'[got] /\ ingress' \in {"new", "push"}
      BY <2>3 DEF IngressAdd, AgentsInv, WorkerOK
    <3>2. got \in DOMAIN agent_dict'
      BY <3>1, AddKeepsRegistry DEF AgentsInv
    <3>3. cur' \in 1 .. Len(agent_list') /\ agent_list'[cur'] = got
      BY <1>0, <3>1, <3>2 DEF RegistryOK, RegisteredOnce
    <3> QED
      BY <3>1, <3>3 DEF WorkerOK, StoredWithSender
  <2>4. CASE IngressNext
    BY <2>4 DEF IngressNext, WorkerOK, StoredWithSender
  <2>5. CASE IngressCheck \/ IngressRecvStopped \/ IngressPush \/ IngressStore \/ IngressTime \/ IngressLog \/ IngressRotate
    <3>1. UNCHANGED <<got, cur>>
      BY <2>5 DEF IngressCheck, IngressRecvStopped, IngressPush, IngressStore, IngressTime, IngressLog, IngressRotate
    <3>2. \/ (ingress \in {"new", "insert_agent", "push", "store", "time", "log", "rotate", "rptlist", "rptitem"}
              /\ ingress' \notin {"lookup", "add"})
          \/ ingress' \in {"check", "recv", "next", "done"}
      BY <2>5 DEF IngressCheck, IngressRecvStopped, IngressPush, IngressStore, IngressTime, IngressLog, IngressRotate
    <3> QED
      BY <1>0, <3>1, <3>2, WorkerElsewhere
  <2>6. CASE \E r \in Rest : RestAdd(r) \/ RestLookup(r) \/ RestStep(r)
    <3>1. UNCHANGED ingressVars
      BY <2>6 DEF RestAdd, RestLookup, RestStep, RestNew, RestClear, RestCleared, RestReports, RestParse, RestSend
    <3> QED
      BY <1>0, <3>1, WorkerElsewhere DEF ingressVars
  <2>7. CASE MainSignal \/ Main
    <3>1. UNCHANGED ingressVars
      BY <2>7 DEF MainSignal, Main, MainWait, MainStop, MainRestStop, MainJoin
    <3> QED
      BY <1>0, <3>1, WorkerElsewhere DEF ingressVars
  <2> QED
    BY <1>1, <2>1, <2>2, <2>3, <2>4, <2>5, <2>6, <2>7 DEF Next, IngressStep
<1>2. CASE SqlIngress
  <2>1. /\ UNCHANGED <<got, cur>>
        /\ ingress \in {"insert_agent", "store", "rptlist", "rptitem"}
        /\ ingress' \in {"push", "rptlist", "rptitem", "log"}
    BY <1>2 DEF SqlIngress, IngressInsertAgent, InsertRptset, InsertRptlist, InsertRptitem, InsertDone
  <2> QED
    BY <1>0, <2>1, WorkerElsewhere
<1>3. CASE \E r \in Rest : SqlRest(r)
  <2>1. UNCHANGED ingressVars
    BY <1>3 DEF SqlRest, RestInsertAgent, RestInsertExecset, RestFindRow, RestDelete, RestList, RestLatest
  <2> QED
    BY <1>0, <2>1, WorkerElsewhere DEF ingressVars
<1>4. CASE (\E c \in Connection : Lose(c)) \/ UNCHANGED vars
  <2>1. UNCHANGED ingressVars
    BY <1>4 DEF Lose, vars, mgrVars
  <2> QED
    BY <1>0, <2>1, WorkerElsewhere DEF ingressVars
<1> QED
  BY <1>1, <1>2, <1>3, <1>4 DEF DbNext

-----------------------------------------------------------------------------
(* The rows of the agents.                                                  *)

LEMMA InsertAgentRows ==
  ASSUME RowsOK, NEW e \in Eid, registered_agents' = SP__insert_agent(e)
  PROVE  /\ RowsOK' /\ Grown(registered_agents, registered_agents')
         /\ \E i \in DOMAIN registered_agents' : registered_agents'[i] = Lower[e]
<1>0. Lower[e] \in Eid /\ registered_agents \in Seq(Eid)
  BY LowerAssumption DEF RowsOK
<1>1. CASE Lower[e] \in Range(registered_agents)
  <2>1. registered_agents' = registered_agents
    BY <1>1 DEF SP__insert_agent
  <2>2. Grown(registered_agents, registered_agents')
    BY <1>0, <2>1, SameGrows
  <2> QED
    BY <1>1, <2>1, <2>2 DEF RowsOK, Range
<1>2. CASE Lower[e] \notin Range(registered_agents)
  <2>1. registered_agents' = Append(registered_agents, Lower[e])
    BY <1>2 DEF SP__insert_agent
  <2>2. /\ registered_agents' \in Seq(Eid) /\ Grown(registered_agents, registered_agents')
        /\ Len(registered_agents') = Len(registered_agents) + 1
        /\ registered_agents'[Len(registered_agents) + 1] = Lower[e]
    BY <1>0, <2>1, AppendGrows
  <2>3. \A i \in 1 .. Len(registered_agents) :
          registered_agents'[i] = registered_agents[i] /\ registered_agents[i] # Lower[e]
    BY <1>0, <1>2, <2>2 DEF Grown, Range
  <2>4. ASSUME NEW i \in DOMAIN registered_agents', NEW j \in DOMAIN registered_agents',
               registered_agents'[i] = registered_agents'[j]
        PROVE  i = j
    BY <1>0, <2>2, <2>3, <2>4 DEF RowsOK
  <2> QED
    BY <1>0, <2>2, <2>4 DEF RowsOK
<1> QED
  BY <1>1, <1>2

LEMMA SameRows ==
  ASSUME RowsOK, registered_agents' = registered_agents
  PROVE  RowsOK' /\ Grown(registered_agents, registered_agents')
<1>1. Grown(registered_agents, registered_agents)
  BY SameGrows DEF RowsOK
<1> QED
  BY <1>1 DEF RowsOK

(* Who it is that the worker has something from. *)
LEMMA GotKnown ==
  ASSUME AgentsInv, ingress \in {"insert_agent", "store"} PROVE got \in Eid
<1>1. cur \in 1 .. Len(agent_list) /\ agent_list[cur] = got /\ agent_list \in Seq(Eid)
  BY DEF AgentsInv, WorkerOK, StoredWithSender, RegistryOK
<1> QED
  BY <1>1

LEMMA RowsStep ==
  ASSUME AgentsInv, [DbNext]_vars
  PROVE  RowsOK' /\ Grown(registered_agents, registered_agents')
<1>0. RowsOK
  BY DEF AgentsInv
<1>1. ASSUME NEW e \in Eid, refdm_db_insert_agent(e)
      PROVE  RowsOK' /\ Grown(registered_agents, registered_agents')
  <2>1. registered_agents' = SP__insert_agent(e) \/ registered_agents' = registered_agents
    BY <1>1 DEF refdm_db_insert_agent
  <2> QED
    BY <1>0, <2>1, InsertAgentRows, SameRows
<1>2. CASE IngressInsertAgent
  <2>1. got \in Eid /\ refdm_db_insert_agent(got)
    BY <1>2, GotKnown DEF IngressInsertAgent
  <2> QED
    BY <1>1, <2>1
<1>3. ASSUME NEW r \in Rest, RestInsertAgent(r)
      PROVE  RowsOK' /\ Grown(registered_agents, registered_agents')
  <2>1. obj[r] \in 1 .. Len(agent_list) /\ agent_list \in Seq(Eid)
    BY <1>3 DEF RestInsertAgent, AgentsInv, HandlersOK, HandlerOK, RegistryOK
  <2>2. agent_list[obj[r]] \in Eid /\ refdm_db_insert_agent(agent_list[obj[r]])
    BY <1>3, <2>1 DEF RestInsertAgent
  <2> QED
    BY <1>1, <2>2
<1>4. CASE InsertRptset
  <2>1. got \in Eid
    BY <1>4, GotKnown DEF InsertRptset
  <2>2. registered_agents' = SP__insert_agent(got) \/ registered_agents' = registered_agents
    BY <1>4 DEF InsertRptset, tables
  <2> QED
    BY <1>0, <2>1, <2>2, InsertAgentRows, SameRows
<1>5. CASE InsertRptlist \/ InsertRptitem \/ InsertDone
  <2>1. registered_agents' = registered_agents
    BY <1>5 DEF InsertRptlist, InsertRptitem, InsertDone, tables
  <2> QED
    BY <1>0, <2>1, SameRows
<1>6. ASSUME NEW r \in Rest, SqlRest(r), ~RestInsertAgent(r)
      PROVE  RowsOK' /\ Grown(registered_agents, registered_agents')
  <2>1. registered_agents' = registered_agents
    BY <1>6 DEF SqlRest, RestInsertExecset, RestFindRow, RestDelete, RestList, RestLatest, tables
  <2> QED
    BY <1>0, <2>1, SameRows
<1>7. CASE (Next /\ UNCHANGED sqlVars) \/ (\E c \in Connection : Lose(c)) \/ Crash \/ UNCHANGED vars
  <2>1. registered_agents' = registered_agents
    BY <1>7 DEF Lose, Crash, vars, sqlVars, tables
  <2> QED
    BY <1>0, <2>1, SameRows
<1> QED
  BY <1>2, <1>3, <1>4, <1>5, <1>6, <1>7 DEF DbNext, SqlIngress

-----------------------------------------------------------------------------
(* The REST handlers.                                                       *)

LEMMA HandlerElsewhere ==
  ASSUME AgentsInv, RegistryOK', RowsOK', Grown(agent_list, agent_list'),
         Grown(registered_agents, registered_agents'), NEW q \in Rest,
         obj'[q] = obj[q], rest[q] # "idle",
         (row'[q] = row[q] /\ (rest'[q] = rest[q] \/ rest'[q] \in {"delete", "list", "latest"})) \/ row'[q] = 0
  PROVE  HandlerOK(q)'
<1>1. /\ obj[q] \in 1 .. Len(agent_list) /\ agent_list \in Seq(Eid) /\ agent_list' \in Seq(Eid)
      /\ registered_agents \in Seq(Eid) /\ registered_agents' \in Seq(Eid)
      /\ row[q] # 0 => /\ rest[q] \in {"delete", "list", "latest"}
                       /\ row[q] \in DOMAIN registered_agents
                       /\ registered_agents[row[q]] = agent_list[obj[q]]
  BY DEF AgentsInv, RegistryOK, RowsOK, HandlersOK, HandlerOK
<1>2. obj[q] \in 1 .. Len(agent_list') /\ agent_list'[obj[q]] = agent_list[obj[q]]
  BY <1>1 DEF Grown
<1>3. \A i \in DOMAIN registered_agents :
        i \in DOMAIN registered_agents' /\ registered_agents'[i] = registered_agents[i]
  BY <1>1, GrownDomain
<1> QED
  BY <1>1, <1>2, <1>3 DEF HandlerOK

LEMMA HandlersElsewhere ==
  ASSUME AgentsInv, RegistryOK', RowsOK', Grown(agent_list, agent_list'),
         Grown(registered_agents, registered_agents'), NEW R \in SUBSET Rest,
         \A q \in R : rest'[q] = rest[q] /\ obj'[q] = obj[q] /\ row'[q] = row[q]
  PROVE  \A q \in R : HandlerOK(q)'
<1> TAKE q \in R
<1>1. CASE rest[q] = "idle"
  <2>1. row[q] = 0
    BY <1>1 DEF AgentsInv, HandlersOK, HandlerOK
  <2> QED
    BY <1>1, <2>1 DEF HandlerOK
<1>2. CASE rest[q] # "idle"
  BY <1>2, HandlerElsewhere
<1> QED
  BY <1>1, <1>2

(* A step of handler r: what is left to show is about r. *)
LEMMA HandlersOfOne ==
  ASSUME AgentsInv, RegistryOK', RowsOK', Grown(agent_list, agent_list'),
         Grown(registered_agents, registered_agents'), NEW r \in Rest, NEW at, NEW o \in Nat, NEW i \in Nat,
         rest' = [rest EXCEPT ![r] = at], obj' = [obj EXCEPT ![r] = o], row' = [row EXCEPT ![r] = i],
         HandlerOK(r)'
  PROVE  HandlersOK'
<1>1. rest = [q \in Rest |-> rest[q]] /\ obj \in [Rest -> Nat] /\ row \in [Rest -> Nat]
  BY DEF AgentsInv, HandlersOK
<1>2. \A q \in Rest \ {r} : rest'[q] = rest[q] /\ obj'[q] = obj[q] /\ row'[q] = row[q]
  BY <1>1
<1>3. \A q \in Rest \ {r} : HandlerOK(q)'
  BY <1>2, HandlersElsewhere
<1>4. rest' = [q \in Rest |-> rest'[q]] /\ obj' \in [Rest -> Nat] /\ row' \in [Rest -> Nat]
  BY <1>1
<1> QED
  BY <1>3, <1>4 DEF HandlersOK

LEMMA HandlersSame ==
  ASSUME AgentsInv, RegistryOK', RowsOK', Grown(agent_list, agent_list'),
         Grown(registered_agents, registered_agents'), UNCHANGED <<rest, obj, row>>
  PROVE  HandlersOK'
<1>1. \A q \in Rest : HandlerOK(q)'
  BY HandlersElsewhere
<1> QED
  BY <1>1 DEF AgentsInv, HandlersOK

(* A handler returns, goes on with its agent, or has found a row. *)
LEMMA HandlerMoves ==
  ASSUME AgentsInv, RegistryOK', RowsOK', Grown(agent_list, agent_list'),
         Grown(registered_agents, registered_agents'), NEW r \in Rest, NEW at, NEW i \in Nat,
         rest' = [rest EXCEPT ![r] = at],
         \/ at = "idle" /\ obj' = [obj EXCEPT ![r] = 0] /\ i = 0
         \/ rest[r] # "idle" /\ obj' = obj /\ (i = 0 \/ (i = row[r] /\ at \in {"delete", "list", "latest"})),
         row' = [row EXCEPT ![r] = i]
  PROVE  HandlersOK'
<1>1. rest = [q \in Rest |-> rest[q]] /\ obj \in [Rest -> Nat] /\ row \in [Rest -> Nat]
  BY DEF AgentsInv, HandlersOK
<1>2. rest'[r] = at /\ row'[r] = i
  BY <1>1
<1>3. CASE at = "idle" /\ obj' = [obj EXCEPT ![r] = 0] /\ i = 0
  <2>1. HandlerOK(r)'
    BY <1>2, <1>3 DEF HandlerOK
  <2> QED
    BY <1>3, <2>1, HandlersOfOne
<1>4. CASE rest[r] # "idle" /\ obj' = obj /\ (i = 0 \/ (i = row[r] /\ at \in {"delete", "list", "latest"}))
  <2>1. HandlerOK(r)'
    BY <1>2, <1>4, HandlerElsewhere
  <2>2. obj[r] \in Nat /\ obj' = [obj EXCEPT ![r] = obj[r]]
    BY <1>1, <1>4
  <2> QED
    BY <2>1, <2>2, HandlersOfOne
<1> QED
  BY <1>3, <1>4

LEMMA RestHandlersStep ==
  ASSUME AgentsInv, RegistryOK', RowsOK', Grown(agent_list, agent_list'),
         Grown(registered_agents, registered_agents'), NEW r \in Rest, row' = row,
         RestAdd(r) \/ RestLookup(r) \/ RestStep(r)
  PROVE  HandlersOK'
<1>z. 0 \in Nat
  OBVIOUS
<1>0. rest = [q \in Rest |-> rest[q]] /\ obj \in [Rest -> Nat] /\ row \in [Rest -> Nat] /\ HandlerOK(r)
  BY DEF AgentsInv, HandlersOK
<1>1. ASSUME rest[r] \notin {"delete", "list", "latest"} PROVE row[r] = 0 /\ row' = [row EXCEPT ![r] = 0]
  BY <1>0, <1>1 DEF HandlerOK
<1>2. CASE RestAdd(r)
  <2>1. row[r] = 0 /\ row' = [row EXCEPT ![r] = 0]
    BY <1>1, <1>2 DEF RestAdd
  <2>2. PICK e \in Eid : /\ AgentAdd(e)
                         /\ IF created' # created
                            THEN /\ rest' = [rest EXCEPT ![r] = "new"]
                                 /\ obj' = [obj EXCEPT ![r] = agent_dict'[e]]
                            ELSE UNCHANGED <<rest, obj>>
    BY <1>2, PeerAssumption DEF RestAdd
  <2>3. CASE created' = created
    BY <2>2, <2>3, HandlersSame
  <2>4. CASE created' # created
    <3>1. e \in DOMAIN agent_dict'
      BY <2>2, AddKeepsRegistry DEF AgentsInv
    <3>2. agent_dict'[e] \in 1 .. Len(agent_list') /\ agent_dict'[e] \in Nat
      BY <3>1 DEF RegistryOK, RegisteredOnce
    <3>3. rest'[r] = "new" /\ obj'[r] = agent_dict'[e] /\ row'[r] = 0
      BY <1>0, <2>1, <2>2, <2>4
    <3>4. HandlerOK(r)'
      BY <3>2, <3>3 DEF HandlerOK
    <3> QED
      BY <1>z, <2>1, <2>2, <2>4, <3>2, <3>4, HandlersOfOne, Zenon
  <2> QED
    BY <2>3, <2>4
<1>3. CASE RestLookup(r)
  <2>1. row[r] = 0 /\ row' = [row EXCEPT ![r] = 0]
    BY <1>1, <1>3 DEF RestLookup
  <2>2. PICK op \in {"reports", "clear", "send"},
             i \in {GetEid(e) : e \in Eid} \cup {GetIndex(k) : k \in 1 .. Len(agent_list) + 1} :
               /\ rest' = [rest EXCEPT ![r] = IF i = 0 THEN "idle" ELSE op]
               /\ obj' = [obj EXCEPT ![r] = i]
    BY <1>3 DEF RestLookup
  <2>3. agent_list \in Seq(Eid) /\ agent_list' = agent_list
    BY <1>3 DEF RestLookup, registry, AgentsInv, RegistryOK
  <2>4. \A e \in Eid : GetEid(e) \in 0 .. Len(agent_list)
    BY <2>3, DictPlace DEF GetEid, AgentsInv
  <2>5. \A k \in 1 .. Len(agent_list) + 1 : GetIndex(k) \in 0 .. Len(agent_list)
    BY <2>3 DEF GetIndex
  <2>6. i \in 0 .. Len(agent_list)
    BY <2>4, <2>5
  <2>7. i \in Nat /\ (i # 0 => i \in 1 .. Len(agent_list'))
    BY <2>3, <2>6
  <2>8. (i = 0 => rest'[r] = "idle") /\ obj'[r] = i /\ row'[r] = 0
    BY <1>0, <2>1, <2>2
  <2>9. HandlerOK(r)'
    BY <2>7, <2>8 DEF HandlerOK
  <2> QED
    BY <1>z, <2>1, <2>2, <2>7, <2>9, HandlersOfOne, Zenon
<1>4. CASE RestStep(r)
  <2>1. rest[r] \in {"new", "clear", "cleared", "reports", "send", "items"}
    BY <1>4 DEF RestStep, RestNew, RestClear, RestCleared, RestReports, RestParse, RestSend
  <2>2. row[r] = 0 /\ row' = [row EXCEPT ![r] = 0]
    BY <1>1, <2>1
  <2>3. \E at : /\ rest' = [rest EXCEPT ![r] = at]
                /\ \/ at = "idle" /\ obj' = [obj EXCEPT ![r] = 0]
                   \/ obj' = obj
    <3>1. CASE RestNew(r)
      BY <3>1, Zenon DEF RestNew
    <3>2. CASE RestClear(r)
      BY <3>2, Zenon DEF RestClear
    <3>3. CASE RestCleared(r)
      BY <3>3, Zenon DEF RestCleared
    <3>4. CASE RestReports(r)
      BY <3>4, Zenon DEF RestReports
    <3>5. CASE RestParse(r)
      BY <3>5, Zenon DEF RestParse
    <3>6. CASE RestSend(r)
      BY <3>6, Zenon DEF RestSend
    <3> QED
      BY <1>4, <3>1, <3>2, <3>3, <3>4, <3>5, <3>6 DEF RestStep
  <2>4. rest[r] # "idle"
    BY <2>1
  <2> QED
    BY <1>z, <2>2, <2>3, <2>4, HandlerMoves, Zenon
<1> QED
  BY <1>2, <1>3, <1>4

LEMMA SqlHandlersStep ==
  ASSUME AgentsInv, RegistryOK', RowsOK', Grown(agent_list, agent_list'),
         Grown(registered_agents, registered_agents'), NEW r \in Rest, SqlRest(r)
  PROVE  HandlersOK'
<1>z. 0 \in Nat
  OBVIOUS
<1>0. rest = [q \in Rest |-> rest[q]] /\ obj \in [Rest -> Nat] /\ row \in [Rest -> Nat] /\ HandlerOK(r)
  BY DEF AgentsInv, HandlersOK
<1>1. CASE Back(r)
  BY <1>1, <1>z, HandlerMoves, Zenon DEF Back
<1>2. CASE RestInsertAgent(r)
  <2>1. row[r] = 0
    BY <1>0, <1>2 DEF RestInsertAgent, HandlerOK
  <2>2. row' = [row EXCEPT ![r] = 0]
    BY <1>0, <1>2, <2>1 DEF RestInsertAgent, refdm_db_insert_agent
  <2> QED
    BY <1>2, <1>z, <2>2, HandlerMoves, Zenon DEF RestInsertAgent
<1>3. CASE RestFindRow(r) /\ ~Back(r)
  <2>1. PICK told \in BOOLEAN :
          LET idx == IF told THEN refdm_db_fetch_agent_idx(agent_list[obj[r]]) ELSE 0
          IN  /\ rest' = [rest EXCEPT ![r] = IF @ = "clear" THEN "delete" ELSE "list"]
              /\ row' = [row EXCEPT ![r] = idx] /\ UNCHANGED obj
    BY <1>3 DEF RestFindRow
  <2> DEFINE idx == IF told THEN refdm_db_fetch_agent_idx(agent_list[obj[r]]) ELSE 0
             at == IF rest[r] = "clear" THEN "delete" ELSE "list"
  <2>2. /\ registered_agents \in Seq(Eid)
        /\ agent_list' = agent_list /\ registered_agents' = registered_agents /\ rest[r] # "idle"
    BY <1>3 DEF RestFindRow, registry, tables, AgentsInv, RowsOK
  <2>3. idx = 0 \/ (idx \in DOMAIN registered_agents /\ registered_agents[idx] = agent_list[obj[r]])
    <3>1. ASSUME agent_list[obj[r]] \in Range(registered_agents)
          PROVE  \E i \in DOMAIN registered_agents : registered_agents[i] = agent_list[obj[r]]
      BY <3>1 DEF Range
    <3> QED
      BY <3>1 DEF refdm_db_fetch_agent_idx
  <2>4. idx \in Nat
    BY <2>2, <2>3
  <2>5. /\ rest' = [rest EXCEPT ![r] = at] /\ at \in {"delete", "list", "latest"}
        /\ row' = [row EXCEPT ![r] = idx] /\ obj' = obj /\ obj' = [obj EXCEPT ![r] = obj[r]] /\ obj[r] \in Nat
    BY <1>0, <2>1
  <2>6. rest'[r] = at /\ row'[r] = idx /\ obj'[r] = obj[r] /\ obj[r] \in 1 .. Len(agent_list)
    BY <1>0, <2>2, <2>5 DEF HandlerOK
  <2> HIDE DEF idx, at
  <2>7. HandlerOK(r)'
    BY <2>2, <2>3, <2>5, <2>6 DEF HandlerOK
  <2> QED
    BY <2>4, <2>5, <2>7, HandlersOfOne
<1>4. CASE RestList(r) /\ ~Back(r)
  <2>1. /\ rest' = [rest EXCEPT ![r] = "latest"] /\ obj' = obj /\ row' = row /\ rest[r] # "idle"
    BY <1>4 DEF RestList
  <2>2. row' = [row EXCEPT ![r] = row[r]] /\ row[r] \in Nat
    BY <1>0, <2>1
  <2> QED
    BY <2>1, <2>2, HandlerMoves, Zenon
<1> QED
  BY <1>1, <1>2, <1>3, <1>4 DEF SqlRest, RestInsertExecset, RestDelete, RestLatest

LEMMA HandlersStep ==
  ASSUME AgentsInv, [DbNext]_vars, ~Crash PROVE HandlersOK'
<1>0. RegistryOK' /\ RowsOK' /\ Grown(agent_list, agent_list') /\ Grown(registered_agents, registered_agents')
  BY RegistryGrows, RowsStep
<1>1. ASSUME NEW r \in Rest, UNCHANGED sqlVars, RestAdd(r) \/ RestLookup(r) \/ RestStep(r) PROVE HandlersOK'
  BY <1>0, <1>1, RestHandlersStep DEF sqlVars
<1>2. ASSUME NEW r \in Rest, SqlRest(r) PROVE HandlersOK'
  BY <1>0, <1>2, SqlHandlersStep
<1>3. CASE (IngressRecv \/ IngressStep) /\ UNCHANGED sqlVars
  <2>1. UNCHANGED <<rest, obj, row>>
    BY <1>3 DEF IngressRecv, IngressStep, IngressCheck, IngressRecvStopped, IngressLookup, IngressAdd, IngressPush,
       IngressStore, IngressTime, IngressLog, IngressRotate, IngressNext, restVars, sqlVars
  <2> QED
    BY <1>0, <2>1, HandlersSame
<1>4. CASE (MainSignal \/ Main) /\ UNCHANGED sqlVars
  <2>1. UNCHANGED <<rest, obj, row>>
    BY <1>4 DEF MainSignal, Main, MainWait, MainStop, MainRestStop, MainJoin, restVars, sqlVars
  <2> QED
    BY <1>0, <2>1, HandlersSame
<1>5. CASE SqlIngress
  <2>1. UNCHANGED <<rest, obj, row>>
    BY <1>5 DEF SqlIngress, IngressInsertAgent, refdm_db_insert_agent, InsertRptset, InsertRptlist, InsertRptitem,
       InsertDone, restVars
  <2> QED
    BY <1>0, <2>1, HandlersSame
<1>6. CASE (\E c \in Connection : Lose(c)) \/ UNCHANGED vars
  <2>1. UNCHANGED <<rest, obj, row>>
    BY <1>6 DEF Lose, vars, mgrVars, sqlVars, restVars
  <2> QED
    BY <1>0, <2>1, HandlersSame
<1> QED
  BY <1>1, <1>2, <1>3, <1>4, <1>5, <1>6 DEF DbNext, Next

-----------------------------------------------------------------------------
(* The sets of reports.                                                     *)

ListRow == [rpt : Nat, items : Seq(Nat)]
SetRow == [agent : Nat, sender : Eid \cup {""}, reports : Seq(Nat), lists : Seq(ListRow)]

(* The row of a set is that of its sender. *)
OfSender(s) ==
  s # Deleted => /\ s.sender \in Eid /\ s.agent \in DOMAIN registered_agents
                 /\ registered_agents[s.agent] = Lower[s.sender]

Whole(s, k) == Len(s.lists[k].items) = s.reports[k]

InOrder(s) ==
  \A k \in DOMAIN s.lists :
    /\ s.lists[k].rpt = k
    /\ \A j \in DOMAIN s.lists[k].items : s.lists[k].items[j] = j - 1
    /\ k < Len(s.lists) => Whole(s, k)

Complete(s) == Len(s.lists) = Len(s.reports) /\ \A k \in DOMAIN s.lists : Whole(s, k)

SetsOK ==
  /\ ari_rptset \in Seq(SetRow)
  /\ \A i \in DOMAIN ari_rptset : OfSender(ari_rptset[i]) /\ InOrder(ari_rptset[i])

(* Where an insertion that nothing has failed is: before report ins.rpt, or  *)
(* before its item ins.item.                                                *)
RptOk == conn["DB_RPT_CON"] = "ok"
AtList(s) ==
  /\ ins.rpt = Len(s.lists) + 1 /\ Len(s.lists) <= Len(s.reports)
  /\ \A k \in DOMAIN s.lists : Whole(s, k)
AtItem(s) ==
  /\ ins.rpt = Len(s.lists) /\ ins.list = ins.rpt /\ ins.rpt \in 1 .. Len(s.reports)
  /\ \A k \in DOMAIN s.lists : k # ins.rpt => Whole(s, k)
  /\ ins.item = Len(s.lists[ins.rpt].items)

InsertOK ==
  /\ ins \in [set : Nat, list : Nat, rpt : Nat, item : Nat]
  /\ IF ingress \in {"rptlist", "rptitem"} THEN ins.set \in DOMAIN ari_rptset ELSE ins.set = 0
  /\ RptOk /\ ingress = "rptlist" /\ Inserting # Deleted => AtList(Inserting)
  /\ RptOk /\ ingress = "rptitem" /\ Inserting # Deleted => AtItem(Inserting)

(* Without a fault all is inserted but what is being inserted. *)
FaultsOK ==
  /\ nfault \in Nat /\ conn = [c \in Connection |-> conn[c]]
  /\ nfault = 0 /\ POSTGRESQL_FOUND => RptOk
  /\ ins.set # 0 => POSTGRESQL_FOUND
  /\ nfault = 0 => \A i \in DOMAIN ari_rptset : i # ins.set => Complete(ari_rptset[i])

SetsInv == SetsOK /\ InsertOK /\ FaultsOK

LEMMA SameSets ==
  ASSUME SetsOK, UNCHANGED <<registered_agents, ari_rptset>> PROVE SetsOK'
<1>1. \A i \in DOMAIN ari_rptset : OfSender(ari_rptset[i])'
  BY DEF SetsOK, OfSender
<1>2. \A x : InOrder(x)' <=> InOrder(x)
  BY DEF InOrder, Whole
<1>3. \A i \in DOMAIN ari_rptset : InOrder(ari_rptset[i])'
  BY <1>2 DEF SetsOK
<1> QED
  BY <1>1, <1>3 DEF SetsOK

LEMMA DeletedRow ==
  Deleted \in SetRow /\ InOrder(Deleted) /\ Complete(Deleted) /\ OfSender(Deleted)
  BY DEF Deleted, SetRow, ListRow, InOrder, Complete, OfSender

LEMMA SetRowFields ==
  ASSUME NEW s \in SetRow
  PROVE  /\ s.agent \in Nat /\ s.reports \in Seq(Nat) /\ s.lists \in Seq(ListRow)
         /\ Len(s.reports) \in Nat /\ Len(s.lists) \in Nat /\ DOMAIN s.lists = 1 .. Len(s.lists)
<1>1. s.agent \in Nat /\ s.reports \in Seq(Nat) /\ s.lists \in Seq(ListRow)
  BY DEF SetRow
<1> QED
  BY <1>1

LEMMA ListRowFields ==
  ASSUME NEW l \in ListRow
  PROVE  l.rpt \in Nat /\ l.items \in Seq(Nat) /\ Len(l.items) \in Nat /\ DOMAIN l.items = 1 .. Len(l.items)
<1>1. l.rpt \in Nat /\ l.items \in Seq(Nat)
  BY DEF ListRow
<1> QED
  BY <1>1

(* The next report of a set, of which all before are whole. *)
LEMMA AddList ==
  ASSUME NEW s \in SetRow, InOrder(s), \A k \in DOMAIN s.lists : Whole(s, k), NEW t,
         t = [s EXCEPT !.lists = Append(s.lists, [rpt |-> Len(s.lists) + 1, items |-> <<>>])]
  PROVE  /\ t \in SetRow /\ t.agent = s.agent /\ t.sender = s.sender /\ t.reports = s.reports
         /\ Len(t.lists) = Len(s.lists) + 1 /\ Len(t.lists[Len(t.lists)].items) = 0
         /\ \A k \in DOMAIN t.lists : k # Len(t.lists) => Whole(t, k)
         /\ InOrder(t)
<1> DEFINE n == Len(s.lists)
           l == [rpt |-> n + 1, items |-> <<>>]
<1>1. s.lists \in Seq(ListRow) /\ n \in Nat /\ l \in ListRow
  <2>1. s.lists \in Seq(ListRow) /\ n \in Nat
    BY SetRowFields
  <2> HIDE DEF n
  <2> QED
    BY <2>1 DEF ListRow
<1>2. /\ t.lists = Append(s.lists, l) /\ t.lists \in Seq(ListRow)
      /\ t \in SetRow /\ t.agent = s.agent /\ t.sender = s.sender /\ t.reports = s.reports
  <2>1. PICK y : y = Append(s.lists, l)
    OBVIOUS
  <2>2. t = [s EXCEPT !.lists = y]
    BY <2>1
  <2>3. y \in Seq(ListRow)
    <3> HIDE DEF l
    <3> QED
      BY <1>1, <2>1
  <2>4. t \in SetRow /\ t.lists = y /\ t.agent = s.agent /\ t.sender = s.sender /\ t.reports = s.reports
    BY <2>2, <2>3 DEF SetRow
  <2> QED
    BY <2>1, <2>3, <2>4
<1>3. /\ Len(t.lists) = n + 1 /\ DOMAIN t.lists = 1 .. (n + 1) /\ DOMAIN s.lists = 1 .. n
      /\ t.lists[n + 1] = l /\ \A k \in 1 .. n : t.lists[k] = s.lists[k]
  BY <1>1, <1>2
<1>4. \A k \in 1 .. n : Whole(t, k)
  BY <1>2, <1>3 DEF Whole
<1>5. Len(l.items) = 0 /\ l.rpt = n + 1 /\ DOMAIN l.items = {}
  OBVIOUS
<1> HIDE DEF n, l
<1>6. \A k \in DOMAIN t.lists : k = n + 1 \/ k \in 1 .. n
  BY <1>1, <1>3
<1>7. InOrder(t)
  <2> SUFFICES ASSUME NEW k \in DOMAIN t.lists
               PROVE  /\ t.lists[k].rpt = k /\ \A j \in DOMAIN t.lists[k].items : t.lists[k].items[j] = j - 1
                      /\ k < Len(t.lists) => Whole(t, k)
    BY DEF InOrder
  <2>1. CASE k = n + 1
    BY <1>1, <1>3, <1>5, <2>1
  <2>2. CASE k \in 1 .. n
    <3>1. t.lists[k] = s.lists[k] /\ Whole(t, k) /\ k \in DOMAIN s.lists
      BY <1>3, <1>4, <2>2
    <3> QED
      BY <3>1 DEF InOrder
  <2> QED
    BY <1>6, <2>1, <2>2
<1> QED
  BY <1>2, <1>3, <1>4, <1>5, <1>6, <1>7 DEF n

(* The next item of the last report of a set. *)
WithItem(s, n, m) ==
  [s EXCEPT !.lists = [s.lists EXCEPT ![n] = [s.lists[n] EXCEPT !.items = Append(s.lists[n].items, m)]]]

LEMMA AddItem ==
  ASSUME NEW s \in SetRow, InOrder(s), NEW n \in DOMAIN s.lists, n = Len(s.lists), NEW m, m = Len(s.lists[n].items),
         NEW t, t = WithItem(s, n, m)
  PROVE  /\ t \in SetRow /\ t.agent = s.agent /\ t.sender = s.sender /\ t.reports = s.reports
         /\ Len(t.lists) = n /\ DOMAIN t.lists = DOMAIN s.lists /\ Len(t.lists[n].items) = m + 1
         /\ \A k \in DOMAIN s.lists : k # n /\ Whole(s, k) => Whole(t, k)
         /\ InOrder(t)
<1> DEFINE l == [s.lists[n] EXCEPT !.items = Append(s.lists[n].items, m)]
<1>1. s.lists \in Seq(ListRow) /\ n \in Nat /\ s.lists[n] \in ListRow /\ s.lists[n].items \in Seq(Nat) /\ m \in Nat
  <2>1. s.lists \in Seq(ListRow) /\ n \in Nat
    BY SetRowFields
  <2>2. s.lists[n] \in ListRow
    BY <2>1
  <2> QED
    BY <2>1, <2>2, ListRowFields
<1>2. l \in ListRow /\ l.rpt = s.lists[n].rpt /\ l.items = Append(s.lists[n].items, m)
  <2>0. PICK y : y = Append(s.lists[n].items, m)
    OBVIOUS
  <2>1. y \in Seq(Nat) /\ y = Append(s.lists[n].items, m)
    BY <1>1, <2>0
  <2>2. PICK k \in ListRow : k = s.lists[n]
    BY <1>1
  <2>3. l = [k EXCEPT !.items = y]
    BY <2>1, <2>2
  <2> HIDE DEF l
  <2>4. l \in ListRow /\ l.rpt = k.rpt /\ l.items = y
    BY <2>1, <2>3 DEF ListRow
  <2> QED
    BY <2>1, <2>2, <2>4
<1>3. /\ t.lists = [s.lists EXCEPT ![n] = l] /\ t.lists \in Seq(ListRow)
      /\ t \in SetRow /\ t.agent = s.agent /\ t.sender = s.sender /\ t.reports = s.reports
  <2>1. t = [s EXCEPT !.lists = [s.lists EXCEPT ![n] = l]]
    BY DEF WithItem
  <2> HIDE DEF l
  <2>2. PICK y : y = [s.lists EXCEPT ![n] = l]
    OBVIOUS
  <2>3. t = [s EXCEPT !.lists = y] /\ y \in Seq(ListRow)
    <3>1. y \in Seq(ListRow)
      BY <1>1, <1>2, <2>2
    <3> QED
      BY <2>1, <2>2, <3>1, Zenon
  <2>4. t \in SetRow /\ t.lists = y /\ t.agent = s.agent /\ t.sender = s.sender /\ t.reports = s.reports
    BY <2>3 DEF SetRow
  <2> QED
    BY <2>2, <2>3, <2>4
<1>4. /\ Len(l.items) = m + 1 /\ DOMAIN l.items = 1 .. (m + 1) /\ DOMAIN s.lists[n].items = 1 .. m
      /\ l.items[m + 1] = m /\ \A j \in 1 .. m : l.items[j] = s.lists[n].items[j]
  BY <1>1, <1>2
<1> HIDE DEF l
<1>5. /\ Len(t.lists) = n /\ DOMAIN t.lists = DOMAIN s.lists
      /\ t.lists[n] = l /\ \A k \in DOMAIN s.lists : k # n => t.lists[k] = s.lists[k]
  BY <1>1, <1>3
<1>6. \A k \in DOMAIN s.lists : k # n /\ Whole(s, k) => Whole(t, k)
  BY <1>3, <1>5 DEF Whole
<1>7. l.rpt = n /\ \A j \in DOMAIN l.items : l.items[j] = j - 1
  <2>1. s.lists[n].rpt = n /\ \A j \in 1 .. m : s.lists[n].items[j] = j - 1
    BY <1>4 DEF InOrder
  <2>2. \A j \in 1 .. (m + 1) : j = m + 1 \/ j \in 1 .. m
    BY <1>1
  <2>3. (m + 1) - 1 = m
    BY <1>1
  <2> QED
    BY <1>2, <1>4, <2>1, <2>2, <2>3
<1>8. InOrder(t)
  <2> SUFFICES ASSUME NEW k \in DOMAIN t.lists
               PROVE  /\ t.lists[k].rpt = k /\ \A j \in DOMAIN t.lists[k].items : t.lists[k].items[j] = j - 1
                      /\ k < Len(t.lists) => Whole(t, k)
    BY DEF InOrder
  <2>0. k \in DOMAIN s.lists /\ Len(t.lists) = n
    BY <1>5
  <2>1. CASE k = n
    <3>1. t.lists[k] = l /\ ~(k < n)
      BY <1>1, <1>5, <2>1
    <3> QED
      BY <1>7, <2>0, <2>1, <3>1, Zenon
  <2>2. CASE k # n
    <3>1. t.lists[k] = s.lists[k] /\ (Whole(s, k) => Whole(t, k))
      BY <1>5, <1>6, <2>0, <2>2
    <3>2. /\ s.lists[k].rpt = k /\ \A j \in DOMAIN s.lists[k].items : s.lists[k].items[j] = j - 1
          /\ k < n => Whole(s, k)
      BY <2>0, Zenon DEF InOrder
    <3> QED
      BY <2>0, <3>1, <3>2, Zenon
  <2> QED
    BY <2>1, <2>2
<1> QED
  BY <1>3, <1>4, <1>5, <1>6, <1>8

(* A statement is seen to have been executed exactly if the connection is   *)
(* still there, and else is a fault or finds one.                           *)
LEMMA ExecutedConn ==
  ASSUME FaultsOK, NEW c \in Connection, NEW s, NEW done \in BOOLEAN, NEW told \in BOOLEAN,
         Executed(c, s, done, told)
  PROVE  /\ nfault' \in Nat /\ nfault' >= nfault /\ conn' = [k \in Connection |-> conn'[k]]
         /\ conn'[c] = "ok" <=> told
         /\ told => done
         /\ done <=> s = "ok"
         /\ nfault' = 0 => (done <=> told)
         /\ \A k \in Connection : k # c => conn'[k] = conn[k]
<1>1. /\ conn = [k \in Connection |-> conn[k]] /\ nfault \in Nat
      /\ conn' = [conn EXCEPT ![c] = IF told \/ s = "null" THEN s ELSE "bad"]
      /\ nfault' = IF done /\ ~told THEN nfault + 1 ELSE nfault
      /\ done = (s = "ok") /\ (told => done)
  BY DEF FaultsOK, Executed
<1>2. conn'[c] = (IF told \/ s = "null" THEN s ELSE "bad") /\ \A k \in Connection : k # c => conn'[k] = conn[k]
  BY <1>1
<1>3. conn' = [k \in Connection |-> conn'[k]]
  BY <1>1
<1>4. nfault' \in Nat /\ nfault' >= nfault /\ (nfault' = 0 => ~(done /\ ~told))
  BY <1>1
<1>5. (done <=> s = "ok") /\ (told => done) /\ (conn'[c] = "ok" <=> told)
  BY <1>1, <1>2
<1> QED
  BY <1>2, <1>3, <1>4, <1>5

LEMMA FetchedConn ==
  ASSUME FaultsOK, NEW done \in BOOLEAN, NEW told \in BOOLEAN, Fetched(done, told)
  PROVE  /\ nfault' \in Nat /\ nfault' >= nfault /\ conn' = [k \in Connection |-> conn'[k]]
         /\ conn'["DB_RPT_CON"] = conn["DB_RPT_CON"]
<1>1. PICK s : Executed("DB_REST_CON", s, done, told)
  BY DEF Fetched
<1>2. "DB_REST_CON" \in Connection /\ "DB_RPT_CON" \in Connection
  BY DEF Connection
<1> QED
  BY <1>1, <1>2, ExecutedConn

LEMMA BuildSame ==
  ASSUME [DbNext]_vars PROVE POSTGRESQL_FOUND' = POSTGRESQL_FOUND
<1>1. CASE Next
  <2>1. CASE IngressRecv \/ IngressStep
    BY <2>1 DEF IngressRecv, IngressStep, IngressCheck, IngressRecvStopped, IngressLookup, IngressAdd, IngressPush,
       IngressStore, IngressTime, IngressLog, IngressRotate, IngressNext, build
  <2>2. CASE \E r \in Rest : RestAdd(r) \/ RestLookup(r) \/ RestStep(r)
    BY <2>2 DEF RestAdd, RestLookup, RestStep, RestNew, RestClear, RestCleared, RestReports, RestParse, RestSend, build
  <2>3. CASE MainSignal \/ Main
    BY <2>3 DEF MainSignal, Main, MainWait, MainStop, MainRestStop, MainJoin, build
  <2> QED
    BY <1>1, <2>1, <2>2, <2>3 DEF Next
<1>2. CASE SqlIngress
  BY <1>2 DEF SqlIngress, IngressInsertAgent, InsertRptset, InsertRptlist, InsertRptitem, InsertDone, build
<1>3. CASE \E r \in Rest : SqlRest(r)
  BY <1>3 DEF SqlRest, RestInsertAgent, RestInsertExecset, RestFindRow, RestDelete, RestList, RestLatest, build
<1>4. CASE (\E c \in Connection : Lose(c)) \/ Crash \/ UNCHANGED vars
  BY <1>4 DEF Lose, Crash, vars, mgrVars, build
<1> QED
  BY <1>1, <1>2, <1>3, <1>4 DEF DbNext

(* The rows of sets stay those of their senders. *)
LEMMA OfSenderGrown ==
  ASSUME RowsOK, RowsOK', Grown(registered_agents, registered_agents'), NEW s, OfSender(s)
  PROVE  OfSender(s)'
<1>1. \A i \in DOMAIN registered_agents :
        i \in DOMAIN registered_agents' /\ registered_agents'[i] = registered_agents[i]
  BY GrownDomain DEF RowsOK
<1> QED
  BY <1>1 DEF OfSender

(* A step that neither inserts nor deletes sets. *)
LEMMA SetsElsewhere ==
  ASSUME SetsInv, RowsOK, RowsOK', Grown(registered_agents, registered_agents'),
         ari_rptset' = ari_rptset, ins' = ins, POSTGRESQL_FOUND' = POSTGRESQL_FOUND,
         ingress' = ingress \/ (ingress \notin {"rptlist", "rptitem"} /\ ingress' \notin {"rptlist", "rptitem"}),
         nfault' \in Nat, nfault' >= nfault, conn' = [c \in Connection |-> conn'[c]],
         RptOk' => RptOk, RptOk /\ nfault' = 0 => RptOk'
  PROVE  SetsInv'
<1>1. SetsOK'
  <2>1. \A i \in DOMAIN ari_rptset : OfSender(ari_rptset[i])' /\ InOrder(ari_rptset[i])
    BY OfSenderGrown DEF SetsInv, SetsOK
  <2> QED
    BY <2>1 DEF SetsInv, SetsOK, OfSender, InOrder, Whole
<1>2. InsertOK'
  BY DEF SetsInv, InsertOK, AtList, AtItem, Whole, Inserting
<1>3. FaultsOK'
  <2>1. nfault' = 0 => nfault = 0
    BY DEF SetsInv, FaultsOK
  <2> QED
    BY <2>1 DEF SetsInv, FaultsOK, Complete, Whole
<1> QED
  BY <1>1, <1>2, <1>3 DEF SetsInv

LEMMA SetInserted ==
  ASSUME AgentsInv, SetsInv, RowsOK', Grown(registered_agents, registered_agents'),
         POSTGRESQL_FOUND' = POSTGRESQL_FOUND, InsertRptset
  PROVE  SetsInv'
<1>0. RowsOK /\ got \in Eid /\ ins.set = 0 /\ POSTGRESQL_FOUND /\ ari_rptset \in Seq(SetRow)
  BY GotKnown DEF InsertRptset, AgentsInv, SetsInv, InsertOK, SetsOK
<1>1. PICK reports \in RptSets, done \in BOOLEAN, told \in BOOLEAN :
        /\ Executed("DB_RPT_CON", conn["DB_RPT_CON"], done, told)
        /\ IF done THEN /\ registered_agents' = SP__insert_agent(got)
                        /\ ari_rptset' = Append(ari_rptset, NewSet(reports))
           ELSE UNCHANGED tables
        /\ IF told THEN /\ ins' = [NoInsert EXCEPT !.set = Len(ari_rptset'), !.rpt = 1]
                        /\ ingress' = "rptlist"
           ELSE ins' = NoInsert /\ ingress' = "log"
  BY DEF InsertRptset
<1>2. "DB_RPT_CON" \in Connection
  BY DEF Connection
<1>3. /\ nfault' \in Nat /\ nfault' >= nfault /\ conn' = [k \in Connection |-> conn'[k]]
      /\ conn'["DB_RPT_CON"] = "ok" <=> told
      /\ told => done
      /\ done <=> conn["DB_RPT_CON"] = "ok"
      /\ nfault' = 0 => (done <=> told)
  BY <1>1, <1>2, ExecutedConn DEF SetsInv
<1>4. CASE ~done
  <2>1. /\ ari_rptset' = ari_rptset /\ registered_agents' = registered_agents /\ ~told
        /\ ins' = NoInsert /\ ingress' = "log" /\ ~RptOk /\ ~RptOk'
    BY <1>1, <1>3, <1>4 DEF tables, RptOk
  <2>2. SetsOK'
    BY <2>1, SameSets DEF SetsInv
  <2>3. InsertOK'
    BY <2>1 DEF InsertOK, NoInsert
  <2>4. nfault # 0
    BY <1>0, <2>1 DEF SetsInv, FaultsOK
  <2>5. FaultsOK'
    BY <1>3, <2>1, <2>4 DEF FaultsOK, NoInsert, SetsInv
  <2> QED
    BY <2>2, <2>3, <2>5 DEF SetsInv
<1>5. CASE done
  <2> DEFINE n == Len(ari_rptset) + 1
  <2>0. PICK new : new = NewSet(reports)
    OBVIOUS
  <2>1. registered_agents' = SP__insert_agent(got) /\ ari_rptset' = Append(ari_rptset, new)
    BY <1>1, <1>5, <2>0
  <2>2. \E i \in DOMAIN registered_agents' : registered_agents'[i] = Lower[got]
    BY <1>0, <2>1, InsertAgentRows
  <2>3. /\ new.agent \in DOMAIN registered_agents' /\ registered_agents'[new.agent] = Lower[got]
        /\ new.sender = got /\ new.reports = reports /\ new.lists = <<>>
    BY <2>0, <2>2 DEF NewSet
  <2>4. new \in SetRow
    <3>1. new.agent \in Nat
      BY <2>3 DEF RowsOK
    <3>2. reports \in Seq(Nat)
      BY RptSetsAssumption
    <3> QED
      <4>1. PICK a : new = [agent |-> a, sender |-> got, reports |-> reports, lists |-> <<>>]
        BY <2>0, Zenon DEF NewSet
      <4>2. a \in Nat
        BY <3>1, <4>1
      <4>3. <<>> \in Seq(ListRow)
        OBVIOUS
      <4>4. got \in Eid \cup {""}
        BY <1>0, Zenon
      <4> QED
        BY <3>2, <4>1, <4>2, <4>3, <4>4 DEF SetRow
  <2>5. OfSender(new)' /\ InOrder(new)
    BY <1>0, <2>3 DEF OfSender, InOrder
  <2>6. /\ ari_rptset' \in Seq(SetRow) /\ Len(ari_rptset') = n /\ n \in Nat \ {0}
        /\ DOMAIN ari_rptset = 1 .. (n - 1) /\ DOMAIN ari_rptset' = 1 .. n
        /\ ari_rptset'[n] = new /\ \A i \in 1 .. (n - 1) : ari_rptset'[i] = ari_rptset[i]
    BY <1>0, <2>1, <2>4
  <2> HIDE DEF n
  <2>7. \A i \in DOMAIN ari_rptset' : i = n \/ i \in DOMAIN ari_rptset
    BY <2>6
  <2>8. SetsOK'
    <3>1. \A s : (\E i \in DOMAIN ari_rptset : s = ari_rptset[i]) => OfSender(s)' /\ InOrder(s)
      BY <1>0, OfSenderGrown DEF SetsInv, SetsOK
    <3>2. \A i \in DOMAIN ari_rptset' : \A s : s = ari_rptset'[i] => OfSender(s)' /\ InOrder(s)
      BY <2>5, <2>6, <2>7, <3>1
    <3> QED
      BY <2>6, <3>2 DEF SetsOK, OfSender, InOrder, Whole
  <2>9. CASE told
    <3>1. ins' = [set |-> n, list |-> 0, rpt |-> 1, item |-> 0] /\ ingress' = "rptlist" /\ RptOk'
      BY <1>1, <1>3, <2>6, <2>9 DEF NoInsert, RptOk
    <3>2. Inserting' = new
      BY <2>6, <3>1 DEF Inserting
    <3>3. AtList(new)'
      <4>1. Len(new.lists) = 0 /\ DOMAIN new.lists = {} /\ Len(new.reports) \in Nat /\ ins'.rpt = 1
        BY <2>3, <2>4, <3>1, SetRowFields
      <4> QED
        BY <4>1 DEF AtList
    <3>4. InsertOK'
      BY <2>6, <3>1, <3>2, <3>3 DEF InsertOK, AtList, Whole
    <3>5. FaultsOK'
      <4>1. nfault' = 0 => nfault = 0
        BY <1>3 DEF SetsInv, FaultsOK
      <4>2. ASSUME nfault' = 0, NEW i \in DOMAIN ari_rptset', i # n PROVE Complete(ari_rptset'[i])
        BY <1>0, <2>6, <2>7, <4>1, <4>2 DEF SetsInv, FaultsOK
      <4> QED
        BY <1>0, <1>3, <3>1, <4>2 DEF FaultsOK, Complete, Whole
    <3> QED
      BY <2>8, <3>4, <3>5 DEF SetsInv
  <2>10. CASE ~told
    <3>1. ins' = NoInsert /\ ingress' = "log" /\ ~RptOk' /\ nfault' # 0
      BY <1>1, <1>3, <1>5, <2>10 DEF RptOk
    <3>2. InsertOK'
      BY <3>1 DEF InsertOK, NoInsert
    <3>3. FaultsOK'
      BY <1>0, <1>3, <3>1 DEF FaultsOK, NoInsert
    <3> QED
      BY <2>8, <3>2, <3>3 DEF SetsInv
  <2> QED
    BY <2>9, <2>10
<1> QED
  BY <1>4, <1>5

(* The set that is being inserted is given a report or an item. *)
LEMMA RowChanged ==
  ASSUME SetsInv, RowsOK', registered_agents' = registered_agents, POSTGRESQL_FOUND' = POSTGRESQL_FOUND,
         ins.set \in DOMAIN ari_rptset, Inserting # Deleted, ins'.set = ins.set, NEW t \in SetRow,
         t.agent = Inserting.agent, t.sender = Inserting.sender, InOrder(t),
         ari_rptset' = [ari_rptset EXCEPT ![ins.set] = t],
         nfault' \in Nat, nfault' >= nfault, conn' = [c \in Connection |-> conn'[c]],
         POSTGRESQL_FOUND /\ nfault' = 0 => RptOk'
  PROVE  SetsOK' /\ FaultsOK' /\ Inserting' = t /\ DOMAIN ari_rptset' = DOMAIN ari_rptset
<1>1. /\ ari_rptset \in Seq(SetRow)
      /\ \A i \in DOMAIN ari_rptset : OfSender(ari_rptset[i]) /\ InOrder(ari_rptset[i])
  BY DEF SetsInv, SetsOK
<1>2. /\ ari_rptset' \in Seq(SetRow) /\ DOMAIN ari_rptset' = DOMAIN ari_rptset
      /\ ari_rptset'[ins.set] = t /\ \A i \in DOMAIN ari_rptset : i # ins.set => ari_rptset'[i] = ari_rptset[i]
  BY <1>1
<1>3. OfSender(t)
  BY <1>1 DEF OfSender, Inserting
<1>4. \A i \in DOMAIN ari_rptset' : OfSender(ari_rptset'[i]) /\ InOrder(ari_rptset'[i])
  BY <1>1, <1>2, <1>3
<1>5. SetsOK'
  BY <1>2, <1>4 DEF SetsOK, OfSender, InOrder, Whole
<1>6. nfault' = 0 => nfault = 0
  BY DEF SetsInv, FaultsOK
<1>7. ASSUME nfault' = 0, NEW i \in DOMAIN ari_rptset', i # ins.set PROVE Complete(ari_rptset'[i])
  BY <1>2, <1>6, <1>7 DEF SetsInv, FaultsOK
<1>8. FaultsOK'
  BY <1>7 DEF SetsInv, FaultsOK, Complete, Whole
<1> QED
  BY <1>2, <1>5, <1>8 DEF Inserting

LEMMA ListInserted ==
  ASSUME AgentsInv, SetsInv, RowsOK', POSTGRESQL_FOUND' = POSTGRESQL_FOUND, InsertRptlist
  PROVE  SetsInv'
<1>0. /\ ingress = "rptlist" /\ Inserting # Deleted /\ registered_agents' = registered_agents
      /\ ins \in [set : Nat, list : Nat, rpt : Nat, item : Nat] /\ ins.set \in DOMAIN ari_rptset
      /\ POSTGRESQL_FOUND /\ RowsOK
  <2>1. ingress = "rptlist" /\ Inserting # Deleted /\ registered_agents' = registered_agents
    BY DEF InsertRptlist
  <2>2. /\ ins \in [set : Nat, list : Nat, rpt : Nat, item : Nat] /\ ins.set \in DOMAIN ari_rptset
        /\ ari_rptset \in Seq(SetRow)
    BY <2>1 DEF SetsInv, SetsOK, InsertOK
  <2>3. ins.set # 0
    BY <2>2
  <2> QED
    BY <2>1, <2>2, <2>3 DEF SetsInv, FaultsOK, AgentsInv
<1>1. PICK done \in BOOLEAN, told \in BOOLEAN :
        /\ Executed("DB_RPT_CON", conn["DB_RPT_CON"], done, told)
        /\ ari_rptset' = IF done THEN [ari_rptset EXCEPT ![ins.set].lists = Append(@, [rpt |-> ins.rpt, items |-> <<>>])]
                         ELSE ari_rptset
        /\ IF told THEN /\ ins' = [ins EXCEPT !.list = Len(Inserting.lists) + 1, !.item = 0]
                        /\ ingress' = "rptitem"
           ELSE ins' = [ins EXCEPT !.rpt = @ + 1] /\ UNCHANGED ingress
  BY DEF InsertRptlist
<1>2. "DB_RPT_CON" \in Connection
  BY DEF Connection
<1>3. /\ nfault' \in Nat /\ nfault' >= nfault /\ conn' = [k \in Connection |-> conn'[k]]
      /\ conn'["DB_RPT_CON"] = "ok" <=> told
      /\ told => done
      /\ done <=> conn["DB_RPT_CON"] = "ok"
      /\ nfault' = 0 => (done <=> told)
  BY <1>1, <1>2, ExecutedConn DEF SetsInv
<1>4. nfault' = 0 => RptOk /\ done /\ told /\ RptOk'
  BY <1>0, <1>3 DEF SetsInv, FaultsOK, RptOk
<1>5. CASE ~done
  <2>1. /\ ari_rptset' = ari_rptset /\ ins' = [ins EXCEPT !.rpt = @ + 1] /\ ingress' = ingress
        /\ ~RptOk /\ ~RptOk' /\ nfault' # 0
    BY <1>1, <1>3, <1>4, <1>5 DEF RptOk
  <2>2. ins' \in [set : Nat, list : Nat, rpt : Nat, item : Nat] /\ ins'.set = ins.set
    BY <1>0, <2>1
  <2>3. SetsOK'
    BY <1>0, <2>1, SameSets DEF SetsInv
  <2>4. InsertOK'
    BY <1>0, <2>1, <2>2 DEF InsertOK
  <2>5. FaultsOK'
    BY <1>0, <1>3, <2>1 DEF FaultsOK
  <2> QED
    BY <2>3, <2>4, <2>5 DEF SetsInv
<1>6. CASE done
  <2>1. AtList(Inserting) /\ Inserting \in SetRow /\ InOrder(Inserting)
    BY <1>0, <1>3, <1>6 DEF SetsInv, SetsOK, InsertOK, RptOk, Inserting
  <2>2. /\ ins.rpt = Len(Inserting.lists) + 1 /\ \A k \in DOMAIN Inserting.lists : Whole(Inserting, k)
    BY <2>1 DEF AtList
  <2>3. PICK t : t = [Inserting EXCEPT !.lists = Append(Inserting.lists, [rpt |-> Len(Inserting.lists) + 1, items |-> <<>>])]
    OBVIOUS
  <2>4. /\ t \in SetRow /\ t.agent = Inserting.agent /\ t.sender = Inserting.sender /\ t.reports = Inserting.reports
        /\ Len(t.lists) = Len(Inserting.lists) + 1 /\ Len(t.lists[Len(t.lists)].items) = 0
        /\ \A k \in DOMAIN t.lists : k # Len(t.lists) => Whole(t, k)
        /\ InOrder(t)
    BY <2>1, <2>2, <2>3, AddList
  <2>5. ari_rptset' = [ari_rptset EXCEPT ![ins.set] = t]
    BY <1>1, <1>6, <2>2, <2>3 DEF Inserting
  <2>6. ins'.set = ins.set /\ ins' \in [set : Nat, list : Nat, rpt : Nat, item : Nat]
    <3>1. Len(Inserting.lists) + 1 \in Nat /\ ins.rpt + 1 \in Nat
      BY <1>0, <2>1, SetRowFields
    <3>2. \/ ins' = [ins EXCEPT !.list = Len(Inserting.lists) + 1, !.item = 0]
          \/ ins' = [ins EXCEPT !.rpt = ins.rpt + 1]
      BY <1>1
    <3>3. \A n \in Nat : [ins EXCEPT !.list = n, !.item = 0].set = ins.set
            /\ [ins EXCEPT !.list = n, !.item = 0] \in [set : Nat, list : Nat, rpt : Nat, item : Nat]
      BY <1>0
    <3>4. \A n \in Nat : [ins EXCEPT !.rpt = n].set = ins.set
            /\ [ins EXCEPT !.rpt = n] \in [set : Nat, list : Nat, rpt : Nat, item : Nat]
      BY <1>0
    <3> QED
      BY <3>1, <3>2, <3>3, <3>4
  <2>7. SetsOK' /\ FaultsOK' /\ Inserting' = t /\ DOMAIN ari_rptset' = DOMAIN ari_rptset
    BY <1>0, <1>3, <1>4, <2>4, <2>5, <2>6, RowChanged
  <2>8. CASE told
    <3>1. ingress' = "rptitem" /\ ins'.rpt = ins.rpt /\ ins'.list = ins.rpt /\ ins'.item = 0
      BY <1>0, <1>1, <2>2, <2>8
    <3>2. ~(ins.rpt > Len(Inserting.reports))
      BY <1>0 DEF InsertRptlist, AllLists
    <3>3. ins.rpt \in 1 .. Len(t.reports)
      <4>1. Len(Inserting.lists) \in Nat /\ Len(Inserting.reports) \in Nat /\ t.reports = Inserting.reports
        BY <2>1, <2>4, SetRowFields
      <4> QED
        BY <2>2, <3>2, <4>1
    <3>4. AtItem(t)'
      BY <2>2, <2>4, <3>1, <3>3 DEF AtItem, Whole
    <3> QED
      BY <1>0, <2>6, <2>7, <3>1, <3>4 DEF SetsInv, InsertOK
  <2>9. CASE ~told
    <3>1. ingress' = "rptlist" /\ ~RptOk'
      BY <1>0, <1>1, <1>3, <2>9 DEF RptOk
    <3> QED
      BY <1>0, <2>6, <2>7, <3>1 DEF SetsInv, InsertOK
  <2> QED
    BY <2>8, <2>9
<1> QED
  BY <1>5, <1>6

LEMMA ItemInserted ==
  ASSUME AgentsInv, SetsInv, RowsOK', POSTGRESQL_FOUND' = POSTGRESQL_FOUND, InsertRptitem
  PROVE  SetsInv'
<1>0. /\ ingress = "rptitem" /\ Inserting # Deleted /\ registered_agents' = registered_agents
      /\ ins \in [set : Nat, list : Nat, rpt : Nat, item : Nat] /\ ins.set \in DOMAIN ari_rptset
      /\ POSTGRESQL_FOUND /\ RowsOK /\ Inserting \in SetRow /\ InOrder(Inserting)
  BY DEF InsertRptitem, SetsInv, SetsOK, InsertOK, FaultsOK, AgentsInv, Inserting
<1>1. CASE ins.item = Inserting.reports[ins.rpt]
  <2>1. /\ ins' = [ins EXCEPT !.rpt = @ + 1] /\ ingress' = "rptlist"
        /\ ari_rptset' = ari_rptset /\ conn' = conn /\ nfault' = nfault
    BY <1>1 DEF InsertRptitem
  <2>2. /\ ins' \in [set : Nat, list : Nat, rpt : Nat, item : Nat] /\ ins'.set = ins.set /\ ins'.rpt = ins.rpt + 1
    BY <1>0, <2>1
  <2>3. SetsOK'
    BY <1>0, <2>1, SameSets DEF SetsInv
  <2>4. FaultsOK'
    BY <2>1, <2>2 DEF SetsInv, FaultsOK, RptOk, Complete, Whole
  <2>5. Inserting' = Inserting
    BY <2>1, <2>2 DEF Inserting
  <2>6. ASSUME RptOk PROVE AtList(Inserting)'
    <3>1. AtItem(Inserting)
      BY <1>0, <2>6 DEF SetsInv, InsertOK
    <3>2. \A k \in DOMAIN Inserting.lists : Whole(Inserting, k)
      BY <1>1, <3>1 DEF AtItem, Whole
    <3>3. Len(Inserting.reports) \in Nat
      BY <1>0, SetRowFields
    <3> QED
      BY <2>2, <2>5, <3>1, <3>2, <3>3 DEF AtItem, AtList, Whole
  <2>7. InsertOK'
    BY <1>0, <2>1, <2>2, <2>5, <2>6 DEF InsertOK, RptOk
  <2> QED
    BY <2>3, <2>4, <2>7 DEF SetsInv
<1>2. CASE ins.item # Inserting.reports[ins.rpt]
  <2>1. PICK done \in BOOLEAN, told \in BOOLEAN :
          /\ Executed("DB_RPT_CON", conn["DB_RPT_CON"], done, told)
          /\ ari_rptset' = IF done THEN [ari_rptset EXCEPT ![ins.set].lists[ins.list].items = Append(@, ins.item)]
                           ELSE ari_rptset
    BY <1>2 DEF InsertRptitem
  <2>2. ins' = [ins EXCEPT !.item = @ + 1] /\ ingress' = "rptitem"
    BY <1>0, <1>2 DEF InsertRptitem
  <2>3. /\ ins' \in [set : Nat, list : Nat, rpt : Nat, item : Nat] /\ ins'.set = ins.set /\ ins'.rpt = ins.rpt
        /\ ins'.list = ins.list /\ ins'.item = ins.item + 1
    BY <1>0, <2>2
  <2>4. "DB_RPT_CON" \in Connection
    BY DEF Connection
  <2>5. /\ nfault' \in Nat /\ nfault' >= nfault /\ conn' = [k \in Connection |-> conn'[k]]
        /\ conn'["DB_RPT_CON"] = "ok" <=> told
        /\ told => done
        /\ done <=> conn["DB_RPT_CON"] = "ok"
        /\ nfault' = 0 => (done <=> told)
    BY <2>1, <2>4, ExecutedConn DEF SetsInv
  <2>6. nfault' = 0 => RptOk /\ done /\ told /\ RptOk'
    BY <1>0, <2>5 DEF SetsInv, FaultsOK, RptOk
  <2>7. CASE ~done
    <3>1. ari_rptset' = ari_rptset /\ ~RptOk /\ ~RptOk' /\ nfault' # 0
      BY <2>1, <2>5, <2>6, <2>7 DEF RptOk
    <3>2. SetsOK'
      BY <1>0, <3>1, SameSets DEF SetsInv
    <3>3. InsertOK'
      BY <1>0, <2>2, <2>3, <3>1 DEF InsertOK
    <3>4. FaultsOK'
      BY <1>0, <2>5, <3>1 DEF FaultsOK
    <3> QED
      BY <3>2, <3>3, <3>4 DEF SetsInv
  <2>8. CASE done
    <3>1. AtItem(Inserting)
      BY <1>0, <2>5, <2>8 DEF SetsInv, InsertOK, RptOk
    <3> DEFINE n == ins.rpt
               m == ins.item
    <3>2. n \in DOMAIN Inserting.lists /\ n = Len(Inserting.lists) /\ ins.list = n /\ m = Len(Inserting.lists[n].items)
      <4>1. n = Len(Inserting.lists) /\ ins.list = n /\ m = Len(Inserting.lists[n].items) /\ n >= 1
        BY <3>1 DEF AtItem
      <4> QED
        BY <1>0, <4>1, SetRowFields
    <3>3. PICK t : t = WithItem(Inserting, n, m)
      OBVIOUS
    <3>4. /\ t \in SetRow /\ t.agent = Inserting.agent /\ t.sender = Inserting.sender /\ t.reports = Inserting.reports
          /\ Len(t.lists) = n /\ DOMAIN t.lists = DOMAIN Inserting.lists /\ Len(t.lists[n].items) = m + 1
          /\ \A k \in DOMAIN Inserting.lists : k # n /\ Whole(Inserting, k) => Whole(t, k)
          /\ InOrder(t)
      <4>1. PICK s : s = Inserting
        OBVIOUS
      <4>2. PICK k, j : k = n /\ j = m
        OBVIOUS
      <4>3. s \in SetRow /\ InOrder(s) /\ k \in DOMAIN s.lists /\ k = Len(s.lists) /\ j = Len(s.lists[k].items)
        BY <1>0, <3>2, <4>1, <4>2
      <4>4. t = WithItem(s, k, j)
        BY <3>3, <4>1, <4>2
      <4>5. /\ t \in SetRow /\ t.agent = s.agent /\ t.sender = s.sender /\ t.reports = s.reports
            /\ Len(t.lists) = k /\ DOMAIN t.lists = DOMAIN s.lists /\ Len(t.lists[k].items) = j + 1
            /\ \A i \in DOMAIN s.lists : i # k /\ Whole(s, i) => Whole(t, i)
            /\ InOrder(t)
        BY <4>3, <4>4, AddItem
      <4> QED
        BY <4>1, <4>2, <4>5
    <3>5. ari_rptset' = [ari_rptset EXCEPT ![ins.set] = t]
      BY <2>1, <2>8, <3>2, <3>3 DEF Inserting, WithItem
    <3>6. SetsOK' /\ FaultsOK' /\ Inserting' = t /\ DOMAIN ari_rptset' = DOMAIN ari_rptset
      BY <1>0, <2>3, <2>5, <2>6, <3>4, <3>5, RowChanged
    <3>7. AtItem(t)'
      <4>1. \A k \in DOMAIN t.lists : k # n => Whole(t, k)
        BY <3>1, <3>4 DEF AtItem
      <4> QED
        BY <2>3, <3>1, <3>2, <3>4, <4>1 DEF AtItem, Whole
    <3> QED
      BY <1>0, <2>2, <2>3, <3>6, <3>7 DEF SetsInv, InsertOK
  <2> QED
    BY <2>7, <2>8
<1> QED
  BY <1>1, <1>2

LEMMA SetDone ==
  ASSUME AgentsInv, SetsInv, InsertDone, POSTGRESQL_FOUND' = POSTGRESQL_FOUND
  PROVE  SetsInv'
<1>1. /\ ins' = NoInsert /\ ingress' = "log" /\ ingress \in {"rptlist", "rptitem"}
      /\ UNCHANGED <<registered_agents, ari_rptset, conn, nfault>>
      /\ ins.set \in DOMAIN ari_rptset /\ POSTGRESQL_FOUND
      /\ ari_rptset \in Seq(SetRow) /\ ins \in [set : Nat, list : Nat, rpt : Nat, item : Nat]
  BY DEF InsertDone, tables, SetsInv, SetsOK, InsertOK, FaultsOK
<1>2. SetsOK'
  BY <1>1, SameSets DEF SetsInv
<1>3. InsertOK'
  BY <1>1 DEF InsertOK, NoInsert
<1>4. ASSUME nfault = 0 PROVE Complete(Inserting)
  <2>1. CASE Inserting = Deleted
    BY <2>1, DeletedRow
  <2>2. CASE Inserting # Deleted
    <3>1. ingress = "rptlist" /\ ins.rpt > Len(Inserting.reports)
      BY <2>2 DEF InsertDone, AllLists
    <3>2. AtList(Inserting)
      BY <1>1, <1>4, <2>2, <3>1 DEF SetsInv, FaultsOK, InsertOK
    <3>3. Len(Inserting.lists) \in Nat /\ Len(Inserting.reports) \in Nat
      <4>1. Inserting \in SetRow
        BY <1>1 DEF Inserting
      <4> QED
        BY <4>1, SetRowFields
    <3> QED
      BY <3>1, <3>2, <3>3 DEF AtList, Complete
  <2> QED
    BY <2>1, <2>2
<1>5. nfault = 0 => \A i \in DOMAIN ari_rptset : Complete(ari_rptset[i])
  BY <1>4 DEF SetsInv, FaultsOK, Inserting
<1>6. FaultsOK'
  BY <1>1, <1>5 DEF SetsInv, FaultsOK, RptOk, Complete, Whole, NoInsert
<1> QED
  BY <1>2, <1>3, <1>6 DEF SetsInv

LEMMA SetsDeleted ==
  ASSUME AgentsInv, SetsInv, RowsOK', NEW r \in Rest, RestDelete(r), POSTGRESQL_FOUND' = POSTGRESQL_FOUND
  PROVE  SetsInv'
<1>1. PICK done \in BOOLEAN, told \in BOOLEAN :
        /\ Fetched(done, told)
        /\ ari_rptset' = IF done THEN [i \in DOMAIN ari_rptset |-> IF ari_rptset[i].agent = row[r] THEN Deleted ELSE ari_rptset[i]]
                         ELSE ari_rptset
  BY DEF RestDelete
<1>2. registered_agents' = registered_agents /\ ins' = ins /\ ingress' = ingress /\ ari_rptset \in Seq(SetRow)
  BY DEF RestDelete, ingressVars, SetsInv, SetsOK
<1>3. nfault' \in Nat /\ nfault' >= nfault /\ conn' = [k \in Connection |-> conn'[k]] /\ (RptOk' <=> RptOk)
  BY <1>1, FetchedConn DEF SetsInv, RptOk
<1>4. DOMAIN ari_rptset' = DOMAIN ari_rptset /\ \A i \in DOMAIN ari_rptset : ari_rptset'[i] \in {ari_rptset[i], Deleted}
  BY <1>1
<1>5. ari_rptset' \in Seq(SetRow)
  <2>1. DOMAIN ari_rptset = 1 .. Len(ari_rptset) /\ Len(ari_rptset) \in Nat
    BY <1>2
  <2>2. \A i \in 1 .. Len(ari_rptset) : ari_rptset'[i] \in SetRow
    BY <1>2, <1>4, <2>1, DeletedRow
  <2>3. ari_rptset' = [i \in 1 .. Len(ari_rptset) |-> ari_rptset'[i]]
    BY <1>1, <1>2, <2>1
  <2> QED
    BY <2>1, <2>2, <2>3
<1>6. SetsOK'
  <2>1. \A i \in DOMAIN ari_rptset' : OfSender(ari_rptset'[i]) /\ InOrder(ari_rptset'[i])
    BY <1>4, DeletedRow DEF SetsInv, SetsOK
  <2> QED
    BY <1>2, <1>5, <2>1 DEF SetsOK, OfSender, InOrder, Whole
<1>7. InsertOK'
  <2>1. ingress \in {"rptlist", "rptitem"} => Inserting' \in {Inserting, Deleted}
    BY <1>2, <1>4 DEF Inserting, SetsInv, InsertOK
  <2> QED
    BY <1>2, <1>3, <1>4, <2>1 DEF SetsInv, InsertOK, AtList, AtItem, Whole
<1>8. FaultsOK'
  <2>1. nfault' = 0 => nfault = 0
    BY <1>3 DEF SetsInv, FaultsOK
  <2>2. ASSUME nfault' = 0, NEW i \in DOMAIN ari_rptset', i # ins.set PROVE Complete(ari_rptset'[i])
    BY <1>4, <2>1, <2>2, DeletedRow DEF SetsInv, FaultsOK
  <2> QED
    BY <1>2, <1>3, <2>1, <2>2 DEF SetsInv, FaultsOK, Complete, Whole
<1> QED
  BY <1>6, <1>7, <1>8 DEF SetsInv

LEMMA MissingType ==
  ASSUME NEW c PROVE Missing(c) \in Nat /\ (Missing(c) = 0 => \A k \in Connection : c[k] # "null")
<1> DEFINE S == {k \in Connection : c[k] = "null"}
<1>1. IsFiniteSet(Connection)
  <2>1. IsFiniteSet({}) /\ IsFiniteSet({} \cup {"DB_RPT_CON"}) /\ IsFiniteSet({} \cup {"DB_RPT_CON"} \cup {"DB_REST_CON"})
    BY FS_EmptySet, FS_AddElement, Zenon
  <2>2. Connection = {} \cup {"DB_RPT_CON"} \cup {"DB_REST_CON"}
    BY DEF Connection
  <2> QED
    BY <2>1, <2>2
<1>2. IsFiniteSet(S)
  BY <1>1, FS_Subset
<1>3. Cardinality(S) \in Nat /\ (Cardinality(S) = 0 => S = {})
  BY <1>2, FS_CardinalityType, FS_EmptySet
<1> QED
  BY <1>3 DEF Missing

LEMMA CrashStep ==
  ASSUME AgentsInv, SetsInv, RowsOK', Crash PROVE AgentsInv' /\ SetsInv'
<1>1. WorkerOK'
  BY DEF Crash, WorkerOK, StoredWithSender
<1>2. HandlersOK'
  BY DEF Crash, HandlersOK, HandlerOK
<1>3. AgentsInv'
  BY <1>1, <1>2, CrashRegistry DEF AgentsInv
<1>4. /\ UNCHANGED <<registered_agents, ari_rptset>> /\ ins' = NoInsert /\ ingress' = "check"
      /\ conn' \in Connected /\ nfault' = nfault + 1 + Missing(conn')
  BY DEF Crash, tables
<1>5. nfault' \in Nat /\ nfault' # 0
  BY <1>4, MissingType DEF SetsInv, FaultsOK
<1>6. SetsOK'
  BY <1>4, SameSets DEF SetsInv
<1>7. InsertOK'
  BY <1>4 DEF InsertOK, NoInsert
<1>8. FaultsOK'
  BY <1>4, <1>5 DEF FaultsOK, NoInsert, Connected
<1> QED
  BY <1>3, <1>6, <1>7, <1>8 DEF SetsInv

LEMMA SetsStep ==
  ASSUME AgentsInv, SetsInv, [DbNext]_vars, ~Crash PROVE SetsInv'
<1>0. /\ RowsOK /\ RowsOK' /\ Grown(registered_agents, registered_agents')
      /\ POSTGRESQL_FOUND' = POSTGRESQL_FOUND /\ FaultsOK /\ "DB_RPT_CON" \in Connection
  BY RowsStep, BuildSame DEF AgentsInv, SetsInv, Connection
<1>1. CASE InsertRptset \/ InsertRptlist \/ InsertRptitem \/ InsertDone
  BY <1>0, <1>1, SetInserted, ListInserted, ItemInserted, SetDone
<1>2. ASSUME NEW r \in Rest, RestDelete(r) PROVE SetsInv'
  BY <1>0, <1>2, SetsDeleted
<1>3. ASSUME NEW done \in BOOLEAN, NEW told \in BOOLEAN,
             Executed("DB_RPT_CON", conn["DB_RPT_CON"], done, told)
      PROVE  /\ nfault' \in Nat /\ nfault' >= nfault /\ conn' = [c \in Connection |-> conn'[c]]
             /\ RptOk' => RptOk
             /\ RptOk /\ nfault' = 0 => RptOk'
  <2>1. /\ nfault' \in Nat /\ nfault' >= nfault /\ conn' = [k \in Connection |-> conn'[k]]
        /\ conn'["DB_RPT_CON"] = "ok" <=> told
        /\ told => done
        /\ done <=> conn["DB_RPT_CON"] = "ok"
        /\ nfault' = 0 => (done <=> told)
    BY <1>0, <1>3, ExecutedConn
  <2> QED
    BY <2>1 DEF RptOk
<1>4. CASE IngressInsertAgent
  <2>1. /\ ari_rptset' = ari_rptset /\ ins' = ins /\ ingress = "insert_agent" /\ ingress' = "push"
        /\ \E done, told \in BOOLEAN : Executed("DB_RPT_CON", conn["DB_RPT_CON"], done, told)
    BY <1>4 DEF IngressInsertAgent, refdm_db_insert_agent
  <2> QED
    BY <1>0, <1>3, <2>1, SetsElsewhere
<1>5. ASSUME NEW r \in Rest, RestInsertAgent(r) \/ RestInsertExecset(r) PROVE SetsInv'
  <2>1. /\ ari_rptset' = ari_rptset /\ ins' = ins /\ ingress' = ingress
        /\ \E done, told \in BOOLEAN : Executed("DB_RPT_CON", conn["DB_RPT_CON"], done, told)
    BY <1>5 DEF RestInsertAgent, refdm_db_insert_agent, RestInsertExecset, ingressVars, tables
  <2> QED
    BY <1>0, <1>3, <2>1, SetsElsewhere
<1>6. ASSUME NEW r \in Rest, RestFindRow(r) \/ RestList(r) \/ RestLatest(r) PROVE SetsInv'
  <2>1. /\ ari_rptset' = ari_rptset /\ ins' = ins /\ ingress' = ingress
        /\ \E done, told \in BOOLEAN : Fetched(done, told)
    BY <1>6 DEF RestFindRow, RestList, RestLatest, ingressVars, tables
  <2>2. nfault' \in Nat /\ nfault' >= nfault /\ conn' = [k \in Connection |-> conn'[k]] /\ (RptOk' <=> RptOk)
    BY <1>0, <2>1, FetchedConn DEF RptOk
  <2> QED
    BY <1>0, <2>1, <2>2, SetsElsewhere
<1>7. ASSUME NEW c \in Connection, Lose(c) PROVE SetsInv'
  <2>1. /\ ari_rptset' = ari_rptset /\ ins' = ins /\ ingress' = ingress
        /\ nfault' = nfault + 1 /\ conn' = [conn EXCEPT ![c] = "lost"]
    BY <1>7 DEF Lose, mgrVars, ingressVars, tables
  <2>2. /\ nfault' \in Nat /\ nfault' >= nfault /\ nfault' # 0 /\ conn' = [k \in Connection |-> conn'[k]]
        /\ RptOk' => RptOk
    BY <1>0, <2>1 DEF FaultsOK, RptOk
  <2> QED
    BY <1>0, <2>1, <2>2, SetsElsewhere
<1>8. CASE (Next /\ UNCHANGED sqlVars) \/ UNCHANGED vars
  <2>1. /\ ari_rptset' = ari_rptset /\ ins' = ins /\ conn' = conn /\ nfault' = nfault
    BY <1>8 DEF vars, sqlVars, tables, dbpool
  <2>2. ingress' = ingress \/ (ingress \notin {"rptlist", "rptitem"} /\ ingress' \notin {"rptlist", "rptitem"})
    <3>1. CASE IngressRecv \/ IngressStep
      BY <3>1 DEF IngressRecv, IngressStep, IngressCheck, IngressRecvStopped, IngressLookup, IngressAdd, IngressPush,
         IngressStore, IngressTime, IngressLog, IngressRotate, IngressNext
    <3>2. CASE \E r \in Rest : RestAdd(r) \/ RestLookup(r) \/ RestStep(r)
      BY <3>2 DEF RestAdd, RestLookup, RestStep, RestNew, RestClear, RestCleared, RestReports, RestParse, RestSend,
         ingressVars
    <3>3. CASE MainSignal \/ Main
      BY <3>3 DEF MainSignal, Main, MainWait, MainStop, MainRestStop, MainJoin, ingressVars
    <3>4. CASE UNCHANGED vars
      BY <3>4 DEF vars, mgrVars, ingressVars
    <3> QED
      BY <1>8, <3>1, <3>2, <3>3, <3>4 DEF Next
  <2>3. nfault' \in Nat /\ nfault' >= nfault /\ conn' = [k \in Connection |-> conn'[k]] /\ (RptOk' <=> RptOk)
    BY <1>0, <2>1 DEF FaultsOK, RptOk
  <2> QED
    BY <1>0, <2>1, <2>2, <2>3, SetsElsewhere
<1> QED
  BY <1>1, <1>2, <1>4, <1>5, <1>6, <1>7, <1>8 DEF DbNext, SqlIngress, SqlRest

-----------------------------------------------------------------------------
(* The theorems.                                                            *)

LEMMA InitInv ==
  ASSUME DbInit PROVE AgentsInv /\ SetsInv
<1>1. RegistryOK
  <2>1. agent_list = <<>> /\ agent_dict = [e \in {} |-> 0] /\ created = [e \in Eid |-> 0]
    BY DEF DbInit, Init
  <2>2. agent_list \in Seq(Eid) /\ Len(agent_list) = 0 /\ DOMAIN agent_dict = {} /\ created \in [Eid -> Nat]
    BY <2>1
  <2>3. agent_dict \in [DOMAIN agent_dict -> Nat]
    BY <2>1, <2>2, Zenon
  <2>4. \A e \in Eid : created[e] = 0
    BY <2>1
  <2> QED
    BY <2>2, <2>3, <2>4 DEF RegistryOK, RegisteredOnce
<1>2. WorkerOK
  BY DEF DbInit, Init, WorkerOK, StoredWithSender
<1>3. RowsOK
  BY DEF DbInit, RowsOK
<1>4. HandlersOK
  BY DEF DbInit, Init, HandlersOK, HandlerOK
<1>5. SetsOK /\ InsertOK
  <2>1. ari_rptset = <<>> /\ ins = NoInsert /\ ingress = "check"
    BY DEF DbInit, Init
  <2>2. SetsOK
    BY <2>1 DEF SetsOK
  <2> QED
    BY <2>1, <2>2 DEF InsertOK, NoInsert
<1>6. FaultsOK
  <2>1. conn = [c \in Connection |-> conn[c]]
    BY DEF DbInit, Connected
  <2>2. nfault \in Nat /\ (nfault = 0 /\ POSTGRESQL_FOUND => conn["DB_RPT_CON"] # "null")
    BY MissingType DEF DbInit, Connection
  <2>3. nfault = 0 /\ POSTGRESQL_FOUND => RptOk
    BY <2>2 DEF DbInit, Connected, Connection, RptOk
  <2> QED
    BY <2>1, <2>2, <2>3 DEF DbInit, FaultsOK, NoInsert
<1> QED
  BY <1>1, <1>2, <1>3, <1>4, <1>5, <1>6 DEF AgentsInv, SetsInv

LEMMA StepInv ==
  ASSUME AgentsInv, SetsInv, [DbNext]_vars PROVE AgentsInv' /\ SetsInv'
<1>1. CASE Crash
  BY <1>1, RowsStep, CrashStep
<1>2. CASE ~Crash
  BY <1>2, RegistryGrows, WorkerStep, RowsStep, HandlersStep, SetsStep DEF AgentsInv
<1> QED
  BY <1>1, <1>2

LEMMA Invariants == Spec => [](AgentsInv /\ SetsInv)
<1>1. DbInit => AgentsInv /\ SetsInv
  BY InitInv
<1>2. AgentsInv /\ SetsInv /\ [DbNext]_vars => (AgentsInv /\ SetsInv)'
  BY StepInv
<1> QED
  BY <1>1, <1>2, PTL DEF Spec

(* refdm_mgr_agent_add is given an EID that any number of REST threads and   *)
(* the ingress worker may be registering, and refdm_db_load_agents the same  *)
(* one several times: it is in agent_list once, at the place agent_dict has  *)
(* for it, and one caller was told that it is new.                           *)
THEOREM OneRegistration == Spec => []RegisteredOnce
<1>1. AgentsInv => RegisteredOnce
  BY DEF AgentsInv, RegistryOK
<1> QED
  BY <1>1, Invariants, PTL

(* handle_recv stores a set of reports with the agent that sent it, and      *)
(* refdm_db_insert_rptset with its row; refdm_db_clear_rptset and             *)
(* refdm_db_fetch_rptset_list use the row of the agent they were asked for,    *)
(* looked up two statements and any number of insertions before.             *)
THEOREM RowsOfAgents == Spec => []RowsMatchAgents
<1>1. AgentsInv /\ SetsInv => RowsMatchAgents
  BY DEF AgentsInv, SetsInv, WorkerOK, RowsOK, HandlersOK, HandlerOK, SetsOK, OfSender, RowsMatchAgents
<1> QED
  BY <1>1, Invariants, PTL

(* refdm_db_insert_rptset makes its many insertions in transactions of their *)
(* own, over a connection that may be lost before, in and after each: what   *)
(* it leaves is a beginning of the set, and all of it if nothing failed.      *)
THEOREM BeginningStored == Spec => []SetsStoredInOrder
<1>1. SetsInv => SetsStoredInOrder
  <2> SUFFICES ASSUME SetsInv, NEW i \in DOMAIN ari_rptset
               PROVE  /\ InOrder(ari_rptset[i])
                      /\ nfault = 0 /\ i # ins.set => Complete(ari_rptset[i])
    BY DEF SetsStoredInOrder, InOrder, Complete, Whole
  <2> QED
    BY DEF SetsInv, SetsOK, FaultsOK
<1> QED
  BY <1>1, Invariants, PTL
=============================================================================
