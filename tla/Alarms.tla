------------------------------- MODULE Alarms -------------------------------
(***************************************************************************)
(* The alarm list of the agent and its shelf (alarms.c), the controls that *)
(* change them and the tables made of them (adm/ietf_alarms.c).            *)
(*                                                                         *)
(* Any thread of the application may report an alarm state with            *)
(* refda_alarms_set_refs; the controls run one at a time in the exec       *)
(* worker.  What a function does while it holds alarm_mutex is one step.   *)
(* shelf_mutex is a variable, as one control unlocks it without having     *)
(* locked it.                                                              *)
(*                                                                         *)
(* An alarm is known by its key, a resource and a category; alarm_list is  *)
(* a function on the numbers its entries were allotted, in whose order     *)
(* they are listed.  A shelf row is known by name and stands for the keys  *)
(* it matches; a filter for the entries it is true of.                     *)
(***************************************************************************)
EXTENDS Integers, Sequences, Functions

CONSTANTS
  Thread,         \* threads that report alarm states
  Concurrent,     \* whether they may be, or not be, other threads than the worker
  Resource,       \* alarm resources defined on the agent
  Category,       \* alarm categories defined on the agent
  NoCategory,     \* the null reference
  Row,            \* shelf rows
  Resources(_),   \* the resources a row's patterns match
  Categories(_),  \* the categories a row's patterns match
  Severity,       \* severities reported
  Mgr,            \* managers
  States,         \* manager states given to controls
  Null,           \* no manager, no time
  MaxSets,        \* bound: alarm states reported
  MaxTime,        \* bound: the system time
  MaxRows         \* bound: rows given to one control

Key == Resource \X (Category \cup {NoCategory})

ASSUME KeyAssumption == NoCategory \notin Category
ASSUME ModesAssumption == Concurrent \subseteq BOOLEAN
ASSUME BoundsAssumption == MaxSets \in Nat /\ MaxTime \in Nat /\ MaxRows \in Nat
ASSUME NullAssumption == Null \notin Mgr /\ Null \notin Nat

\* REFDA_ALARMS_MGR_STATE_*
NONE == 0
ACK == 1
CLOSED == 2
SHELVED == 3
MgrState == NONE .. SHELVED

ASSUME StatesAssumption == States \subseteq MgrState

History == Seq([timestamp : Nat, severity : Severity])

Entry == [key : Key, severity : Severity, created_at : Nat, updated_at : Nat,
          history : History, mgr_state : MgrState, mgr_ident : Mgr \cup {Null},
          mgr_time : Nat \cup {Null}]

VARIABLES
  alarm_list,     \* entries, by number
  alarm_index,    \* the number of an entry, by key
  allotted,       \* entries made so far
  shelf_list,     \* shelf rows
  shelf_mutex,    \* whether it is locked
  pc, arg, seen,  \* of each thread: where it is, what it reports, the shelf
                  \* when it began to look at it
  worker, rows,   \* where the exec worker is, and rows left to do
  now, sets,      \* the system time; alarm states reported
  concurrent

alarmVars == <<alarm_list, alarm_index, allotted>>
shelfVars == <<shelf_list, shelf_mutex>>
threadVars == <<pc, arg, seen, sets, concurrent>>
workerVars == <<worker, rows>>
vars == <<alarmVars, shelfVars, threadVars, workerVars, now>>

NoArg == [key |-> Null, severity |-> Null]

Init ==
  /\ alarm_list = [i \in {} |-> Null]
  /\ alarm_index = [k \in {} |-> 0]
  /\ allotted = 0
  /\ shelf_list = {} /\ shelf_mutex = FALSE
  /\ pc = [t \in Thread |-> "idle"]
  /\ arg = [t \in Thread |-> NoArg]
  /\ seen = [t \in Thread |-> {}]
  /\ worker = "idle" /\ rows = <<>>
  /\ now = 0 /\ sets = 0 /\ concurrent \in Concurrent

\* refda_alarms_shelf_entry_match: an alarm without a category matches no row.
Match(row, key) == key[1] \in Resources(row) /\ key[2] \in Categories(row)

\* A control starts, or an alarm is reported, in the exec worker when the one
\* before is over.
Idle == worker = "idle" /\ \A t \in Thread : pc[t] = "idle"

-----------------------------------------------------------------------------
(* refda_alarms_set_refs, called by a thread of the application.            *)

\* The references are looked up; ones to nothing are refused.
SetCall(t) ==
  /\ pc[t] = "idle" /\ sets < MaxSets /\ (concurrent \/ Idle)
  /\ \E k \in Key, s \in Severity :
       arg' = [arg EXCEPT ![t] = [key |-> k, severity |-> s]]
  /\ pc' = [pc EXCEPT ![t] = "lock"]
  /\ sets' = sets + 1
  /\ UNCHANGED <<seen, concurrent, alarmVars, shelfVars, workerVars, now>>

SetLock(t) ==
  /\ pc[t] = "lock" /\ ~shelf_mutex
  /\ shelf_mutex' = TRUE
  /\ seen' = [seen EXCEPT ![t] = shelf_list]
  /\ pc' = [pc EXCEPT ![t] = "scan"]
  /\ UNCHANGED <<arg, sets, concurrent, alarmVars, shelf_list, workerVars, now>>

\* What the scan of the shelf may find: when a row was added or removed while it
\* went on, which is a data race, it may find either.
Found(t) ==
  LET any(S) == \E r \in S : Match(r, arg[t].key)
  IN  IF seen[t] = shelf_list THEN {any(shelf_list)} ELSE BOOLEAN

\* Mutant: the return on a match leaves the mutex locked.
SetScanKeepsLock(t) ==
  /\ pc[t] = "scan"
  /\ \E found \in Found(t) :
       /\ pc' = [pc EXCEPT ![t] = IF found THEN "idle" ELSE "insert"]
       /\ arg' = IF found THEN [arg EXCEPT ![t] = NoArg] ELSE arg
       /\ shelf_mutex' = found
  /\ seen' = [seen EXCEPT ![t] = {}]
  /\ UNCHANGED <<sets, concurrent, alarmVars, shelf_list, workerVars, now>>

\* The shelf is searched and its mutex unlocked; a match ends the call.
SetScan(t) ==
  /\ pc[t] = "scan"
  /\ \E found \in Found(t) :
       /\ pc' = [pc EXCEPT ![t] = IF found THEN "idle" ELSE "insert"]
       /\ arg' = IF found THEN [arg EXCEPT ![t] = NoArg] ELSE arg
  /\ shelf_mutex' = FALSE
  /\ seen' = [seen EXCEPT ![t] = {}]
  /\ UNCHANGED <<sets, concurrent, alarmVars, shelf_list, workerVars, now>>

NewEntry(k) ==
  [key |-> k, severity |-> 0, created_at |-> now, updated_at |-> now,
   history |-> <<>>, mgr_state |-> NONE, mgr_ident |-> Null, mgr_time |-> Null]

\* The state of an entry after a new severity, with the history newest first.
Updated(e, s) ==
  [e EXCEPT !.severity = s, !.updated_at = now,
            !.history = <<[timestamp |-> now, severity |-> s]>> \o @]

\* The number of a new entry, pushed at the back of the list.
Fresh == allotted + 1

\* With alarm_mutex held: the entry is found by its key, or made and indexed.
SetInsert(t) ==
  /\ pc[t] = "insert"
  /\ LET k == arg[t].key
         known == k \in DOMAIN alarm_index
         i == IF known THEN alarm_index[k] ELSE Fresh
         e == IF known THEN alarm_list[i] ELSE NewEntry(k)
     IN  /\ alarm_list' = [j \in DOMAIN alarm_list \cup {i} |->
                             IF j = i THEN Updated(e, arg[t].severity)
                             ELSE alarm_list[j]]
         /\ alarm_index' = [x \in DOMAIN alarm_index \cup {k} |->
                              IF x = k THEN i ELSE alarm_index[x]]
         /\ allotted' = IF known THEN allotted ELSE allotted + 1
  /\ pc' = [pc EXCEPT ![t] = "idle"]
  /\ arg' = [arg EXCEPT ![t] = NoArg]
  /\ UNCHANGED <<seen, sets, concurrent, shelfVars, workerVars, now>>

Set(t) == SetCall(t) \/ SetLock(t) \/ SetScan(t) \/ SetInsert(t)

-----------------------------------------------------------------------------
(* Controls of the exec worker on the alarm list.                           *)

\* Mutant: the index is left alone.
PurgeListOnly(S) ==
  /\ alarm_list' = Restrict(alarm_list, DOMAIN alarm_list \ S)
  /\ UNCHANGED <<alarm_index, allotted>>

\* refda_alarms_purge_entry for a set of entries.
Purge(S) ==
  /\ alarm_list' = Restrict(alarm_list, DOMAIN alarm_list \ S)
  /\ alarm_index' = Restrict(alarm_index,
       DOMAIN alarm_index \ {alarm_list[i].key : i \in S})
  /\ UNCHANGED allotted

Begin == worker = "idle" /\ (concurrent \/ Idle)
Control == Begin /\ UNCHANGED <<shelfVars, threadVars, workerVars, now>>

PurgeAlarms ==
  /\ Control
  /\ \E S \in SUBSET DOMAIN alarm_list : Purge(S)

Compressed(e) == [e EXCEPT !.history = <<Head(@)>>]

CompressAlarms ==
  /\ Control
  /\ \E S \in SUBSET DOMAIN alarm_list :
       alarm_list' = [i \in DOMAIN alarm_list |->
                        IF i \in S THEN Compressed(alarm_list[i]) ELSE alarm_list[i]]
  /\ UNCHANGED <<alarm_index, allotted>>

\* refda_alarms_mgr_state for one entry; shelving is left to do in the code.
Managed(e, state, m) ==
  IF state = SHELVED \/ e.mgr_state = state THEN e
  ELSE [e EXCEPT !.mgr_state = state, !.mgr_ident = m, !.mgr_time = now]

SetAlarmsManagerState ==
  /\ Control
  /\ \E S \in SUBSET DOMAIN alarm_list, state \in States, m \in Mgr :
       alarm_list' = [i \in DOMAIN alarm_list |->
                        IF i \in S THEN Managed(alarm_list[i], state, m)
                        ELSE alarm_list[i]]
  /\ UNCHANGED <<alarm_index, allotted>>

-----------------------------------------------------------------------------
(* Controls of the exec worker on the shelf.                                *)

\* ensure-shelf begins by unlocking shelf_mutex, whoever holds it.
EnsureShelf ==
  /\ Begin
  /\ \E n \in 1 .. MaxRows : rows' \in [1 .. n -> Row]
  /\ worker' = "ensure"
  /\ shelf_mutex' = FALSE
  /\ UNCHANGED <<shelf_list, alarmVars, threadVars, now>>

\* refda_alarms_apply_shelf, for a row that is not there ...
EnsureRow ==
  /\ worker = "ensure" /\ rows # <<>>
  /\ IF Head(rows) \in shelf_list
     THEN /\ rows' = Tail(rows)
          /\ UNCHANGED <<worker, alarmVars>>
     ELSE /\ Purge({i \in DOMAIN alarm_list : Match(Head(rows), alarm_list[i].key)})
          /\ worker' = "push"
          /\ UNCHANGED rows
  /\ UNCHANGED <<shelfVars, threadVars, now>>

\* ... which is then added.
EnsurePush ==
  /\ worker = "push"
  /\ shelf_list' = shelf_list \cup {Head(rows)}
  /\ rows' = Tail(rows)
  /\ worker' = "ensure"
  /\ UNCHANGED <<shelf_mutex, alarmVars, threadVars, now>>

DiscardShelf ==
  /\ Begin /\ ~shelf_mutex
  /\ \E n \in 1 .. MaxRows : rows' \in [1 .. n -> Row]
  /\ worker' = "discard"
  /\ shelf_mutex' = TRUE
  /\ UNCHANGED <<shelf_list, alarmVars, threadVars, now>>

DiscardRow ==
  /\ worker = "discard" /\ rows # <<>>
  /\ shelf_list' = shelf_list \ {Head(rows)}
  /\ rows' = Tail(rows)
  /\ UNCHANGED <<worker, shelf_mutex, alarmVars, threadVars, now>>

ShelfOver ==
  /\ worker \in {"ensure", "discard"} /\ rows = <<>>
  /\ shelf_mutex' = FALSE
  /\ worker' = "idle"
  /\ UNCHANGED <<rows, shelf_list, alarmVars, threadVars, now>>

Worker ==
  \/ PurgeAlarms \/ CompressAlarms \/ SetAlarmsManagerState
  \/ EnsureShelf \/ EnsureRow \/ EnsurePush
  \/ DiscardShelf \/ DiscardRow \/ ShelfOver

Tick == now < MaxTime /\ now' = now + 1
        /\ UNCHANGED <<alarmVars, shelfVars, threadVars, workerVars>>

Next == (\E t \in Thread : Set(t)) \/ Worker \/ Tick

Spec == Init /\ [][Next]_vars

\* A thread in refda_alarms_set_refs and a control that was begun go on; nothing
\* obliges anyone to report an alarm or to run a control.
Fairness ==
  /\ \A t \in Thread : SF_vars(SetLock(t)) /\ WF_vars(SetScan(t)) /\ WF_vars(SetInsert(t))
  /\ WF_vars(EnsureRow \/ EnsurePush \/ DiscardRow \/ ShelfOver)

FairSpec == Spec /\ Fairness

-----------------------------------------------------------------------------
(* Properties.                                                              *)

TypeOK ==
  /\ DOMAIN alarm_list \subseteq Nat /\ alarm_list \in [DOMAIN alarm_list -> Entry]
  /\ DOMAIN alarm_index \subseteq Key /\ alarm_index \in [DOMAIN alarm_index -> Nat]
  /\ allotted \in Nat
  /\ shelf_list \subseteq Row /\ shelf_mutex \in BOOLEAN
  /\ pc \in [Thread -> {"idle", "lock", "scan", "insert"}]
  /\ arg \in [Thread -> [key : Key, severity : Severity] \cup {NoArg}]
  /\ \A t \in Thread : pc[t] # "idle" => arg[t] # NoArg
  /\ seen \in [Thread -> SUBSET Row]
  /\ worker \in {"idle", "ensure", "push", "discard"} /\ rows \in Seq(Row)
  /\ (worker = "push" => rows # <<>>)
  /\ now \in Nat /\ sets \in Nat /\ concurrent \in BOOLEAN

\* alarm_index and alarm_list agree after whatever threads and controls did:
\* every entry is indexed under its key and every key leads to its entry, so that
\* there is one entry for a resource and category and no pointer to a freed one.
\* And an alarm that a row of the shelf matches is not listed, neither after the row
\* was added nor when its state is reported again, as long as set_refs is only
\* called in the exec worker (another thread may be past its look at the shelf).
ListInSync ==
  /\ \A i \in DOMAIN alarm_list :
       alarm_list[i].key \in DOMAIN alarm_index /\ alarm_index[alarm_list[i].key] = i
  /\ \A k \in DOMAIN alarm_index :
       alarm_index[k] \in DOMAIN alarm_list /\ alarm_list[alarm_index[k]].key = k
  /\ ~concurrent /\ worker = "idle" =>
       \A i \in DOMAIN alarm_list, r \in shelf_list : ~Match(r, alarm_list[i].key)

\* refda_alarms_set_refs returns: no path of another thread or control leaves a
\* mutex locked.
SetRefsReturns == \A t \in Thread : pc[t] # "idle" ~> pc[t] = "idle"
=============================================================================
