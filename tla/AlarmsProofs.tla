----------------------------- MODULE AlarmsProofs -----------------------------
(***************************************************************************)
(* The alarm list, its index and the shelf, for any resources, categories,  *)
(* shelf rows and threads.                                                  *)
(*                                                                         *)
(* The list and the index change together, under alarm_mutex, and an entry  *)
(* is given a number that no other has had.  That a shelved alarm is not    *)
(* listed needs more, as a call of refda_alarms_set_refs looks at the shelf  *)
(* in one critical section and inserts in another: the shelf it has seen is  *)
(* still the shelf if calls and controls take turns.                        *)
(***************************************************************************)
EXTENDS Alarms, TLAPS

(* A record with the members of Entry. *)
IsEntry(e) ==
  e = [key |-> e.key, severity |-> e.severity, created_at |-> e.created_at, updated_at |-> e.updated_at,
       history |-> e.history, mgr_state |-> e.mgr_state, mgr_ident |-> e.mgr_ident, mgr_time |-> e.mgr_time]

Entries ==
  /\ \A i \in DOMAIN alarm_list : i \in 1 .. allotted /\ IsEntry(alarm_list[i])
  /\ allotted \in Nat

InSync ==
  /\ \A i \in DOMAIN alarm_list :
       alarm_list[i].key \in DOMAIN alarm_index /\ alarm_index[alarm_list[i].key] = i
  /\ \A k \in DOMAIN alarm_index :
       alarm_index[k] \in DOMAIN alarm_list /\ alarm_list[alarm_index[k]].key = k

Threads ==
  /\ pc = [t \in Thread |-> pc[t]] /\ arg = [t \in Thread |-> arg[t]] /\ seen = [t \in Thread |-> seen[t]]
  /\ rows \in Seq(Row) /\ (worker = "push" => rows # <<>>)
  /\ worker \in {"idle", "ensure", "push", "discard"}

(* Calls and controls take turns, unless other threads than the worker call. *)
Turns ==
  ~concurrent =>
    /\ \A t, u \in Thread : pc[t] # "idle" /\ pc[u] # "idle" => t = u
    /\ worker # "idle" => \A t \in Thread : pc[t] = "idle"

Unmatched(row) == \A i \in DOMAIN alarm_list : ~Match(row, alarm_list[i].key)

Shelved ==
  ~concurrent =>
    /\ \A r \in shelf_list : Unmatched(r)
    /\ worker = "push" => Unmatched(Head(rows))
    /\ \A t \in Thread : pc[t] = "scan" => seen[t] = shelf_list
    /\ \A t \in Thread : pc[t] = "insert" => \A r \in shelf_list : ~Match(r, arg[t].key)

ListInv == Entries /\ InSync /\ Threads /\ Turns /\ Shelved

-----------------------------------------------------------------------------
LEMMA InitList ==
  ASSUME Init PROVE ListInv
  BY DEF Init, ListInv, Entries, InSync, Threads, Turns, Shelved, Unmatched

(* An entry keeps its key. *)
LEMMA SameKey ==
  ASSUME NEW e, IsEntry(e), NEW x, NEW m
  PROVE  /\ IsEntry(Compressed(e)) /\ Compressed(e).key = e.key
         /\ IsEntry(Managed(e, x, m)) /\ Managed(e, x, m).key = e.key
         /\ IsEntry(Updated(e, x)) /\ Updated(e, x).key = e.key
<1>1. IsEntry(Compressed(e)) /\ Compressed(e).key = e.key
  BY DEF IsEntry, Compressed
<1>2. IsEntry(Managed(e, x, m)) /\ Managed(e, x, m).key = e.key
  BY DEF IsEntry, Managed
<1>3. IsEntry(Updated(e, x)) /\ Updated(e, x).key = e.key
  <2>1. PICK h : h = <<[timestamp |-> now, severity |-> x]>> \o e.history
    OBVIOUS
  <2>2. Updated(e, x) = [e EXCEPT !.severity = x, !.updated_at = now, !.history = h]
    BY <2>1 DEF Updated
  <2> QED
    BY <2>2 DEF IsEntry
<1> QED
  BY <1>1, <1>2, <1>3

(* refda_alarms_purge_entry *)
LEMMA PurgeInSync ==
  ASSUME Entries, InSync, NEW S \in SUBSET DOMAIN alarm_list, Purge(S)
  PROVE  /\ Entries' /\ InSync'
         /\ DOMAIN alarm_list' = DOMAIN alarm_list \ S
         /\ \A i \in DOMAIN alarm_list' : alarm_list'[i] = alarm_list[i]
<1>1. /\ alarm_list' = [i \in DOMAIN alarm_list \ S |-> alarm_list[i]]
      /\ alarm_index' = [k \in DOMAIN alarm_index \ {alarm_list[i].key : i \in S} |-> alarm_index[k]]
      /\ allotted' = allotted
  BY DEF Purge, Restrict
<1>2. /\ DOMAIN alarm_list' = DOMAIN alarm_list \ S
      /\ \A i \in DOMAIN alarm_list' : alarm_list'[i] = alarm_list[i]
  BY <1>1
<1>3. Entries'
  BY <1>1, <1>2 DEF Entries
<1>4. ASSUME NEW i \in DOMAIN alarm_list'
      PROVE  alarm_list'[i].key \in DOMAIN alarm_index' /\ alarm_index'[alarm_list'[i].key] = i
  <2>1. alarm_list[i].key \in DOMAIN alarm_index /\ alarm_index[alarm_list[i].key] = i
    BY <1>2 DEF InSync
  <2>2. \A j \in S : alarm_list[j].key # alarm_list[i].key
    BY <1>2, <2>1 DEF InSync
  <2> QED
    BY <1>1, <1>2, <2>1, <2>2
<1>5. ASSUME NEW k \in DOMAIN alarm_index'
      PROVE  alarm_index'[k] \in DOMAIN alarm_list' /\ alarm_list'[alarm_index'[k]].key = k
  <2>1. k \in DOMAIN alarm_index /\ alarm_index'[k] = alarm_index[k] /\ \A i \in S : alarm_list[i].key # k
    BY <1>1
  <2>2. alarm_index[k] \in DOMAIN alarm_list /\ alarm_list[alarm_index[k]].key = k
    BY <2>1 DEF InSync
  <2> QED
    BY <1>2, <2>1, <2>2
<1> QED
  BY <1>2, <1>3, <1>4, <1>5 DEF InSync

(* An entry of the list changes, but for its key. *)
LEMMA ChangeInSync ==
  ASSUME Entries, InSync, UNCHANGED <<alarm_index, allotted>>, DOMAIN alarm_list' = DOMAIN alarm_list,
         \A i \in DOMAIN alarm_list : IsEntry(alarm_list'[i]) /\ alarm_list'[i].key = alarm_list[i].key
  PROVE  Entries' /\ InSync'
  BY DEF Entries, InSync

(* refda_alarms_set_refs, its last critical section. *)
LEMMA InsertInSync ==
  ASSUME Entries, InSync, NEW t \in Thread, SetInsert(t)
  PROVE  /\ Entries' /\ InSync'
         /\ \A i \in DOMAIN alarm_list' :
              \/ i \in DOMAIN alarm_list /\ alarm_list'[i].key = alarm_list[i].key
              \/ alarm_list'[i].key = arg[t].key
<1> DEFINE k == arg[t].key
           known == k \in DOMAIN alarm_index
           n == IF known THEN alarm_index[k] ELSE Fresh
           e == IF known THEN alarm_list[n] ELSE NewEntry(k)
<1>1. /\ alarm_list' = [j \in DOMAIN alarm_list \cup {n} |->
                          IF j = n THEN Updated(e, arg[t].severity) ELSE alarm_list[j]]
      /\ alarm_index' = [x \in DOMAIN alarm_index \cup {k} |-> IF x = k THEN n ELSE alarm_index[x]]
      /\ allotted' = IF known THEN allotted ELSE allotted + 1
  BY DEF SetInsert
<1>2. Updated(e, arg[t].severity).key = k /\ IsEntry(Updated(e, arg[t].severity))
  <2>1. IsEntry(e) /\ e.key = k
    BY DEF InSync, Entries, IsEntry, NewEntry
  <2> QED
    BY <2>1, SameKey
<1>3. n \in 1 .. allotted' /\ allotted' \in Nat /\ allotted <= allotted'
  BY <1>1 DEF Entries, InSync, Fresh
<1>4. known => n \in DOMAIN alarm_list /\ alarm_list[n].key = k
  BY DEF InSync
<1>5. ~known => n \notin DOMAIN alarm_list
  BY DEF Entries, Fresh
<1> HIDE DEF known, n, e, k
<1>6. /\ DOMAIN alarm_list' = DOMAIN alarm_list \cup {n} /\ alarm_list'[n].key = k /\ IsEntry(alarm_list'[n])
      /\ \A j \in DOMAIN alarm_list : j # n => alarm_list'[j] = alarm_list[j]
      /\ DOMAIN alarm_index' = DOMAIN alarm_index \cup {k} /\ alarm_index'[k] = n
      /\ \A x \in DOMAIN alarm_index : x # k => alarm_index'[x] = alarm_index[x]
  BY <1>1, <1>2
<1>7. Entries'
  BY <1>3, <1>6 DEF Entries
<1>8. ASSUME NEW i \in DOMAIN alarm_list', i # n
      PROVE  /\ i \in DOMAIN alarm_list /\ alarm_list'[i].key = alarm_list[i].key
             /\ alarm_list[i].key # k
             /\ alarm_list'[i].key \in DOMAIN alarm_index' /\ alarm_index'[alarm_list'[i].key] = i
  <2>1. i \in DOMAIN alarm_list /\ alarm_list'[i] = alarm_list[i]
    BY <1>6, <1>8
  <2>2. alarm_list[i].key \in DOMAIN alarm_index /\ alarm_index[alarm_list[i].key] = i
    BY <2>1 DEF InSync
  <2>3. alarm_list[i].key # k
    <3>1. CASE known
      <4>1. alarm_index[k] = n
        BY <1>4, <3>1 DEF InSync
      <4> QED
        BY <1>8, <2>2, <4>1
    <3>2. CASE ~known
      BY <2>2, <3>2 DEF known
    <3> QED
      BY <3>1, <3>2
  <2> QED
    BY <1>6, <2>1, <2>2, <2>3
<1>9. ASSUME NEW x \in DOMAIN alarm_index', x # k
      PROVE  alarm_index'[x] \in DOMAIN alarm_list' /\ alarm_list'[alarm_index'[x]].key = x
  <2>1. x \in DOMAIN alarm_index /\ alarm_index'[x] = alarm_index[x]
    BY <1>6, <1>9
  <2>2. alarm_index[x] \in DOMAIN alarm_list /\ alarm_list[alarm_index[x]].key = x
    BY <2>1 DEF InSync
  <2>3. alarm_index[x] # n
    BY <1>4, <1>5, <1>9, <2>2
  <2> QED
    BY <1>6, <2>1, <2>2, <2>3
<1>10. InSync'
  BY <1>6, <1>8, <1>9 DEF InSync
<1> QED
  BY <1>6, <1>7, <1>8, <1>10 DEF k

-----------------------------------------------------------------------------
(* The steps.                                                               *)

LEMMA SetCallStep ==
  ASSUME ListInv, NEW t \in Thread, SetCall(t) PROVE ListInv'
<1>1. /\ UNCHANGED <<alarm_list, alarm_index, allotted, shelf_list, seen, concurrent, worker, rows>>
      /\ pc' = [pc EXCEPT ![t] = "lock"] /\ (concurrent \/ Idle)
      /\ \E a : arg' = [arg EXCEPT ![t] = a]
  BY DEF SetCall, alarmVars, shelfVars, workerVars
<1>2. pc'[t] = "lock" /\ \A u \in Thread : u # t => pc'[u] = pc[u]
  BY <1>1 DEF ListInv, Threads
<1>3. Entries' /\ InSync'
  BY <1>1 DEF ListInv, Entries, InSync
<1>4. Threads'
  BY <1>1 DEF ListInv, Threads
<1>5. Turns'
  BY <1>1, <1>2 DEF Turns, Idle
<1>6. Shelved'
  BY <1>1, <1>2 DEF ListInv, Shelved, Idle, Unmatched
<1> QED
  BY <1>3, <1>4, <1>5, <1>6 DEF ListInv

LEMMA SetLockStep ==
  ASSUME ListInv, NEW t \in Thread, SetLock(t) PROVE ListInv'
<1>1. /\ UNCHANGED <<alarm_list, alarm_index, allotted, shelf_list, arg, concurrent, worker, rows>>
      /\ pc[t] = "lock" /\ pc' = [pc EXCEPT ![t] = "scan"] /\ seen' = [seen EXCEPT ![t] = shelf_list]
  BY DEF SetLock, alarmVars, workerVars
<1>2. /\ pc'[t] = "scan" /\ \A u \in Thread : u # t => pc'[u] = pc[u]
      /\ seen'[t] = shelf_list /\ \A u \in Thread : u # t => seen'[u] = seen[u]
  BY <1>1 DEF ListInv, Threads
<1>3. Entries' /\ InSync'
  BY <1>1 DEF ListInv, Entries, InSync
<1>4. Threads'
  BY <1>1 DEF ListInv, Threads
<1>5. Turns'
  BY <1>1, <1>2 DEF ListInv, Turns
<1>6. Shelved'
  BY <1>1, <1>2 DEF ListInv, Shelved, Unmatched
<1> QED
  BY <1>3, <1>4, <1>5, <1>6 DEF ListInv

(* Where calls and controls take turns the shelf is the one the call has     *)
(* seen, and no row of it matches what goes on to be inserted.               *)
LEMMA SetScanStep ==
  ASSUME ListInv, NEW t \in Thread, SetScan(t) PROVE ListInv'
<1>1. PICK found \in Found(t) :
        /\ pc' = [pc EXCEPT ![t] = IF found THEN "idle" ELSE "insert"]
        /\ arg' = IF found THEN [arg EXCEPT ![t] = NoArg] ELSE arg
  BY DEF SetScan
<1>2. /\ UNCHANGED <<alarm_list, alarm_index, allotted, shelf_list, concurrent, worker, rows>>
      /\ pc[t] = "scan" /\ seen' = [seen EXCEPT ![t] = {}]
  BY DEF SetScan, alarmVars, workerVars
<1>3. /\ pc'[t] \in {"idle", "insert"} /\ (pc'[t] = "insert" => ~found /\ arg'[t] = arg[t])
      /\ \A u \in Thread : u # t => pc'[u] = pc[u] /\ arg'[u] = arg[u] /\ seen'[u] = seen[u]
  BY <1>1, <1>2 DEF ListInv, Threads
<1>4. Entries' /\ InSync'
  BY <1>2 DEF ListInv, Entries, InSync
<1>5. Threads'
  BY <1>1, <1>2 DEF ListInv, Threads
<1>6. Turns'
  BY <1>2, <1>3 DEF ListInv, Turns
<1>7. ASSUME ~concurrent, pc'[t] = "insert" PROVE \A r \in shelf_list : ~Match(r, arg[t].key)
  <2>1. seen[t] = shelf_list
    BY <1>2, <1>7 DEF ListInv, Shelved
  <2>2. found = \E r \in shelf_list : Match(r, arg[t].key)
    BY <2>1 DEF Found
  <2> QED
    BY <1>3, <1>7, <2>2
<1>8. Shelved'
  BY <1>2, <1>3, <1>7 DEF ListInv, Shelved, Unmatched
<1> QED
  BY <1>4, <1>5, <1>6, <1>8 DEF ListInv

LEMMA SetInsertStep ==
  ASSUME ListInv, NEW t \in Thread, SetInsert(t) PROVE ListInv'
<1>1. /\ UNCHANGED <<shelf_list, seen, concurrent, worker, rows>> /\ pc[t] = "insert"
      /\ pc' = [pc EXCEPT ![t] = "idle"] /\ arg' = [arg EXCEPT ![t] = NoArg]
  BY DEF SetInsert, shelfVars, workerVars
<1>2. pc'[t] = "idle" /\ \A u \in Thread : u # t => pc'[u] = pc[u] /\ arg'[u] = arg[u]
  BY <1>1 DEF ListInv, Threads
<1>3. /\ Entries' /\ InSync'
      /\ \A i \in DOMAIN alarm_list' :
           \/ i \in DOMAIN alarm_list /\ alarm_list'[i].key = alarm_list[i].key
           \/ alarm_list'[i].key = arg[t].key
  BY InsertInSync DEF ListInv
<1>4. Threads'
  BY <1>1 DEF ListInv, Threads
<1>5. Turns'
  BY <1>1, <1>2 DEF ListInv, Turns
<1>6. Shelved'
  <2> SUFFICES ASSUME ~concurrent PROVE Shelved'
    BY <1>1 DEF Shelved
  <2>1. worker = "idle" /\ \A u \in Thread : u # t => pc[u] = "idle"
    BY <1>1 DEF ListInv, Turns, Threads
  <2>2. \A r \in shelf_list : ~Match(r, arg[t].key) /\ \A i \in DOMAIN alarm_list : ~Match(r, alarm_list[i].key)
    BY <1>1 DEF ListInv, Shelved, Unmatched
  <2>3. \A r \in shelf_list : \A i \in DOMAIN alarm_list' : ~Match(r, alarm_list'[i].key)
    BY <1>3, <2>2
  <2> QED
    BY <1>1, <1>2, <2>1, <2>3 DEF Shelved, Unmatched
<1> QED
  BY <1>3, <1>4, <1>5, <1>6 DEF ListInv

(* A control on the list lists nothing new. *)
LEMMA ControlStep ==
  ASSUME ListInv, PurgeAlarms \/ CompressAlarms \/ SetAlarmsManagerState PROVE ListInv'
<1>1. UNCHANGED <<shelf_list, pc, arg, seen, concurrent, worker, rows>>
  BY DEF PurgeAlarms, CompressAlarms, SetAlarmsManagerState, Control, shelfVars, threadVars, workerVars
<1>2. /\ Entries' /\ InSync'
      /\ \A i \in DOMAIN alarm_list' : i \in DOMAIN alarm_list /\ alarm_list'[i].key = alarm_list[i].key
  <2>1. CASE PurgeAlarms
    <3>1. PICK S \in SUBSET DOMAIN alarm_list : Purge(S)
      BY <2>1 DEF PurgeAlarms
    <3> QED
      BY <3>1, PurgeInSync DEF ListInv
  <2>2. CASE CompressAlarms
    <3>1. /\ UNCHANGED <<alarm_index, allotted>> /\ DOMAIN alarm_list' = DOMAIN alarm_list
          /\ \A i \in DOMAIN alarm_list : alarm_list'[i] \in {alarm_list[i], Compressed(alarm_list[i])}
      BY <2>2 DEF CompressAlarms
    <3>2. \A i \in DOMAIN alarm_list : IsEntry(alarm_list'[i]) /\ alarm_list'[i].key = alarm_list[i].key
      BY <3>1, SameKey DEF ListInv, Entries
    <3> QED
      BY <3>1, <3>2, ChangeInSync DEF ListInv
  <2>3. CASE SetAlarmsManagerState
    <3>1. PICK state, m :
            /\ UNCHANGED <<alarm_index, allotted>> /\ DOMAIN alarm_list' = DOMAIN alarm_list
            /\ \A i \in DOMAIN alarm_list : alarm_list'[i] \in {alarm_list[i], Managed(alarm_list[i], state, m)}
      BY <2>3 DEF SetAlarmsManagerState
    <3>2. ASSUME NEW i \in DOMAIN alarm_list PROVE IsEntry(alarm_list'[i]) /\ alarm_list'[i].key = alarm_list[i].key
      <4>1. PICK e : e = alarm_list[i]
        OBVIOUS
      <4>2. IsEntry(e)
        BY <4>1 DEF ListInv, Entries
      <4>3. IsEntry(Managed(e, state, m)) /\ Managed(e, state, m).key = e.key
        BY <4>2, SameKey
      <4>4. alarm_list'[i] \in {e, Managed(e, state, m)}
        BY <3>1, <4>1
      <4> QED
        BY <4>1, <4>2, <4>3, <4>4
    <3> QED
      BY <3>1, <3>2, ChangeInSync DEF ListInv
  <2> QED
    BY <2>1, <2>2, <2>3
<1>3. Threads' /\ Turns'
  BY <1>1 DEF ListInv, Threads, Turns
<1>4. Shelved'
  BY <1>1, <1>2 DEF ListInv, Shelved, Unmatched
<1> QED
  BY <1>2, <1>3, <1>4 DEF ListInv

(* A control on the shelf begins. *)
LEMMA ShelfBegins ==
  ASSUME ListInv, EnsureShelf \/ DiscardShelf PROVE ListInv'
<1>1. /\ UNCHANGED <<alarm_list, alarm_index, allotted, shelf_list, pc, arg, seen, concurrent>>
      /\ worker' \in {"ensure", "discard"} /\ (concurrent \/ Idle) /\ \E n \in 1 .. MaxRows : rows' \in [1 .. n -> Row]
  BY DEF EnsureShelf, DiscardShelf, Begin, alarmVars, threadVars
<1>2. rows' \in Seq(Row)
  BY <1>1, BoundsAssumption
<1>3. Entries' /\ InSync'
  BY <1>1 DEF ListInv, Entries, InSync
<1>4. Threads' /\ Turns'
  BY <1>1, <1>2 DEF ListInv, Threads, Turns, Idle
<1>5. Shelved'
  BY <1>1 DEF ListInv, Shelved, Unmatched
<1> QED
  BY <1>3, <1>4, <1>5 DEF ListInv

(* What a row matches is purged before the row is on the shelf. *)
LEMMA EnsureRowStep ==
  ASSUME ListInv, EnsureRow PROVE ListInv'
<1>1. /\ UNCHANGED <<shelf_list, pc, arg, seen, concurrent>> /\ worker = "ensure" /\ rows # <<>> /\ rows \in Seq(Row)
  BY DEF EnsureRow, shelfVars, threadVars, ListInv, Threads
<1>2. CASE Head(rows) \in shelf_list
  <2>1. rows' = Tail(rows) /\ UNCHANGED <<worker, alarm_list, alarm_index, allotted>>
    BY <1>2 DEF EnsureRow, alarmVars
  <2>2. rows' \in Seq(Row)
    BY <1>1, <2>1
  <2>3. Entries' /\ InSync'
    BY <2>1 DEF ListInv, Entries, InSync
  <2>4. Threads' /\ Turns'
    BY <1>1, <2>1, <2>2 DEF ListInv, Threads, Turns
  <2>5. Shelved'
    BY <1>1, <2>1 DEF ListInv, Shelved, Unmatched
  <2> QED
    BY <2>3, <2>4, <2>5 DEF ListInv
<1>3. CASE Head(rows) \notin shelf_list
  <2> DEFINE S == {i \in DOMAIN alarm_list : Match(Head(rows), alarm_list[i].key)}
  <2>1. Purge(S) /\ worker' = "push" /\ rows' = rows
    BY <1>3 DEF EnsureRow
  <2>2. /\ Entries' /\ InSync'
        /\ DOMAIN alarm_list' = DOMAIN alarm_list \ S
        /\ \A i \in DOMAIN alarm_list' : alarm_list'[i] = alarm_list[i]
    BY <2>1, PurgeInSync DEF ListInv
  <2>3. Threads' /\ Turns'
    BY <1>1, <2>1 DEF ListInv, Threads, Turns
  <2>4. Unmatched(Head(rows))' /\ \A r \in shelf_list : Unmatched(r) => Unmatched(r)'
    BY <2>1, <2>2 DEF Unmatched
  <2>5. Shelved'
    BY <1>1, <2>1, <2>4 DEF ListInv, Shelved
  <2> QED
    BY <2>2, <2>3, <2>5 DEF ListInv
<1> QED
  BY <1>2, <1>3

LEMMA ShelfStep ==
  ASSUME ListInv, EnsurePush \/ DiscardRow \/ ShelfOver PROVE ListInv'
<1>1. UNCHANGED <<alarm_list, alarm_index, allotted, pc, arg, seen, concurrent>> /\ worker # "idle" /\ worker' # "push"
  BY DEF EnsurePush, DiscardRow, ShelfOver, alarmVars, threadVars
<1>2. rows' \in Seq(Row) /\ worker' \in {"idle", "ensure", "discard"}
  <2>1. rows \in Seq(Row) /\ (worker = "push" => rows # <<>>)
    BY DEF ListInv, Threads
  <2>2. rows' = rows \/ (rows # <<>> /\ rows' = Tail(rows))
    BY <2>1 DEF EnsurePush, DiscardRow, ShelfOver
  <2>3. rows' \in Seq(Row)
    BY <2>1, <2>2
  <2>4. worker' \in {"idle", "ensure", "discard"}
    BY DEF EnsurePush, DiscardRow, ShelfOver
  <2> QED
    BY <2>3, <2>4
<1>3. \A r \in shelf_list' : r \in shelf_list \/ (worker = "push" /\ r = Head(rows))
  BY DEF EnsurePush, DiscardRow, ShelfOver
<1>4. Entries' /\ InSync'
  BY <1>1 DEF ListInv, Entries, InSync
<1>5. Threads' /\ Turns'
  BY <1>1, <1>2 DEF ListInv, Threads, Turns
<1>6. Shelved'
  <2>1. ~concurrent => \A t \in Thread : pc[t] = "idle"
    BY <1>1 DEF ListInv, Turns
  <2> QED
    BY <1>1, <1>3, <2>1 DEF ListInv, Shelved, Unmatched
<1> QED
  BY <1>4, <1>5, <1>6 DEF ListInv

LEMMA StepList ==
  ASSUME ListInv, [Next]_vars PROVE ListInv'
<1>1. ASSUME NEW t \in Thread, Set(t) PROVE ListInv'
  BY <1>1, SetCallStep, SetLockStep, SetScanStep, SetInsertStep DEF Set
<1>2. CASE Worker
  BY <1>2, ControlStep, ShelfBegins, EnsureRowStep, ShelfStep DEF Worker
<1>3. CASE Tick \/ UNCHANGED vars
  <2>1. UNCHANGED <<alarm_list, alarm_index, allotted, shelf_list, pc, arg, seen, concurrent, worker, rows>>
    BY <1>3 DEF Tick, vars, alarmVars, shelfVars, threadVars, workerVars
  <2> QED
    BY <2>1 DEF ListInv, Entries, InSync, Threads, Turns, Shelved, Unmatched
<1> QED
  BY <1>1, <1>2, <1>3 DEF Next

(* Whatever any number of threads in refda_alarms_set_refs and the controls  *)
(* of the exec worker do to the alarm list, its index leads to the entries    *)
(* there are, each under its own key; and where set_refs is only called in    *)
(* the exec worker no row of the shelf matches an alarm that is listed.       *)
THEOREM ListedOnce == Spec => []ListInSync
<1>1. Init => ListInv
  BY InitList
<1>2. ListInv /\ [Next]_vars => ListInv'
  BY StepList
<1>3. ListInv => ListInSync
  BY DEF ListInv, InSync, Shelved, Unmatched, ListInSync
<1> QED
  BY <1>1, <1>2, <1>3, PTL DEF Spec
=============================================================================
