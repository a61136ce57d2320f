-------------------------------- MODULE Acl --------------------------------
(***************************************************************************)
(* The access control list of the agent (acl.c), the controls that change  *)
(* it (adm/ietf_dtnma_agent_acl.c) and what is derived from it: the index  *)
(* access_by_group and the groups each execution context keeps of its      *)
(* manager (runctx.c, ctrl_exec_ctx.c, reporting_ctx.c).                   *)
(*                                                                         *)
(* Every action is one control, or one use of a context, in the exec       *)
(* worker; acl_mutex is held throughout.  The filter of a group is the set *)
(* of managers it matches and an access entry gives rights, pairs of a     *)
(* target its filter matches and a permission; a filter that cannot be     *)
(* evaluated matches nothing.  Entries of the index are pointers into the  *)
(* access table, here the IDs of what they point to.                       *)
(***************************************************************************)
EXTENDS Integers, Sequences, SequencesExt, FiniteSetsExt

CONSTANTS
  Gid,        \* group IDs managers use; 0 is the agent's own group
  Name,       \* group names
  Mgr,        \* managers, by their endpoint
  Aid,        \* access entry IDs
  Right,      \* what a permission is looked up for
  Ctx,        \* execution and reporting contexts
  MaxGen      \* bound on generation

Agent == "agent"   \* mgr_ident of an agent-directed context is undefined

ASSUME GidAssumption == Gid \subseteq Nat \ {0}
ASSUME MgrAssumption == Agent \notin Mgr
ASSUME MaxGenAssumption == MaxGen \in Nat

VARIABLES
  groups, access,         \* agent->acl.groups, access
  access_by_group,        \* agent->acl.access_by_group, empty where it has no key
  generation,             \* agent->acl.generation
  ctx,                    \* refda_runctx_t: mgr_ident, acl_gen, acl_groups
  discarded,              \* groups that have been discarded (history)
  result                  \* what the last control gave

tables == <<groups, access, access_by_group, generation, discarded>>
vars == <<groups, access, access_by_group, generation, ctx, discarded, result>>

Groups == [id : Gid, name : Name, members : SUBSET Mgr]
NoAccess == [groups |-> {}, rights |-> {}]
-----------------------------------------------------------------------------
(* refda_acl_search_endpoint *)
search_endpoint(m) == {groups[i].id : i \in {j \in 1 .. Len(groups) : m \in groups[j].members}}

(* Mutant: the entries of every group are looked at. *)
search_permission_all(gs, r) ==
  0 \in gs \/ \E g \in Gid : \E a \in access_by_group[g] : r \in access[a].rights

(* refda_acl_search_permission for one right: by the index, and whatever   *)
(* it is for group 0.                                                      *)
search_permission(gs, r) ==
  0 \in gs \/ \E g \in gs : \E a \in access_by_group[g] : r \in access[a].rights

Context(m, gen, gs) == [mgr_ident |-> m, acl_gen |-> gen, acl_groups |-> gs]

(* refda_runctx_check_acl *)
check_acl(c) ==
  IF c.mgr_ident = Agent THEN Context(Agent, 0, c.acl_groups \cup {0})
  ELSE IF c.acl_gen # generation
  THEN Context(c.mgr_ident, generation, search_endpoint(c.mgr_ident))
  ELSE c

Init ==
  /\ groups = <<>> /\ access = [a \in {} |-> NoAccess]
  /\ access_by_group = [g \in Gid \cup {0} |-> {}]
  /\ generation = 0
  /\ ctx = [k \in Ctx |-> Context(Agent, 0, {0})]
  /\ discarded = {} /\ result = "undefined"

(* refda_runctx_init and refda_runctx_from; refda_reporting_ctx_init does  *)
(* the same for the manager of a report.                                   *)
From(k, m) ==
  /\ ctx' = [ctx EXCEPT ![k] = check_acl(Context(m, 0, {}))]
  /\ UNCHANGED <<tables, result>>

(* refda_ctrl_exec_ctx_init: a control of context k starts. *)
CtrlStart(k) == ctx' = [ctx EXCEPT ![k] = check_acl(@)]

(* ... and is none of the ones below. *)
OtherCtrl(k) == CtrlStart(k) /\ UNCHANGED <<tables, result>>
-----------------------------------------------------------------------------
(* The group a name or an ID selects in ensure-group: the last one that    *)
(* has either, as both matches are stored in found_id.                     *)
Matching(g, n) == {i \in 1 .. Len(groups) : groups[i].id = g \/ groups[i].name = n}

NewGroup(g, n) == [id |-> g, name |-> n, members |-> {}]

(* ensure-group *)
EnsureGroup(k, g, n) ==
  /\ CtrlStart(k)
  /\ IF g = 0
     THEN result' = "undefined" /\ UNCHANGED <<groups, generation>>
     ELSE /\ generation' = generation + 1
          /\ groups' = IF Matching(g, n) = {} THEN Append(groups, NewGroup(g, n))
                       ELSE [groups EXCEPT ![Max(Matching(g, n))].name = n]
          /\ result' = "null"
  /\ UNCHANGED <<access, access_by_group, discarded>>

WithId(g) == {i \in 1 .. Len(groups) : groups[i].id = g}

(* Mutant: the generation is not bumped. *)
EnsureGroupMembersUnseen(k, g, ms) ==
  /\ CtrlStart(k)
  /\ IF WithId(g) = {} THEN result' = "undefined" /\ UNCHANGED groups
     ELSE groups' = [groups EXCEPT ![Min(WithId(g))].members = ms] /\ result' = "null"
  /\ UNCHANGED <<access, access_by_group, discarded, generation>>

(* ensure-group-members; there is no group 0 to be found. *)
EnsureGroupMembers(k, g, ms) ==
  /\ CtrlStart(k)
  /\ IF WithId(g) = {}
     THEN result' = "undefined" /\ UNCHANGED <<groups, generation>>
     ELSE /\ generation' = generation + 1
          /\ groups' = [groups EXCEPT ![Min(WithId(g))].members = ms]
          /\ result' = "null"
  /\ UNCHANGED <<access, access_by_group, discarded>>

(* discard-group: the access entries keep the ID, the index does not. *)
DiscardGroup(k, g) ==
  /\ CtrlStart(k)
  /\ IF WithId(g) = {}
     THEN UNCHANGED <<groups, generation, access_by_group, discarded>>
     ELSE /\ generation' = generation + 1
          /\ groups' = RemoveAt(groups, Min(WithId(g)))
          /\ access_by_group' = [access_by_group EXCEPT ![g] = {}]
          /\ discarded' = discarded \cup {g}
  /\ result' = "null"
  /\ UNCHANGED access

(* refda_acl_pre_remove_access *)
Unindexed(a) == [g \in DOMAIN access_by_group |-> access_by_group[g] \ {a}]

(* ... and then refda_acl_post_add_access *)
Reindexed(a, gs) ==
  [g \in DOMAIN access_by_group |->
     IF g \in gs THEN Unindexed(a)[g] \cup {a} ELSE Unindexed(a)[g]]

(* ensure-access: the groups need not exist.  A permission that does not   *)
(* exist makes the control fail but the entry is made.  The generation     *)
(* stays.                                                                  *)
EnsureAccess(k, a, gs, rs, ok) ==
  /\ CtrlStart(k)
  /\ access' = [b \in DOMAIN access \cup {a} |->
                  IF b = a THEN [groups |-> gs, rights |-> rs] ELSE access[b]]
  /\ access_by_group' = Reindexed(a, gs)
  /\ result' = IF ok THEN "null" ELSE "undefined"
  /\ UNCHANGED <<groups, generation, discarded>>

(* Mutant: the index keeps its pointer to the removed entry. *)
DiscardAccessStaysIndexed(k, a) ==
  /\ CtrlStart(k)
  /\ access' = [b \in DOMAIN access \ {a} |-> access[b]]
  /\ result' = "null"
  /\ UNCHANGED <<groups, generation, access_by_group, discarded>>

(* discard-access *)
DiscardAccess(k, a) ==
  /\ CtrlStart(k)
  /\ access' = [b \in DOMAIN access \ {a} |-> access[b]]
  /\ access_by_group' = IF a \in DOMAIN access THEN Unindexed(a) ELSE access_by_group
  /\ result' = "null"
  /\ UNCHANGED <<groups, generation, discarded>>

Bounded == generation < MaxGen

Next ==
  \/ \E k \in Ctx, m \in Mgr \cup {Agent} : From(k, m)
  \/ \E k \in Ctx : OtherCtrl(k)
  \/ Bounded /\ \E k \in Ctx, g \in Gid \cup {0}, n \in Name : EnsureGroup(k, g, n)
  \/ Bounded /\ \E k \in Ctx, g \in Gid \cup {0}, ms \in SUBSET Mgr : EnsureGroupMembers(k, g, ms)
  \/ Bounded /\ \E k \in Ctx, g \in Gid \cup {0} : DiscardGroup(k, g)
  \/ \E k \in Ctx, a \in Aid, gs \in SUBSET (Gid \cup {0}), rs \in SUBSET Right, ok \in BOOLEAN :
       EnsureAccess(k, a, gs, rs, ok)
  \/ \E k \in Ctx, a \in Aid : DiscardAccess(k, a)

Spec == Init /\ [][Next]_vars
-----------------------------------------------------------------------------
(* Type invariant. *)
TypeOK ==
  /\ groups \in Seq(Groups)
  /\ DOMAIN access \subseteq Aid
  /\ access \in [DOMAIN access -> [groups : SUBSET (Gid \cup {0}), rights : SUBSET Right]]
  /\ access_by_group \in [Gid \cup {0} -> SUBSET Aid]
  /\ generation \in Nat
  /\ ctx \in [Ctx -> [mgr_ident : Mgr \cup {Agent}, acl_gen : Nat,
                      acl_groups : SUBSET (Gid \cup {0})]]
  /\ discarded \subseteq Gid /\ result \in {"undefined", "null"}

(* acl.h: a change of the ACL bumps the generation and so invalidates any  *)
(* "derived-and-cached group" data.  A context whose acl_gen is current    *)
(* has the groups a search would give it now, in spite of every group      *)
(* made, renamed, refilled and discarded since it searched.                *)
CacheCoherent ==
  \A k \in Ctx :
    ctx[k].mgr_ident # Agent /\ ctx[k].acl_gen = generation =>
      ctx[k].acl_groups = search_endpoint(ctx[k].mgr_ident)

(* Nobody but the agent itself gets group 0, which has all access: an      *)
(* agent-directed context has it and no other group, a manager's does not. *)
GroupZeroIsAgent ==
  \A k \in Ctx : IF ctx[k].mgr_ident = Agent THEN ctx[k].acl_groups = {0}
                 ELSE 0 \notin ctx[k].acl_groups

(* The index points only to entries that are in the access table and list  *)
(* the group: refda_acl_search_permission follows no pointer to an entry   *)
(* discard-access removed, nor one ensure-access moved to other groups.    *)
IndexSound ==
  \A g \in Gid \cup {0} : \A a \in access_by_group[g] :
    a \in DOMAIN access /\ g \in access[a].groups

(* acl.h: access_by_group is "kept in sync with #groups and #access".  An  *)
(* entry is found by every group it lists that was never discarded.        *)
IndexComplete ==
  \A a \in DOMAIN access : \A g \in access[a].groups \ discarded : a \in access_by_group[g]

(* The index by group and the access table agree, in both ways.            *)
IndexInSync == IndexSound /\ IndexComplete

(* What the lookups grant a context that is up to date is what the tables  *)
(* say: an entry with the right lists a group the manager is a member of.  *)
Granted(m, r) ==
  \E i \in 1 .. Len(groups), a \in DOMAIN access :
    m \in groups[i].members /\ groups[i].id \in access[a].groups /\ r \in access[a].rights

GrantsFromTables ==
  \A k \in Ctx, r \in Right :
    /\ ctx[k].mgr_ident # Agent /\ ctx[k].acl_gen = generation
    /\ search_permission(ctx[k].acl_groups, r)
    => Granted(ctx[k].mgr_ident, r)

(* acl.h: the ID of a group is unique; ensure-group-members and            *)
(* discard-group stop at the first match.                                  *)
GroupIdsUnique ==
  \A i, j \in 1 .. Len(groups) : groups[i].id = groups[j].id => i = j

=============================================================================
