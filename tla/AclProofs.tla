----------------------------- MODULE AclProofs -----------------------------
(* Theorems about Acl, for any groups, managers, entries and contexts.     *)
EXTENDS Acl, TLAPS

Ids == Gid \cup {0}
Contexts == [mgr_ident : Mgr \cup {Agent}, acl_gen : Nat, acl_groups : SUBSET Ids]

-----------------------------------------------------------------------------
(* Types.                                                                  *)

LEMMA GroupType ==
  ASSUME groups \in Seq(Groups)
  PROVE  /\ Len(groups) \in Nat /\ DOMAIN groups = 1 .. Len(groups)
         /\ \A j \in 1 .. Len(groups) : groups[j] \in Groups /\ groups[j].id \in Gid
<1>1. \A j \in 1 .. Len(groups) : groups[j] \in Groups
  OBVIOUS
<1>2. \A e \in Groups : e.id \in Gid
  BY DEF Groups
<1> QED
  BY <1>1, <1>2

LEMMA CheckType ==
  ASSUME TypeOK, NEW c \in Contexts
  PROVE  check_acl(c) \in Contexts
<1>1. search_endpoint(c.mgr_ident) \subseteq Gid
  <2>1. \A j \in 1 .. Len(groups) : groups[j].id \in Gid
    BY GroupType DEF TypeOK
  <2> QED
    BY <2>1 DEF search_endpoint
<1>2. /\ c.mgr_ident \in Mgr \cup {Agent} /\ c.acl_gen \in Nat /\ c.acl_groups \subseteq Ids
      /\ generation \in Nat
  BY DEF Contexts, TypeOK
<1>3. \A m \in Mgr \cup {Agent}, gen \in Nat, gs \in SUBSET Ids : Context(m, gen, gs) \in Contexts
  BY DEF Context, Contexts
<1>4. c.acl_groups \cup {0} \in SUBSET Ids /\ search_endpoint(c.mgr_ident) \in SUBSET Ids
  BY <1>1, <1>2 DEF Ids
<1>5. /\ Context(Agent, 0, c.acl_groups \cup {0}) \in Contexts
      /\ Context(c.mgr_ident, generation, search_endpoint(c.mgr_ident)) \in Contexts
  BY <1>2, <1>3, <1>4
<1> QED
  BY <1>5 DEF check_acl

(* What a step does to the contexts: at most one of them is checked, and   *)
(* what is checked is a context there was or a new one.                    *)
Checked ==
  \/ UNCHANGED ctx
  \/ \E k \in Ctx, c \in Contexts :
       /\ ctx' = [ctx EXCEPT ![k] = check_acl(c)]
       /\ c = ctx[k] \/ \E m \in Mgr \cup {Agent} : c = Context(m, 0, {})

LEMMA StartChecks ==
  ASSUME TypeOK, NEW k \in Ctx, CtrlStart(k)
  PROVE  Checked
<1>1. ctx[k] \in Contexts
  BY DEF TypeOK, Contexts, Ids
<1> QED
  BY <1>1 DEF CtrlStart, Checked

LEMMA StepChecks == TypeOK /\ [Next]_vars => Checked
<1> SUFFICES ASSUME TypeOK, [Next]_vars PROVE Checked
  OBVIOUS
<1>1. ASSUME NEW k \in Ctx, NEW m \in Mgr \cup {Agent}, From(k, m)
      PROVE  Checked
  <2>1. Context(m, 0, {}) \in Contexts
    BY DEF Context, Contexts
  <2> QED
    BY <1>1, <2>1 DEF From, Checked
<1>2. CASE UNCHANGED vars
  BY <1>2 DEF vars, Checked
<1> QED
  BY <1>1, <1>2, StartChecks DEF Next, OtherCtrl, EnsureGroup, EnsureGroupMembers, DiscardGroup,
     EnsureAccess, DiscardAccess

LEMMA CheckedType == TypeOK /\ Checked => ctx' \in [Ctx -> Contexts]
<1> SUFFICES ASSUME TypeOK, Checked PROVE ctx' \in [Ctx -> Contexts]
  OBVIOUS
<1>1. ctx \in [Ctx -> Contexts]
  BY DEF TypeOK, Contexts, Ids
<1>2. ASSUME NEW k \in Ctx, NEW c \in Contexts, ctx' = [ctx EXCEPT ![k] = check_acl(c)]
      PROVE  ctx' \in [Ctx -> Contexts]
  BY <1>1, <1>2, CheckType
<1> QED
  BY <1>1, <1>2 DEF Checked

LEMMA RemoveType ==
  ASSUME NEW S, NEW s \in Seq(S), NEW i \in 1 .. Len(s)
  PROVE  RemoveAt(s, i) \in Seq(S)
  BY DEF RemoveAt

LEMMA RemoveItems ==
  ASSUME NEW S, NEW s \in Seq(S), NEW i \in 1 .. Len(s)
  PROVE  /\ Len(RemoveAt(s, i)) = Len(s) - 1
         /\ \A j \in 1 .. Len(s) - 1 :
              RemoveAt(s, i)[j] = IF j < i THEN s[j] ELSE s[j + 1]
<1> DEFINE a == SubSeq(s, 1, i - 1)
           b == SubSeq(s, i + 1, Len(s))
<1>1. /\ a \in Seq(S) /\ Len(a) = i - 1
      /\ \A j \in 1 .. i - 1 : a[j] = s[j]
  OBVIOUS
<1>2. /\ b \in Seq(S) /\ Len(b) = Len(s) - i
      /\ \A j \in 1 .. Len(s) - i : b[j] = s[i + j]
  OBVIOUS
<1>3. RemoveAt(s, i) = a \o b
  BY DEF RemoveAt
<1> HIDE DEF a, b
<1>4. Len(a \o b) = Len(s) - 1
  BY <1>1, <1>2
<1>5. ASSUME NEW j \in 1 .. Len(s) - 1
      PROVE  (a \o b)[j] = IF j < i THEN s[j] ELSE s[j + 1]
  <2>1. CASE j < i
    BY <1>1, <1>2, <2>1
  <2>2. CASE ~ j < i
    <3>1. (a \o b)[j] = b[j - (i - 1)]
      BY <1>1, <1>2, <2>2
    <3>2. b[j - (i - 1)] = s[i + (j - (i - 1))]
      BY <1>2, <2>2
    <3>3. i + (j - (i - 1)) = j + 1
      OBVIOUS
    <3> QED
      BY <2>2, <3>1, <3>2, <3>3
  <2> QED
    BY <2>1, <2>2
<1> QED
  BY <1>3, <1>4, <1>5

LEMMA ChangeType ==
  ASSUME NEW S, NEW s \in Seq(S), NEW i, NEW x, i \in DOMAIN s => x \in S
  PROVE  [s EXCEPT ![i] = x] \in Seq(S) /\ Len([s EXCEPT ![i] = x]) = Len(s)
<1> DEFINE t == [s EXCEPT ![i] = x]
<1>1. DOMAIN t = 1 .. Len(s) /\ \A j \in 1 .. Len(s) : t[j] \in S
  OBVIOUS
<1>2. t = [j \in 1 .. Len(s) |-> t[j]]
  BY <1>1
<1> HIDE DEF t
<1>3. t \in [1 .. Len(s) -> S]
  BY <1>1, <1>2
<1>4. t \in Seq(S) /\ Len(t) = Len(s)
  BY <1>1, <1>3
<1> QED
  BY <1>4 DEF t
(* As IDs are unique, the first match is the only one. *)
LEMMA OnlyMatch ==
  ASSUME TypeOK, GroupIdsUnique, NEW g, WithId(g) # {}
  PROVE  \E i \in 1 .. Len(groups) : groups[i].id = g /\ Min(WithId(g)) = i
<1>1. PICK i \in 1 .. Len(groups) : groups[i].id = g
  BY DEF WithId
<1>2. WithId(g) = {i}
  BY <1>1 DEF WithId, GroupIdsUnique
<1>3. Len(groups) \in Nat
  BY DEF TypeOK
<1>4. Min({i}) = i
  BY <1>3 DEF Min
<1> QED
  BY <1>1, <1>2, <1>4

(* Renaming a group or giving it other members keeps the IDs. *)
LEMMA ChangeName ==
  ASSUME TypeOK, GroupIdsUnique, NEW x, NEW n \in Name, groups' = [groups EXCEPT ![x].name = n]
  PROVE  groups' \in Seq(Groups) /\ GroupIdsUnique'
<1> DEFINE e == [groups[x] EXCEPT !.name = n]
<1>1. groups \in Seq(Groups)
  BY DEF TypeOK
<1>2. x \in DOMAIN groups => e \in Groups /\ e.id = groups[x].id
  <2>1. \A d \in Groups : [d EXCEPT !.name = n] \in Groups /\ [d EXCEPT !.name = n].id = d.id
    BY DEF Groups
  <2> QED
    BY <1>1, <2>1, GroupType
<1>3. groups' = [groups EXCEPT ![x] = e]
  OBVIOUS
<1> HIDE DEF e
<1>4. groups' \in Seq(Groups) /\ Len(groups') = Len(groups)
  BY <1>1, <1>2, <1>3, ChangeType
<1>5. \A i \in 1 .. Len(groups) : groups'[i].id = groups[i].id
  BY <1>1, <1>2, <1>3, GroupType
<1> QED
  BY <1>4, <1>5 DEF GroupIdsUnique

LEMMA ChangeMembers ==
  ASSUME TypeOK, GroupIdsUnique, NEW x, NEW ms \in SUBSET Mgr,
         groups' = [groups EXCEPT ![x].members = ms]
  PROVE  groups' \in Seq(Groups) /\ GroupIdsUnique'
<1> DEFINE e == [groups[x] EXCEPT !.members = ms]
<1>1. groups \in Seq(Groups)
  BY DEF TypeOK
<1>2. x \in DOMAIN groups => e \in Groups /\ e.id = groups[x].id
  <2>1. \A d \in Groups : [d EXCEPT !.members = ms] \in Groups /\ [d EXCEPT !.members = ms].id = d.id
    BY DEF Groups
  <2> QED
    BY <1>1, <2>1, GroupType
<1>3. groups' = [groups EXCEPT ![x] = e]
  OBVIOUS
<1> HIDE DEF e
<1>4. groups' \in Seq(Groups) /\ Len(groups') = Len(groups)
  BY <1>1, <1>2, <1>3, ChangeType
<1>5. \A i \in 1 .. Len(groups) : groups'[i].id = groups[i].id
  BY <1>1, <1>2, <1>3, GroupType
<1> QED
  BY <1>4, <1>5 DEF GroupIdsUnique

LEMMA EnsureGroupType ==
  ASSUME TypeOK, GroupIdsUnique, NEW k \in Ctx, NEW g \in Ids, NEW n \in Name, EnsureGroup(k, g, n)
  PROVE  groups' \in Seq(Groups) /\ GroupIdsUnique'
<1>1. CASE g = 0
  BY <1>1 DEF EnsureGroup, TypeOK, GroupIdsUnique
<1>2. CASE g # 0 /\ Matching(g, n) = {}
  <2>1. groups' = Append(groups, NewGroup(g, n)) /\ NewGroup(g, n) \in Groups
    BY <1>2 DEF EnsureGroup, NewGroup, Groups, Ids
  <2>2. \A i \in 1 .. Len(groups) : groups[i].id # g
    BY <1>2 DEF Matching
  <2>3. /\ groups' \in Seq(Groups) /\ Len(groups') = Len(groups) + 1 /\ Len(groups) \in Nat
        /\ groups'[Len(groups) + 1].id = g
        /\ \A i \in 1 .. Len(groups) : groups'[i] = groups[i]
    BY <2>1 DEF TypeOK, NewGroup
  <2>4. GroupIdsUnique'
    BY <2>2, <2>3 DEF GroupIdsUnique
  <2> QED
    BY <2>3, <2>4
<1>3. CASE g # 0 /\ Matching(g, n) # {}
  <2> DEFINE x == Max(Matching(g, n))
  <2>1. groups' = [groups EXCEPT ![x].name = n]
    BY <1>3 DEF EnsureGroup
  <2> HIDE DEF x
  <2> QED
    BY <2>1, ChangeName
<1> QED
  BY <1>1, <1>2, <1>3

LEMMA EnsureGroupMembersType ==
  ASSUME TypeOK, GroupIdsUnique, NEW k \in Ctx, NEW g \in Ids, NEW ms \in SUBSET Mgr,
         EnsureGroupMembers(k, g, ms)
  PROVE  groups' \in Seq(Groups) /\ GroupIdsUnique'
<1>1. CASE WithId(g) = {}
  BY <1>1 DEF EnsureGroupMembers, TypeOK, GroupIdsUnique
<1>2. CASE WithId(g) # {}
  <2> DEFINE x == Min(WithId(g))
  <2>1. groups' = [groups EXCEPT ![x].members = ms]
    BY <1>2 DEF EnsureGroupMembers
  <2> HIDE DEF x
  <2> QED
    BY <2>1, ChangeMembers
<1> QED
  BY <1>1, <1>2

LEMMA DiscardGroupType ==
  ASSUME TypeOK, GroupIdsUnique, NEW k \in Ctx, NEW g \in Ids, DiscardGroup(k, g)
  PROVE  groups' \in Seq(Groups) /\ GroupIdsUnique' /\ discarded' \subseteq Gid
<1>1. CASE WithId(g) = {}
  BY <1>1 DEF DiscardGroup, TypeOK, GroupIdsUnique
<1>2. CASE WithId(g) # {}
  <2>1. groups \in Seq(Groups) /\ discarded \subseteq Gid
    BY DEF TypeOK
  <2>2. PICK i \in 1 .. Len(groups) : groups[i].id = g /\ Min(WithId(g)) = i
    BY <1>2, OnlyMatch
  <2>3. groups' = RemoveAt(groups, i) /\ discarded' = discarded \cup {g}
    BY <1>2, <2>2 DEF DiscardGroup
  <2>4. groups' \in Seq(Groups)
    BY <2>1, <2>3, RemoveType
  <2>5. /\ Len(groups') = Len(groups) - 1 /\ Len(groups) \in Nat
        /\ \A j \in 1 .. Len(groups) - 1 : groups'[j] = IF j < i THEN groups[j] ELSE groups[j + 1]
    <3>1. /\ Len(RemoveAt(groups, i)) = Len(groups) - 1
          /\ \A j \in 1 .. Len(groups) - 1 :
               RemoveAt(groups, i)[j] = IF j < i THEN groups[j] ELSE groups[j + 1]
      BY <2>1, RemoveItems, Zenon
    <3>2. Len(groups) \in Nat
      BY <2>1
    <3> QED
      BY <2>3, <3>1, <3>2, Zenon
  <2>6. GroupIdsUnique'
    <3> DEFINE up(j) == IF j < i THEN j ELSE j + 1
    <3>1. \A j \in 1 .. Len(groups') : up(j) \in 1 .. Len(groups) /\ groups'[j] = groups[up(j)]
      BY <2>5
    <3>2. \A j, l \in 1 .. Len(groups') : up(j) = up(l) => j = l
      BY <2>5
    <3> HIDE DEF up
    <3>3. \A j, l \in 1 .. Len(groups') : groups'[j].id = groups'[l].id => j = l
      BY <3>1, <3>2 DEF GroupIdsUnique
    <3> QED
      BY <3>3 DEF GroupIdsUnique
  <2>7. discarded' \subseteq Gid
    BY <2>1, <2>2, <2>3, GroupType
  <2> QED
    BY <2>4, <2>6, <2>7
<1> QED
  BY <1>1, <1>2

Entries == [groups : SUBSET Ids, rights : SUBSET Right]
AccessType == DOMAIN access \subseteq Aid /\ access \in [DOMAIN access -> Entries]
IndexType == access_by_group \in [Ids -> SUBSET Aid]

LEMMA EnsureAccessType ==
  ASSUME AccessType, IndexType, NEW k \in Ctx, NEW a \in Aid, NEW gs \in SUBSET Ids,
         NEW rs \in SUBSET Right, NEW ok \in BOOLEAN, EnsureAccess(k, a, gs, rs, ok)
  PROVE  AccessType' /\ IndexType'
<1> DEFINE e == [groups |-> gs, rights |-> rs]
<1>1. e \in Entries
  BY DEF Entries
<1>2. access' = [b \in DOMAIN access \cup {a} |-> IF b = a THEN e ELSE access[b]]
  BY DEF EnsureAccess
<1> HIDE DEF e
<1>3. AccessType'
  BY <1>1, <1>2 DEF AccessType
<1>4. access_by_group' = Reindexed(a, gs)
  BY DEF EnsureAccess
<1>5. IndexType'
  BY <1>4 DEF IndexType, Reindexed, Unindexed
<1> QED
  BY <1>3, <1>5

LEMMA DiscardAccessType ==
  ASSUME AccessType, IndexType, NEW k \in Ctx, NEW a \in Aid, DiscardAccess(k, a)
  PROVE  AccessType' /\ IndexType'
<1>1. AccessType'
  BY DEF AccessType, DiscardAccess
<1>2. IndexType'
  BY DEF IndexType, DiscardAccess, Unindexed
<1> QED
  BY <1>1, <1>2

TypeInv == TypeOK /\ GroupIdsUnique

LEMMA TypeParts ==
  TypeOK <=> /\ groups \in Seq(Groups) /\ AccessType /\ IndexType
             /\ generation \in Nat /\ ctx \in [Ctx -> Contexts]
             /\ discarded \subseteq Gid /\ result \in {"undefined", "null"}
  BY DEF TypeOK, AccessType, IndexType, Entries, Contexts, Ids

LEMMA TypeInit == Init => TypeInv
<1> SUFFICES ASSUME Init PROVE TypeInv
  OBVIOUS
<1>1. groups \in Seq(Groups) /\ GroupIdsUnique
  BY DEF Init, GroupIdsUnique
<1>2. AccessType
  BY DEF Init, AccessType
<1>3. IndexType
  BY DEF Init, IndexType, Ids
<1>4. ctx \in [Ctx -> Contexts]
  BY DEF Init, Contexts, Context, Ids
<1>5. generation \in Nat /\ discarded \subseteq Gid /\ result \in {"undefined", "null"}
  BY DEF Init
<1> QED
  BY <1>1, <1>2, <1>3, <1>4, <1>5, TypeParts DEF TypeInv

(* What is left of TypeInv when the contexts are known to be typed. *)
TableInv ==
  /\ groups \in Seq(Groups) /\ GroupIdsUnique
  /\ AccessType /\ IndexType
  /\ generation \in Nat /\ discarded \subseteq Gid /\ result \in {"undefined", "null"}

LEMMA TypeStep == TypeInv /\ [Next]_vars => TypeInv'
<1> SUFFICES ASSUME TypeInv, [Next]_vars PROVE TypeInv'
  OBVIOUS
<1>1. TypeOK /\ GroupIdsUnique /\ TableInv
  <2>1. TypeOK /\ GroupIdsUnique
    BY DEF TypeInv
  <2> QED
    BY <2>1, TypeParts, Zenon DEF TableInv
<1>2. ctx' \in [Ctx -> Contexts]
  BY <1>1, StepChecks, CheckedType
<1>3. ASSUME UNCHANGED <<tables, result>>
      PROVE  TableInv'
  BY <1>1, <1>3 DEF tables, TableInv, GroupIdsUnique, AccessType, IndexType
<1>4. ASSUME NEW k \in Ctx, NEW g \in Ids, NEW n \in Name, EnsureGroup(k, g, n)
      PROVE  TableInv'
  <2>1. /\ UNCHANGED <<access, access_by_group, discarded>>
        /\ generation' \in Nat /\ result' \in {"undefined", "null"}
    BY <1>1, <1>4 DEF EnsureGroup, TableInv
  <2>2. groups' \in Seq(Groups) /\ GroupIdsUnique'
    BY <1>1, <1>4, EnsureGroupType
  <2> QED
    BY <1>1, <2>1, <2>2 DEF TableInv, AccessType, IndexType
<1>5. ASSUME NEW k \in Ctx, NEW g \in Ids, NEW ms \in SUBSET Mgr, EnsureGroupMembers(k, g, ms)
      PROVE  TableInv'
  <2>1. /\ UNCHANGED <<access, access_by_group, discarded>>
        /\ generation' \in Nat /\ result' \in {"undefined", "null"}
    BY <1>1, <1>5 DEF EnsureGroupMembers, TableInv
  <2>2. groups' \in Seq(Groups) /\ GroupIdsUnique'
    BY <1>1, <1>5, EnsureGroupMembersType
  <2> QED
    BY <1>1, <2>1, <2>2 DEF TableInv, AccessType, IndexType
<1>6. ASSUME NEW k \in Ctx, NEW g \in Ids, DiscardGroup(k, g)
      PROVE  TableInv'
  <2>1. UNCHANGED access /\ generation' \in Nat /\ result' \in {"undefined", "null"}
    BY <1>1, <1>6 DEF DiscardGroup, TableInv
  <2>2. IndexType'
    BY <1>1, <1>6 DEF DiscardGroup, TableInv, IndexType
  <2>3. groups' \in Seq(Groups) /\ GroupIdsUnique' /\ discarded' \subseteq Gid
    BY <1>1, <1>6, DiscardGroupType
  <2> QED
    BY <1>1, <2>1, <2>2, <2>3 DEF TableInv, AccessType
<1>7. ASSUME NEW k \in Ctx, NEW a \in Aid, NEW gs \in SUBSET Ids, NEW rs \in SUBSET Right,
             NEW ok \in BOOLEAN, EnsureAccess(k, a, gs, rs, ok)
      PROVE  TableInv'
  <2>1. UNCHANGED <<groups, generation, discarded>> /\ result' \in {"undefined", "null"}
    BY <1>7 DEF EnsureAccess
  <2>2. AccessType' /\ IndexType'
    BY <1>1, <1>7, EnsureAccessType DEF TableInv
  <2> QED
    BY <1>1, <2>1, <2>2 DEF TableInv, GroupIdsUnique
<1>8. ASSUME NEW k \in Ctx, NEW a \in Aid, DiscardAccess(k, a)
      PROVE  TableInv'
  <2>1. UNCHANGED <<groups, generation, discarded>> /\ result' \in {"undefined", "null"}
    BY <1>8 DEF DiscardAccess
  <2>2. AccessType' /\ IndexType'
    BY <1>1, <1>8, DiscardAccessType DEF TableInv
  <2> QED
    BY <1>1, <2>1, <2>2 DEF TableInv, GroupIdsUnique
<1>9. TableInv'
  BY <1>3, <1>4, <1>5, <1>6, <1>7, <1>8 DEF Next, From, OtherCtrl, Ids, vars, tables
<1>10. TypeOK'
  <2>1. AccessType' /\ IndexType'
    BY <1>9 DEF TableInv
  <2>2. /\ groups' \in Seq(Groups) /\ generation' \in Nat /\ discarded' \subseteq Gid
        /\ result' \in {"undefined", "null"}
    BY <1>9 DEF TableInv
  <2> QED
    BY <1>2, <2>1, <2>2, Zenon DEF TypeOK, AccessType, IndexType, Entries, Contexts, Ids
<1> QED
  BY <1>9, <1>10 DEF TypeInv, TableInv

(* The tables, the index and the contexts keep their types under every     *)
(* sequence of controls.                                                   *)
THEOREM TypeCorrect == Spec => []TypeOK
<1>1. Spec => []TypeInv
  BY TypeInit, TypeStep, PTL DEF Spec
<1>2. TypeInv => TypeOK
  BY DEF TypeInv
<1> QED
  BY <1>1, <1>2, PTL

(* No two groups ever have the same ID, so the controls that stop at the   *)
(* first match act on the only one.                                        *)
THEOREM IdsUnique == Spec => []GroupIdsUnique
<1>1. Spec => []TypeInv
  BY TypeInit, TypeStep, PTL DEF Spec
<1>2. TypeInv => GroupIdsUnique
  BY DEF TypeInv
<1> QED
  BY <1>1, <1>2, PTL

-----------------------------------------------------------------------------
(* The cached groups.  Every change of the groups is a new generation, so  *)
(* no context has a generation that is still to come, and before the first *)
(* there are no groups.                                                    *)

Good(c) ==
  /\ c.acl_gen <= generation
  /\ c.mgr_ident # Agent /\ c.acl_gen = generation =>
       c.acl_groups = search_endpoint(c.mgr_ident)

CacheInv == (generation = 0 => groups = <<>>) /\ \A k \in Ctx : Good(ctx[k])

LEMMA CheckGood ==
  ASSUME TypeOK, generation = 0 => groups = <<>>, NEW c \in Contexts,
         Good(c) \/ \E m \in Mgr \cup {Agent} : c = Context(m, 0, {})
  PROVE  Good(check_acl(c))
<1>1. generation \in Nat
  BY DEF TypeOK
<1>2. CASE c.mgr_ident = Agent
  BY <1>1, <1>2 DEF check_acl, Context, Good
<1>3. CASE c.mgr_ident # Agent /\ c.acl_gen # generation
  BY <1>1, <1>3 DEF check_acl, Context, Good
<1>4. CASE c.mgr_ident # Agent /\ c.acl_gen = generation
  <2>1. check_acl(c) = c
    BY <1>4 DEF check_acl
  <2>2. ASSUME NEW m \in Mgr \cup {Agent}, c = Context(m, 0, {})
        PROVE  Good(c)
    <3>1. groups = <<>> /\ c.acl_groups = {} /\ c.acl_gen = 0
      BY <1>4, <2>2 DEF Context
    <3>2. search_endpoint(c.mgr_ident) = {}
      BY <3>1 DEF search_endpoint
    <3> QED
      BY <1>1, <1>4, <3>1, <3>2 DEF Good
  <2> QED
    BY <2>1, <2>2
<1> QED
  BY <1>2, <1>3, <1>4

LEMMA CheckedGood ==
  ASSUME TypeOK, CacheInv, Checked
  PROVE  \A j \in Ctx : Good(ctx'[j])
<1>1. \A j \in Ctx : Good(ctx[j])
  BY DEF CacheInv
<1>2. CASE UNCHANGED ctx
  BY <1>1, <1>2
<1>3. ASSUME NEW k \in Ctx, NEW c \in Contexts, ctx' = [ctx EXCEPT ![k] = check_acl(c)],
             c = ctx[k] \/ \E m \in Mgr \cup {Agent} : c = Context(m, 0, {})
      PROVE  \A j \in Ctx : Good(ctx'[j])
  <2>1. Good(check_acl(c))
    BY <1>1, <1>3, CheckGood DEF CacheInv
  <2>2. \A j \in Ctx : ctx'[j] = IF j = k THEN check_acl(c) ELSE ctx[j]
    BY <1>3 DEF TypeOK
  <2> QED
    BY <1>1, <2>1, <2>2
<1> QED
  BY <1>2, <1>3 DEF Checked

LEMMA GenerationStep ==
  ASSUME TypeOK, [Next]_vars
  PROVE  UNCHANGED <<groups, generation>> \/ generation' = generation + 1
  BY DEF Next, From, OtherCtrl, EnsureGroup, EnsureGroupMembers, DiscardGroup, EnsureAccess,
     DiscardAccess, vars, tables

LEMMA CacheStep == TypeInv /\ CacheInv /\ [Next]_vars => CacheInv'
<1> SUFFICES ASSUME TypeInv, CacheInv, [Next]_vars PROVE CacheInv'
  OBVIOUS
<1>1. TypeOK /\ generation \in Nat /\ ctx' \in [Ctx -> Contexts]
  BY StepChecks, CheckedType DEF TypeInv, TypeOK
<1>2. \A j \in Ctx : Good(ctx'[j])
  BY <1>1, StepChecks, CheckedGood
<1>3. CASE UNCHANGED <<groups, generation>>
  BY <1>2, <1>3 DEF CacheInv, Good, search_endpoint
<1>4. CASE generation' = generation + 1
  <2>1. \A j \in Ctx : ctx'[j].acl_gen \in Nat /\ ctx'[j].acl_gen <= generation
    BY <1>1, <1>2 DEF Good, Contexts
  <2>2. \A j \in Ctx : ctx'[j].acl_gen <= generation' /\ ctx'[j].acl_gen # generation'
    BY <1>1, <1>4, <2>1
  <2> QED
    BY <1>1, <1>4, <2>2 DEF CacheInv, Good
<1> QED
  BY <1>1, <1>3, <1>4, GenerationStep

(* The groups a context has cached, when its generation is current, are    *)
(* the ones a search would find.                                           *)
THEOREM CoherentCache == Spec => []CacheCoherent
<1>1. Init => CacheInv
  <2> SUFFICES ASSUME Init PROVE CacheInv
    OBVIOUS
  <2> QED
    BY DEF Init, CacheInv, Good, Context
<1>2. CacheInv => CacheCoherent
  BY DEF CacheInv, Good, CacheCoherent
<1> QED
  BY <1>1, <1>2, TypeInit, TypeStep, CacheStep, PTL DEF Spec

-----------------------------------------------------------------------------
(* The index.                                                              *)

LEMMA UnindexedAt ==
  ASSUME IndexType, NEW a, NEW g \in Ids
  PROVE  Unindexed(a)[g] = access_by_group[g] \ {a}
  BY DEF IndexType, Unindexed

LEMMA IndexStep == TypeInv /\ IndexInSync /\ [Next]_vars => IndexInSync'
<1> SUFFICES ASSUME TypeInv, IndexInSync, [Next]_vars PROVE IndexInSync'
  OBVIOUS
<1>1. AccessType /\ IndexType /\ discarded \subseteq Gid
  BY TypeParts, Zenon DEF TypeInv
<1>2. /\ \A g \in Ids : \A a \in access_by_group[g] : a \in DOMAIN access /\ g \in access[a].groups
      /\ \A a \in DOMAIN access : \A g \in access[a].groups \ discarded : a \in access_by_group[g]
  BY DEF IndexInSync, IndexSound, IndexComplete, Ids
<1>3. ASSUME UNCHANGED <<access, access_by_group, discarded>>
      PROVE  IndexInSync'
  BY <1>2, <1>3 DEF IndexInSync, IndexSound, IndexComplete, Ids
<1>4. ASSUME NEW k \in Ctx, NEW g \in Ids, DiscardGroup(k, g)
      PROVE  IndexInSync'
  <2>1. CASE WithId(g) = {}
    BY <1>3, <1>4, <2>1 DEF DiscardGroup
  <2>2. CASE WithId(g) # {}
    <3>1. /\ UNCHANGED access /\ discarded' = discarded \cup {g}
          /\ \A h \in Ids : access_by_group'[h] = IF h = g THEN {} ELSE access_by_group[h]
      BY <1>1, <1>4, <2>2 DEF DiscardGroup, IndexType
    <3>2. IndexSound'
      BY <1>2, <3>1 DEF IndexSound, Ids
    <3>3. \A a \in DOMAIN access : access[a].groups \subseteq Ids
      BY <1>1 DEF AccessType, Entries
    <3>4. IndexComplete'
      BY <1>2, <3>1, <3>3 DEF IndexComplete
    <3> QED
      BY <3>2, <3>4 DEF IndexInSync
  <2> QED
    BY <2>1, <2>2
<1>5. ASSUME NEW k \in Ctx, NEW a \in Aid, NEW gs \in SUBSET Ids, NEW rs \in SUBSET Right,
             NEW ok \in BOOLEAN, EnsureAccess(k, a, gs, rs, ok)
      PROVE  IndexInSync'
  <2>1. /\ DOMAIN access' = DOMAIN access \cup {a} /\ access'[a].groups = gs
        /\ \A b \in DOMAIN access : b # a => access'[b] = access[b]
        /\ UNCHANGED discarded
    BY <1>5 DEF EnsureAccess
  <2>2. \A g \in Ids :
          access_by_group'[g] = IF g \in gs THEN (access_by_group[g] \ {a}) \cup {a}
                                ELSE access_by_group[g] \ {a}
    <3>1. access_by_group' = Reindexed(a, gs)
      BY <1>5 DEF EnsureAccess
    <3> SUFFICES ASSUME NEW g \in Ids
                 PROVE  access_by_group'[g] = IF g \in gs THEN (access_by_group[g] \ {a}) \cup {a}
                                              ELSE access_by_group[g] \ {a}
      OBVIOUS
    <3>2. Reindexed(a, gs)[g] = IF g \in gs THEN (access_by_group[g] \ {a}) \cup {a}
                                ELSE access_by_group[g] \ {a}
      BY <1>1 DEF IndexType, Reindexed, Unindexed
    <3> QED
      BY <3>1, <3>2, Zenon
  <2>3. IndexSound'
    <3> SUFFICES ASSUME NEW g \in Ids, NEW b \in access_by_group'[g]
                 PROVE  b \in DOMAIN access' /\ g \in access'[b].groups
      BY DEF IndexSound, Ids
    <3>1. CASE b = a
      BY <2>1, <2>2, <3>1
    <3>2. CASE b # a
      <4>1. b \in access_by_group[g]
        BY <2>2, <3>2
      <4>2. b \in DOMAIN access /\ g \in access[b].groups
        BY <1>2, <4>1
      <4> QED
        BY <2>1, <3>2, <4>2
    <3> QED
      BY <3>1, <3>2
  <2>4. \A b \in DOMAIN access : access[b].groups \subseteq Ids
    BY <1>1 DEF AccessType, Entries
  <2>5. IndexComplete'
    BY <1>2, <2>1, <2>2, <2>4 DEF IndexComplete
  <2> QED
    BY <2>3, <2>5 DEF IndexInSync
<1>6. ASSUME NEW k \in Ctx, NEW a \in Aid, DiscardAccess(k, a)
      PROVE  IndexInSync'
  <2>1. /\ DOMAIN access' = DOMAIN access \ {a}
        /\ \A b \in DOMAIN access : b # a => access'[b] = access[b]
        /\ UNCHANGED discarded
    BY <1>6 DEF DiscardAccess
  <2>2. \A g \in Ids : access_by_group'[g] = access_by_group[g] \ {a}
    <3>1. CASE a \in DOMAIN access
      <4>1. access_by_group' = Unindexed(a)
        BY <1>6, <3>1 DEF DiscardAccess
      <4> QED
        BY <1>1, <4>1, UnindexedAt
    <3>2. CASE a \notin DOMAIN access
      <4>1. access_by_group' = access_by_group
        BY <1>6, <3>2 DEF DiscardAccess
      <4> QED
        BY <1>2, <3>2, <4>1
    <3> QED
      BY <3>1, <3>2
  <2>3. IndexSound'
    BY <1>2, <2>1, <2>2 DEF IndexSound, Ids
  <2>4. \A b \in DOMAIN access : access[b].groups \subseteq Ids
    BY <1>1 DEF AccessType, Entries
  <2>5. IndexComplete'
    BY <1>2, <2>1, <2>2, <2>4 DEF IndexComplete
  <2> QED
    BY <2>3, <2>5 DEF IndexInSync
<1> QED
  BY <1>3, <1>4, <1>5, <1>6 DEF Next, From, OtherCtrl, EnsureGroup, EnsureGroupMembers, Ids, vars,
     tables

(* The index points only to entries of the access table that list the      *)
(* group, and an entry is found by every group it lists that was never     *)
(* discarded.                                                              *)
THEOREM ExactIndex == Spec => []IndexInSync
<1>1. Init => IndexInSync
  BY DEF Init, IndexInSync, IndexSound, IndexComplete
<1> QED
  BY <1>1, TypeInit, TypeStep, IndexStep, PTL DEF Spec

-----------------------------------------------------------------------------
(* The lookups.                                                            *)

Zero(c) == IF c.mgr_ident = Agent THEN c.acl_groups = {0} ELSE 0 \notin c.acl_groups

LEMMA CheckZero ==
  ASSUME TypeOK, NEW c \in Contexts,
         Zero(c) \/ \E m \in Mgr \cup {Agent} : c = Context(m, 0, {})
  PROVE  Zero(check_acl(c))
<1>1. CASE c.mgr_ident = Agent
  BY <1>1 DEF check_acl, Context, Zero
<1>2. CASE c.mgr_ident # Agent /\ c.acl_gen # generation
  <2>1. 0 \notin search_endpoint(c.mgr_ident)
    <3>1. \A j \in 1 .. Len(groups) : groups[j].id \in Gid
      BY GroupType DEF TypeOK
    <3> QED
      BY <3>1, GidAssumption DEF search_endpoint
  <2> QED
    BY <1>2, <2>1 DEF check_acl, Context, Zero
<1>3. CASE c.mgr_ident # Agent /\ c.acl_gen = generation
  BY <1>3 DEF check_acl, Context, Zero
<1> QED
  BY <1>1, <1>2, <1>3

LEMMA ZeroStep == TypeInv /\ GroupZeroIsAgent /\ [Next]_vars => GroupZeroIsAgent'
<1> SUFFICES ASSUME TypeOK, GroupZeroIsAgent, Checked PROVE GroupZeroIsAgent'
  BY StepChecks DEF TypeInv
<1>1. \A j \in Ctx : Zero(ctx[j])
  BY DEF GroupZeroIsAgent, Zero
<1>2. ASSUME NEW k \in Ctx, NEW c \in Contexts, ctx' = [ctx EXCEPT ![k] = check_acl(c)],
             c = ctx[k] \/ \E m \in Mgr \cup {Agent} : c = Context(m, 0, {})
      PROVE  \A j \in Ctx : Zero(ctx'[j])
  <2>1. Zero(check_acl(c))
    BY <1>1, <1>2, CheckZero
  <2>2. \A j \in Ctx : ctx'[j] = IF j = k THEN check_acl(c) ELSE ctx[j]
    BY <1>2 DEF TypeOK
  <2> QED
    BY <1>1, <2>1, <2>2
<1>3. \A j \in Ctx : Zero(ctx'[j])
  BY <1>1, <1>2 DEF Checked
<1> QED
  BY <1>3 DEF GroupZeroIsAgent, Zero

(* Group 0 is the agent's own and no manager's. *)
THEOREM ZeroIsAgent == Spec => []GroupZeroIsAgent
<1>1. Init => GroupZeroIsAgent
  BY DEF Init, Context, GroupZeroIsAgent
<1> QED
  BY <1>1, TypeInit, TypeStep, ZeroStep, PTL DEF Spec

(* A context that is up to date is granted only what the tables say. *)
THEOREM GrantsSound == Spec => []GrantsFromTables
<1>1. Init => IndexInSync /\ CacheInv /\ GroupZeroIsAgent
  <2> SUFFICES ASSUME Init PROVE IndexInSync /\ CacheInv /\ GroupZeroIsAgent
    OBVIOUS
  <2>1. IndexInSync
    BY DEF Init, IndexInSync, IndexSound, IndexComplete
  <2>2. CacheInv
    BY DEF Init, CacheInv, Good, Context
  <2>3. GroupZeroIsAgent
    BY DEF Init, Context, GroupZeroIsAgent
  <2> QED
    BY <2>1, <2>2, <2>3
<1>2. TypeInv /\ IndexInSync /\ CacheInv /\ GroupZeroIsAgent => GrantsFromTables
  <2> SUFFICES ASSUME TypeInv, IndexInSync, CacheInv, GroupZeroIsAgent, NEW k \in Ctx, NEW r \in Right,
                      ctx[k].mgr_ident # Agent, ctx[k].acl_gen = generation,
                      search_permission(ctx[k].acl_groups, r)
               PROVE  Granted(ctx[k].mgr_ident, r)
    BY DEF GrantsFromTables
  <2> DEFINE m == ctx[k].mgr_ident
  <2>1. ctx[k].acl_groups = search_endpoint(m)
    BY DEF CacheInv, Good
  <2>2. 0 \notin ctx[k].acl_groups
    BY DEF GroupZeroIsAgent
  <2>3. PICK g \in ctx[k].acl_groups : \E a \in access_by_group[g] : r \in access[a].rights
    BY <2>2 DEF search_permission
  <2>4. PICK i \in 1 .. Len(groups) : groups[i].id = g /\ m \in groups[i].members
    BY <2>1, <2>3 DEF search_endpoint
  <2>5. g \in Ids
    BY <2>4, GroupType DEF TypeInv, TypeOK, Ids
  <2>6. PICK a \in access_by_group[g] : r \in access[a].rights
    BY <2>3
  <2>7. a \in DOMAIN access /\ g \in access[a].groups
    BY <2>5, <2>6 DEF IndexInSync, IndexSound, Ids
  <2> QED
    BY <2>4, <2>6, <2>7 DEF Granted
<1> QED
  BY <1>1, <1>2, TypeInit, TypeStep, IndexStep, CacheStep, ZeroStep, PTL DEF Spec
=============================================================================
