---------------------------- MODULE StoreProofs ----------------------------
(***************************************************************************)
(* What was added to the object store is found, for any identities and any  *)
(* number of organisations, namespaces and objects.                         *)
(*                                                                         *)
(* cace_amm_obj_store_find_ns and cace_amm_obj_ns_find_obj_* return the one  *)
(* that the container has under a key, so that what matters is that keys    *)
(* stay unique where they are compared before an insertion, and that the    *)
(* enumeration of an organisation leads to it until another takes it.       *)
(***************************************************************************)
EXTENDS Store, TLAPS

NsRec == [org : Nat, org_id : OrgIds, model_id : ModelIds, status : {"CURRENT", "OBSOLETE"}]
ObjRec == [ns : Nat, typ : ObjTypes, id : ObjIds, status : {"CURRENT", "OBSOLETE"}]
StoreType ==
  /\ orgs \in Seq(OrgIds)
  /\ org_by_enum \in [OrgEnums -> Nat]
  /\ nss \in Seq(NsRec)
  /\ objs \in Seq(ObjRec)

OrgNamesUnique == \A i, j \in DOMAIN orgs : orgs[i].name = orgs[j].name => i = j
OrgOfNs == \A n \in DOMAIN nss : nss[n].org \in DOMAIN orgs
ModelsUnique ==
  \A m, n \in DOMAIN nss : m # n /\ nss[m].org = nss[n].org => Distinct(nss[m].model_id, nss[n].model_id)
ObjsUnique ==
  \A o, p \in DOMAIN objs : o # p /\ objs[o].ns = objs[p].ns /\ objs[o].typ = objs[p].typ
                              => Distinct(objs[o].id, objs[p].id)
EnumLeads ==
  \A i \in DOMAIN orgs : orgs[i].has_intenum /\ ~Claimed(i) => org_by_enum[orgs[i].intenum] = i

StoreInv == StoreType /\ OrgNamesUnique /\ OrgOfNs /\ ModelsUnique /\ ObjsUnique /\ EnumLeads

-----------------------------------------------------------------------------

(* CHOOSE from a set of one. *)
LEMMA OneOfOne == ASSUME NEW x PROVE One({x}) = x
  BY DEF One

LEMMA DistinctSymmetric ==
  ASSUME NEW a, NEW b, Distinct(a, b) PROVE Distinct(b, a)
  BY DEF Distinct

(* A name or an enumeration picks one of several distinct identities.        *)
LEMMA DistinctNames ==
  ASSUME NEW a, NEW b, a.has_intenum \in BOOLEAN, b.has_intenum \in BOOLEAN, Distinct(a, b)
  PROVE  /\ ~Names(TextId(a.name), b)
         /\ a.has_intenum => ~Names(IntId(a.intenum), b)
         /\ Names(TextId(a.name), a)
         /\ a.has_intenum => Names(IntId(a.intenum), a)
  BY DEF Distinct, Names, TextId, IntId, cace_amm_idseg_val_match_int

(* The elements of the lists. *)
LEMMA Elements ==
  ASSUME StoreInv
  PROVE  /\ nss \in Seq(NsRec) /\ DOMAIN nss = 1..Len(nss) /\ Len(nss) \in Nat
         /\ objs \in Seq(ObjRec) /\ DOMAIN objs = 1..Len(objs) /\ Len(objs) \in Nat
         /\ \A n \in DOMAIN nss : nss[n] \in NsRec
         /\ \A o \in DOMAIN objs : objs[o] \in ObjRec
  BY DEF StoreInv, StoreType

LEMMA InitInv == StoreInit => StoreInv
  BY DEF StoreInit, StoreInv, StoreType, OrgNamesUnique, OrgOfNs, ModelsUnique, ObjsUnique, EnumLeads

(* find_org_name returns the organisation with the name, if there is one.    *)
LEMMA NameFound ==
  ASSUME StoreInv, NEW i \in DOMAIN orgs PROVE find_org_name(orgs[i].name) = i
  <1>1. {j \in DOMAIN orgs : orgs[j].name = orgs[i].name} = {i}
    BY DEF StoreInv, OrgNamesUnique
  <1> QED BY <1>1, OneOfOne DEF find_org_name

LEMMA KnownIsOrg ==
  ASSUME StoreInv, NEW id \in OrgIds
  PROVE  /\ KnownOrg(id) => OrgOf(id) \in DOMAIN orgs
         /\ ~KnownOrg(id) => OrgOf(id) = Len(orgs) + 1 /\ \A i \in DOMAIN orgs : orgs[i].name # id.name
  <1> DEFINE S == {i \in DOMAIN orgs : orgs[i].name = id.name}
  <1>1. ASSUME S = {} PROVE ~KnownOrg(id)
    BY <1>1 DEF KnownOrg, find_org_name, One
  <1>2. ASSUME NEW i \in S PROVE find_org_name(id.name) = i /\ i # 0
    <2>1. find_org_name(id.name) = i BY NameFound
    <2>2. i \in 1..Len(orgs) BY DEF StoreInv, StoreType
    <2> QED BY <2>1, <2>2
  <1> QED BY <1>1, <1>2 DEF KnownOrg, OrgOf

-----------------------------------------------------------------------------
(* Preservation, by what a step adds.                                       *)

LEMMA AddOrgKeeps ==
  ASSUME StoreInv, NEW id \in OrgIds, AddOrg(id)
  PROVE  /\ orgs' \in Seq(OrgIds) /\ org_by_enum' \in [OrgEnums -> Nat]
         /\ OrgNamesUnique' /\ EnumLeads'
         /\ DOMAIN orgs \subseteq DOMAIN orgs' /\ OrgOf(id) \in DOMAIN orgs'
  <1>t. orgs \in Seq(OrgIds) /\ org_by_enum \in [OrgEnums -> Nat] /\ Len(orgs) \in Nat
    BY DEF StoreInv, StoreType
  <1>1. CASE KnownOrg(id)
    <2>1. orgs' = orgs /\ org_by_enum' = org_by_enum
      BY <1>1 DEF AddOrg
    <2> QED BY <1>1, <1>t, <2>1, KnownIsOrg DEF StoreInv, OrgNamesUnique, EnumLeads, Claimed
  <1>2. CASE ~KnownOrg(id)
    <2>1. orgs' = Append(orgs, id)
      BY <1>2 DEF AddOrg
    <2>2. /\ DOMAIN orgs = 1..Len(orgs) /\ DOMAIN orgs' = 1..(Len(orgs) + 1)
          /\ \A i \in DOMAIN orgs : orgs'[i] = orgs[i]
          /\ orgs'[Len(orgs) + 1] = id
      BY <1>t, <2>1
    <2>3. orgs' \in Seq(OrgIds)
      BY <1>t, <2>1
    <2>4. OrgNamesUnique'
      BY <1>2, <1>t, <2>2, KnownIsOrg DEF StoreInv, OrgNamesUnique
    <2>5. org_by_enum' = IF id.has_intenum THEN [org_by_enum EXCEPT ![id.intenum] = Len(orgs) + 1] ELSE org_by_enum
      BY <1>2, IdsAssumption DEF AddOrg
    <2>6. id.intenum \in OrgEnums /\ \A i \in DOMAIN orgs : orgs[i].intenum \in OrgEnums
      BY <1>t DEF OrgEnums
    <2>7. org_by_enum' \in [OrgEnums -> Nat]
      BY <1>t, <2>5, <2>6
    <2>8. EnumLeads'
      <3> SUFFICES ASSUME NEW i \in DOMAIN orgs', orgs'[i].has_intenum, ~Claimed(i)'
                   PROVE  org_by_enum'[orgs'[i].intenum] = i
        BY DEF EnumLeads
      <3>1. CASE i = Len(orgs) + 1
        BY <1>t, <2>2, <2>5, <2>6, <3>1
      <3>2. CASE i # Len(orgs) + 1
        <4>1. i \in DOMAIN orgs /\ orgs[i].has_intenum /\ orgs'[i] = orgs[i]
          BY <1>t, <2>2, <3>2
        <4>2. ~Claimed(i)
          BY <1>t, <2>2, <4>1 DEF Claimed
        <4>3. org_by_enum[orgs[i].intenum] = i
          BY <4>1, <4>2 DEF StoreInv, EnumLeads
        <4>4. id.has_intenum => id.intenum # orgs[i].intenum
          BY <1>t, <2>2, <3>2, <4>1 DEF Claimed
        <4> QED BY <1>t, <2>5, <2>6, <4>1, <4>3, <4>4, IdsAssumption
      <3> QED BY <3>1, <3>2
    <2> QED BY <1>2, <1>t, <2>2, <2>3, <2>4, <2>7, <2>8, KnownIsOrg
  <1> QED BY <1>1, <1>2

LEMMA AddNsKeeps ==
  ASSUME StoreInv, NEW org_id \in OrgIds, NEW model_id \in ModelIds,
         cace_amm_obj_store_add_ns(org_id, model_id)
  PROVE  StoreInv'
  <1>1. AddOrg(org_id) /\ objs' = objs
    BY DEF cace_amm_obj_store_add_ns
  <1>2. ObjsUnique' /\ objs' \in Seq(ObjRec)
    BY <1>1 DEF StoreInv, StoreType, ObjsUnique
  <1>t. /\ nss \in Seq(NsRec)
        /\ orgs' \in Seq(OrgIds)
    BY <1>1, AddOrgKeeps DEF StoreInv, StoreType
  <1> DEFINE new == [org |-> OrgOf(org_id), org_id |-> org_id, model_id |-> model_id, status |-> "CURRENT"]
  <1>3. CASE HasModel(OrgOf(org_id), model_id)
    <2>1. nss' = nss BY <1>3 DEF cace_amm_obj_store_add_ns
    <2> QED BY <1>1, <1>2, <2>1, AddOrgKeeps DEF StoreInv, StoreType, OrgOfNs, ModelsUnique
  <1>4. CASE ~HasModel(OrgOf(org_id), model_id)
    <2>1. nss' = Append(nss, new) BY <1>4 DEF cace_amm_obj_store_add_ns
    <2>2. OrgOf(org_id) \in Nat
      BY <1>1, <1>t, AddOrgKeeps
    <2>3. new \in NsRec
      BY <2>2 DEF NsRec
    <2>4. /\ DOMAIN nss = 1..Len(nss) /\ DOMAIN nss' = 1..(Len(nss) + 1) /\ Len(nss) \in Nat
          /\ \A n \in DOMAIN nss : nss'[n] = nss[n]
          /\ nss'[Len(nss) + 1] = new
      BY <1>t, <2>1, <2>3
    <2>5. nss' \in Seq(NsRec)
      BY <1>t, <2>1, <2>3
    <2>6. OrgOfNs'
      BY <1>1, <2>4, AddOrgKeeps DEF StoreInv, OrgOfNs
    <2>7. \A n \in DOMAIN nss : nss[n].org = OrgOf(org_id) => Distinct(nss[n].model_id, model_id)
      BY <1>4 DEF HasModel
    <2>8. ModelsUnique'
      <3> SUFFICES ASSUME NEW m \in DOMAIN nss', NEW n \in DOMAIN nss', m # n, nss'[m].org = nss'[n].org
                   PROVE  Distinct(nss'[m].model_id, nss'[n].model_id)
        BY DEF ModelsUnique
      <3>1. CASE m \in DOMAIN nss /\ n \in DOMAIN nss
        BY <2>4, <3>1 DEF StoreInv, ModelsUnique
      <3>2. CASE m \in DOMAIN nss /\ n = Len(nss) + 1
        BY <2>4, <2>7, <3>2
      <3>3. CASE n \in DOMAIN nss /\ m = Len(nss) + 1
        BY <2>4, <2>7, <3>3, DistinctSymmetric
      <3> QED BY <2>4, <3>1, <3>2, <3>3
    <2> QED BY <1>1, <1>2, <2>5, <2>6, <2>8, AddOrgKeeps DEF StoreInv, StoreType
  <1> QED BY <1>3, <1>4

LEMMA AddObjKeeps ==
  ASSUME StoreInv, NEW n \in DOMAIN nss, NEW t \in ObjTypes, NEW id \in ObjIds,
         cace_amm_obj_ns_add_obj(n, t, id)
  PROVE  StoreInv'
  <1> DEFINE new == [ns |-> n, typ |-> t, id |-> id, status |-> "CURRENT"]
  <1>1. orgs' = orgs /\ org_by_enum' = org_by_enum /\ nss' = nss
    BY DEF cace_amm_obj_ns_add_obj
  <1>2. /\ orgs' \in Seq(OrgIds) /\ org_by_enum' \in [OrgEnums -> Nat]
        /\ nss' \in Seq(NsRec)
        /\ OrgNamesUnique' /\ OrgOfNs' /\ ModelsUnique' /\ EnumLeads'
    BY <1>1 DEF StoreInv, StoreType, OrgNamesUnique, OrgOfNs, ModelsUnique, EnumLeads, Claimed
  <1>t. objs \in Seq(ObjRec) /\ n \in Nat
    BY DEF StoreInv, StoreType
  <1>3. CASE HasObj(n, t, id)
    <2>1. objs' = objs BY <1>3 DEF cace_amm_obj_ns_add_obj
    <2> QED BY <1>2, <1>t, <2>1 DEF StoreInv, StoreType, ObjsUnique
  <1>4. CASE ~HasObj(n, t, id)
    <2>1. objs' = Append(objs, new) BY <1>4 DEF cace_amm_obj_ns_add_obj
    <2>2. /\ DOMAIN objs = 1..Len(objs) /\ DOMAIN objs' = 1..(Len(objs) + 1) /\ Len(objs) \in Nat
          /\ \A o \in DOMAIN objs : objs'[o] = objs[o]
          /\ objs'[Len(objs) + 1] = new
          /\ objs' \in Seq(ObjRec)
      BY <1>t, <2>1 DEF ObjRec
    <2>3. \A o \in DOMAIN objs : objs[o].ns = n /\ objs[o].typ = t => Distinct(objs[o].id, id)
      BY <1>4 DEF HasObj
    <2>4. ObjsUnique'
      <3> SUFFICES ASSUME NEW o \in DOMAIN objs', NEW p \in DOMAIN objs', o # p,
                          objs'[o].ns = objs'[p].ns, objs'[o].typ = objs'[p].typ
                   PROVE  Distinct(objs'[o].id, objs'[p].id)
        BY DEF ObjsUnique
      <3>1. CASE o \in DOMAIN objs /\ p \in DOMAIN objs
        BY <2>2, <3>1 DEF StoreInv, ObjsUnique
      <3>2. CASE o \in DOMAIN objs /\ p = Len(objs) + 1
        BY <2>2, <2>3, <3>2
      <3>3. CASE p \in DOMAIN objs /\ o = Len(objs) + 1
        BY <2>2, <2>3, <3>3, DistinctSymmetric
      <3> QED BY <2>2, <3>1, <3>2, <3>3
    <2> QED BY <1>2, <2>2, <2>4 DEF StoreInv, StoreType
  <1> QED BY <1>3, <1>4

LEMMA ObsoleteNsKeeps ==
  ASSUME StoreInv, NEW n \in DOMAIN nss, ObsoleteNs(n) PROVE StoreInv'
  <1>1. /\ orgs' = orgs /\ org_by_enum' = org_by_enum /\ objs' = objs
        /\ nss' = [nss EXCEPT ![n].status = "OBSOLETE"]
    BY DEF ObsoleteNs
  <1>2. /\ DOMAIN nss' = DOMAIN nss
        /\ \A m \in DOMAIN nss : nss'[m].org = nss[m].org /\ nss'[m].model_id = nss[m].model_id
    BY <1>1, Elements DEF NsRec
  <1>3. \A m \in DOMAIN nss : nss'[m] \in NsRec
    BY <1>1, Elements DEF NsRec
  <1>4. nss' \in Seq(NsRec)
    BY <1>1, <1>3, Elements
  <1> QED BY <1>1, <1>2, <1>4 DEF StoreInv, StoreType, OrgNamesUnique, OrgOfNs, ModelsUnique, ObjsUnique, EnumLeads, Claimed

LEMMA ObsoleteObjKeeps ==
  ASSUME StoreInv, NEW o \in DOMAIN objs, ObsoleteObj(o) PROVE StoreInv'
  <1>1. /\ orgs' = orgs /\ org_by_enum' = org_by_enum /\ nss' = nss
        /\ objs' = [objs EXCEPT ![o].status = "OBSOLETE"]
    BY DEF ObsoleteObj
  <1>2. /\ DOMAIN objs' = DOMAIN objs
        /\ \A p \in DOMAIN objs : objs'[p].ns = objs[p].ns /\ objs'[p].typ = objs[p].typ /\ objs'[p].id = objs[p].id
    BY <1>1, Elements DEF ObjRec
  <1>3. \A p \in DOMAIN objs : objs'[p] \in ObjRec
    BY <1>1, Elements DEF ObjRec
  <1>4. objs' \in Seq(ObjRec)
    BY <1>1, <1>3, Elements
  <1> QED BY <1>1, <1>2, <1>4 DEF StoreInv, StoreType, OrgNamesUnique, OrgOfNs, ModelsUnique, ObjsUnique, EnumLeads, Claimed

-----------------------------------------------------------------------------

(* Keys stay unique and enumerations lead to their organisations, whatever    *)
(* is added, refused or marked obsolete.                                     *)
THEOREM StoreInvariant == StoreSpec => []StoreInv
  <1>1. ASSUME StoreInv, [StoreNext]_storeVars PROVE StoreInv'
    <2>1. CASE UNCHANGED storeVars
      BY <1>1, <2>1 DEF storeVars, StoreInv, StoreType, OrgNamesUnique, OrgOfNs, ModelsUnique, ObjsUnique,
                        EnumLeads, Claimed
    <2>2. CASE StoreNext
      BY <1>1, <2>2, AddNsKeeps, AddObjKeeps, ObsoleteNsKeeps, ObsoleteObjKeeps DEF StoreNext
    <2> QED BY <1>1, <2>1, <2>2
  <1> QED BY <1>1, InitInv, PTL DEF StoreSpec

LEMMA NsFound ==
  ASSUME StoreInv, NEW n \in DOMAIN nss
  PROVE  /\ cace_amm_obj_org_find_ns(nss[n].org, TextId(nss[n].model_id.name)) = n
         /\ nss[n].model_id.has_intenum =>
              cace_amm_obj_org_find_ns(nss[n].org, IntId(nss[n].model_id.intenum)) = n
  <1>1. \A m \in DOMAIN nss : nss[m].model_id \in ModelIds
    BY Elements DEF NsRec
  <1>2. \A m \in DOMAIN nss : nss[m].model_id.has_intenum \in BOOLEAN
    BY <1>1, IdsAssumption
  <1>3. \A m \in DOMAIN nss \ {n} : nss[m].org = nss[n].org => Distinct(nss[n].model_id, nss[m].model_id)
    BY DEF StoreInv, ModelsUnique
  <1>4. {m \in DOMAIN nss : nss[m].org = nss[n].org /\ Names(TextId(nss[n].model_id.name), nss[m].model_id)} = {n}
    <2>1. Names(TextId(nss[n].model_id.name), nss[n].model_id)
      BY DEF Names, TextId
    <2> QED BY <1>2, <1>3, <2>1, DistinctNames
  <1>5. ASSUME nss[n].model_id.has_intenum
        PROVE  {m \in DOMAIN nss : nss[m].org = nss[n].org
                                   /\ Names(IntId(nss[n].model_id.intenum), nss[m].model_id)} = {n}
    <2>1. Names(IntId(nss[n].model_id.intenum), nss[n].model_id)
      BY <1>5 DEF Names, IntId, cace_amm_idseg_val_match_int
    <2> QED BY <1>2, <1>3, <1>5, <2>1, DistinctNames
  <1> QED BY <1>4, <1>5, OneOfOne DEF cace_amm_obj_org_find_ns

LEMMA ObjFound == StoreInv => ObjectsFound
  <1> SUFFICES ASSUME StoreInv, NEW o \in DOMAIN objs
      PROVE /\ cace_amm_obj_ns_find_obj(objs[o].ns, objs[o].typ, TextId(objs[o].id.name)) = o
            /\ objs[o].id.has_intenum =>
                 cace_amm_obj_ns_find_obj(objs[o].ns, objs[o].typ, IntId(objs[o].id.intenum)) = o
    BY DEF ObjectsFound
  <1> DEFINE Same(p) == objs[p].ns = objs[o].ns /\ objs[p].typ = objs[o].typ
  <1>1. \A p \in DOMAIN objs : objs[p].id \in ObjIds
    BY Elements DEF ObjRec
  <1>2. \A p \in DOMAIN objs : objs[p].id.has_intenum \in BOOLEAN
    BY <1>1, IdsAssumption
  <1>3. \A p \in DOMAIN objs \ {o} : Same(p) => Distinct(objs[o].id, objs[p].id)
    BY DEF StoreInv, ObjsUnique
  <1>4. {p \in DOMAIN objs : Same(p) /\ Names(TextId(objs[o].id.name), objs[p].id)} = {o}
    <2>1. Names(TextId(objs[o].id.name), objs[o].id)
      BY DEF Names, TextId
    <2> QED BY <1>2, <1>3, <2>1, DistinctNames
  <1>5. ASSUME objs[o].id.has_intenum
        PROVE  {p \in DOMAIN objs : Same(p) /\ Names(IntId(objs[o].id.intenum), objs[p].id)} = {o}
    <2>1. Names(IntId(objs[o].id.intenum), objs[o].id)
      BY <1>5 DEF Names, IntId, cace_amm_idseg_val_match_int
    <2> QED BY <1>2, <1>3, <1>5, <2>1, DistinctNames
  <1>6. ASSUME NEW seg PROVE cace_amm_obj_ns_find_obj(objs[o].ns, objs[o].typ, seg)
                               = One({p \in DOMAIN objs : Same(p) /\ Names(seg, objs[p].id)})
    <2>1. {p \in DOMAIN objs : objs[p].ns = objs[o].ns /\ objs[p].typ = objs[o].typ /\ Names(seg, objs[p].id)}
            = {p \in DOMAIN objs : Same(p) /\ Names(seg, objs[p].id)}
      OBVIOUS
    <2> QED BY <2>1 DEF cace_amm_obj_ns_find_obj
  <1> QED BY <1>4, <1>5, <1>6, OneOfOne

LEMMA OrgFound ==
  ASSUME StoreInv, NEW i \in DOMAIN orgs
  PROVE  /\ cace_amm_obj_store_find_org(TextId(orgs[i].name)) = i
         /\ orgs[i].has_intenum /\ ~Claimed(i) => cace_amm_obj_store_find_org(IntId(orgs[i].intenum)) = i
  <1>1. orgs[i].intenum \in OrgEnums
    BY DEF StoreInv, StoreType, OrgEnums
  <1>2. cace_amm_obj_store_find_org(TextId(orgs[i].name)) = find_org_name(orgs[i].name)
    BY DEF cace_amm_obj_store_find_org, TextId
  <1>3. cace_amm_obj_store_find_org(IntId(orgs[i].intenum)) = org_by_enum[orgs[i].intenum]
    BY <1>1 DEF cace_amm_obj_store_find_org, find_org_enum, IntId
  <1> QED BY <1>2, <1>3, NameFound DEF StoreInv, EnumLeads

(* cace_amm_obj_store_find_ns and cace_amm_obj_ns_find_obj_* find everything   *)
(* that was added to the store, whatever was added or refused since.           *)
THEOREM StoreFound == StoreSpec => []StoreFinds
  <1>1. ASSUME StoreInv PROVE NamespacesFound
    <2> SUFFICES ASSUME NEW n \in DOMAIN nss,
                        NEW seg \in {TextId(orgs[nss[n].org].name)}
                          \cup (IF orgs[nss[n].org].has_intenum /\ ~Claimed(nss[n].org)
                                THEN {IntId(orgs[nss[n].org].intenum)} ELSE {})
                 PROVE  /\ cace_amm_obj_store_find_ns(seg, TextId(nss[n].model_id.name)) = n
                        /\ nss[n].model_id.has_intenum =>
                             cace_amm_obj_store_find_ns(seg, IntId(nss[n].model_id.intenum)) = n
      BY Zenon DEF NamespacesFound
    <2>1. nss[n].org \in DOMAIN orgs
      BY <1>1 DEF StoreInv, OrgOfNs
    <2>2. cace_amm_obj_store_find_org(seg) = nss[n].org
      BY <1>1, <2>1, OrgFound
    <2> QED BY <1>1, <2>2, NsFound DEF cace_amm_obj_store_find_ns
  <1> QED BY <1>1, ObjFound, StoreInvariant, PTL DEF StoreFinds
=============================================================================
