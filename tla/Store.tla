------------------------------- MODULE Store -------------------------------
(***************************************************************************)
(* The object store (cace/amm/obj_store.c, obj_org.c, obj_ns.c): the         *)
(* organisations, the namespaces (models) of each and the objects of each   *)
(* namespace, which are only ever added or marked obsolete.  An             *)
(* organisation, a namespace or an object is its place in the list it was   *)
(* appended to; 0 is none.  Everything happens under objs_mutex.            *)
(***************************************************************************)
EXTENDS Paths, Integers, Sequences

CONSTANTS OrgIds, ModelIds, ObjIds,  \* the identities that may be registered
          ObjTypes                   \* the types of objects

(* Identities say whether they have an enumeration. *)
ASSUME IdsAssumption == \A id \in OrgIds \cup ModelIds \cup ObjIds : id.has_intenum \in BOOLEAN

VARIABLES orgs,         \* the organisations, by their identity
          org_by_enum,  \* the organisation found by an enumeration
          nss,          \* the namespaces
          objs          \* the objects

storeVars == <<orgs, org_by_enum, nss, objs>>

OrgEnums == {id.intenum : id \in OrgIds}

StoreInit ==
  /\ orgs = <<>> /\ nss = <<>> /\ objs = <<>>
  /\ org_by_enum = [e \in OrgEnums |-> 0]

One(S) == IF S = {} THEN 0 ELSE CHOOSE x \in S : TRUE

find_org_name(name) == One({i \in DOMAIN orgs : orgs[i].name = name})
find_org_enum(n) == IF n \in OrgEnums THEN org_by_enum[n] ELSE 0
cace_amm_obj_store_find_org(seg) ==
  CASE seg.form = "int" -> find_org_enum(seg.int)
    [] seg.form = "text" -> find_org_name(seg.text)
    [] OTHER -> 0

cace_amm_obj_org_find_ns(org, seg) == One({n \in DOMAIN nss : nss[n].org = org /\ Names(seg, nss[n].model_id)})
cace_amm_obj_store_find_ns(org_seg, model_seg) ==
  cace_amm_obj_org_find_ns(cace_amm_obj_store_find_org(org_seg), model_seg)

cace_amm_obj_ns_find_obj(ns, t, seg) ==
  One({o \in DOMAIN objs : objs[o].ns = ns /\ objs[o].typ = t /\ Names(seg, objs[o].id)})

(* An organisation is known by its name alone.  A new one takes over its       *)
(* enumeration, whichever organisation had it.                               *)
KnownOrg(org_id) == find_org_name(org_id.name) # 0
OrgOf(org_id) == IF KnownOrg(org_id) THEN find_org_name(org_id.name) ELSE Len(orgs) + 1
AddOrg(org_id) ==
  /\ orgs' = (IF KnownOrg(org_id) THEN orgs ELSE Append(orgs, org_id))
  /\ org_by_enum' = (IF KnownOrg(org_id) \/ ~org_id.has_intenum THEN org_by_enum
                     ELSE [org_by_enum EXCEPT ![org_id.intenum] = Len(orgs) + 1])

(* Mutant: only the name of a model is compared with those of the organisation. *)
has_model_named(org, model_id) == \E n \in DOMAIN nss : nss[n].org = org /\ nss[n].model_id.name = model_id.name

HasModel(org, model_id) == \E n \in DOMAIN nss : nss[n].org = org /\ ~Distinct(nss[n].model_id, model_id)

cace_amm_obj_store_add_ns(org_id, model_id) ==
  /\ org_id.has_intenum /\ model_id.has_intenum
  /\ AddOrg(org_id)
  /\ nss' = (IF HasModel(OrgOf(org_id), model_id) THEN nss
             ELSE Append(nss, [org |-> OrgOf(org_id), org_id |-> org_id, model_id |-> model_id,
                               status |-> "CURRENT"]))
  /\ UNCHANGED objs

HasObj(ns, t, id) == \E o \in DOMAIN objs : objs[o].ns = ns /\ objs[o].typ = t /\ ~Distinct(objs[o].id, id)

cace_amm_obj_ns_add_obj(ns, t, id) ==
  /\ objs' = (IF HasObj(ns, t, id) THEN objs
              ELSE Append(objs, [ns |-> ns, typ |-> t, id |-> id, status |-> "CURRENT"]))
  /\ UNCHANGED <<orgs, org_by_enum, nss>>

ObsoleteNs(n) ==
  /\ nss' = [nss EXCEPT ![n].status = "OBSOLETE"]
  /\ UNCHANGED <<orgs, org_by_enum, objs>>
ObsoleteObj(o) ==
  /\ objs' = [objs EXCEPT ![o].status = "OBSOLETE"]
  /\ UNCHANGED <<orgs, org_by_enum, nss>>

StoreNext ==
  \/ \E org_id \in OrgIds, model_id \in ModelIds : cace_amm_obj_store_add_ns(org_id, model_id)
  \/ \E n \in DOMAIN nss, t \in ObjTypes, id \in ObjIds : cace_amm_obj_ns_add_obj(n, t, id)
  \/ \E n \in DOMAIN nss : ObsoleteNs(n)
  \/ \E o \in DOMAIN objs : ObsoleteObj(o)

(* What the rest of the agent may do to the store. *)
StoreSpec == StoreInit /\ [][StoreNext]_storeVars

-----------------------------------------------------------------------------

(* A namespace is found by the name of its organisation and by its own name    *)
(* or its own enumeration; by the enumeration of its organisation as long as  *)
(* no other organisation was registered with the same one.                   *)
Claimed(i) == \E j \in DOMAIN orgs : j # i /\ orgs[j].has_intenum /\ orgs[j].intenum = orgs[i].intenum
NamespacesFound ==
  \A n \in DOMAIN nss :
    LET org == orgs[nss[n].org]
        segs == {TextId(org.name)} \cup (IF org.has_intenum /\ ~Claimed(nss[n].org) THEN {IntId(org.intenum)} ELSE {})
    IN \A seg \in segs : /\ cace_amm_obj_store_find_ns(seg, TextId(nss[n].model_id.name)) = n
                         /\ nss[n].model_id.has_intenum =>
                              cace_amm_obj_store_find_ns(seg, IntId(nss[n].model_id.intenum)) = n

(* An object is found by its name and by its enumeration in its namespace.    *)
ObjectsFound ==
  \A o \in DOMAIN objs :
    /\ cace_amm_obj_ns_find_obj(objs[o].ns, objs[o].typ, TextId(objs[o].id.name)) = o
    /\ objs[o].id.has_intenum =>
         cace_amm_obj_ns_find_obj(objs[o].ns, objs[o].typ, IntId(objs[o].id.intenum)) = o

(* cace_amm_obj_store_find_ns and cace_amm_obj_ns_find_obj_* find everything  *)
(* that was added, whatever was added or refused since.                       *)
StoreFinds == NamespacesFound /\ ObjectsFound
=============================================================================
