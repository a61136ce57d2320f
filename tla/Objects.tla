------------------------------ MODULE Objects ------------------------------
(***************************************************************************)
(* The objects of an agent: its ADMs are loaded and bound (loader.c,        *)
(* agent.c, binding.c), then the controls of ietf_dtnma_agent.c create,     *)
(* change and obsolete the objects of ODMs, and its EDDs list them.         *)
(*                                                                         *)
(* Each control and each production of a list is one step: the execution    *)
(* worker runs them one at a time and each holds objs_mutex.  The objects   *)
(* of ADMs are the constant tables of Adm; `objs` (Store) has those of the  *)
(* ODMs, and `data` what each of these holds.                               *)
(***************************************************************************)
EXTENDS Adm, Store

CONSTANTS base_adms, more_adms, \* the ADMs that the agent loads, and those that an application may add
          OdmIds,        \* identities of ODMs that ensure-odm is given
          NsRefs,        \* references to namespaces, as <<organisation, model>> segments
          IdentArgs, ValueArgs, SbrArgs, TbrArgs, \* what ensure-ident, -const and -var, -sbr and -tbr are given after the
                         \* identities; formal parameters are sequences of names of types
          MaxNs, MaxObjs,      \* bounds on namespaces, on objects when some are of a type,
          MaxBases, MaxDerived \* on the bases of an IDENT and those of ODMs derived from it

VARIABLES data,            \* for each of objs, what it holds
          derived,         \* for each IDENT, those that were bound to it as a base
          stage,           \* "loading", "loaded", "bound" or "running"
          failures         \* what refda_agent_bindrefs returned

vars == <<orgs, org_by_enum, nss, objs, data, derived, stage, failures, call>>

ObjectsInit ==
  /\ StoreInit
  /\ data = <<>> /\ derived = << >>
  /\ stage = "loading" /\ failures = 0 /\ call = NoCall

-----------------------------------------------------------------------------
(* Objects: those of the table of an ADM and those of objs, with the namespace *)
(* they are in.                                                              *)

accepted(adms) ==
  FoldLeft(LAMBDA list, adm :
             IF \E i \in DOMAIN list : list[i].org = adm.org /\ ~Distinct(list[i].model, adm.model) THEN list
             ELSE Append(list, adm), <<>>, adms)
own_typedefs(adm) ==
  LET own == SelectSeq(adm.objs, LAMBDA a : a.typ = "TYPEDEF")
  IN [i \in DOMAIN own |-> [name |-> <<adm.model.intenum, own[i].id.intenum>>, type |-> own[i].type]]
typedefs(adms) ==
  FoldLeft(LAMBDA list, adm : list \o own_typedefs(adm), <<>>, SelectSeq(adms, LAMBDA a : a.org = ietf))
tabulated(adms) ==
  [adms |-> adms, typedefs |-> typedefs(adms), models |-> {adms[i].model.intenum : i \in DOMAIN adms}]

(* The ADMs, the TYPEDEFs of those of ietf by the enumerations of the model and   *)
(* of theirs, and the models; it is passed to what looks things up as A.        *)
Adms == tabulated(accepted(base_adms \o more_adms))

(* The model of an ODM has a negative enumeration (obj_ns.c also takes one     *)
(* whose name begins with a bang; ensure-odm requires the enumeration).       *)
cace_amm_obj_ns_is_odm(n) == nss[n].model_id.intenum < 0
table(A, n) ==
  IF cace_amm_obj_ns_is_odm(n) THEN <<>>
  ELSE A.adms[CHOOSE i \in DOMAIN A.adms : A.adms[i].org = nss[n].org_id /\ A.adms[i].model = nss[n].model_id].objs

NoObj == [ns |-> 0]
in_adm(n, a) == [ns |-> n, typ |-> a.typ, id |-> a.id, status |-> "CURRENT", at |-> 0, has |-> a]
in_odm(o) == [ns |-> objs[o].ns, typ |-> objs[o].typ, id |-> objs[o].id, status |-> objs[o].status,
              at |-> o, has |-> data[o]]
objects(A, t) ==
  UNION {{in_adm(n, table(A, n)[i]) : i \in {j \in DOMAIN table(A, n) : table(A, n)[j].typ = t}} : n \in DOMAIN nss}
    \cup {in_odm(o) : o \in {p \in DOMAIN objs : objs[p].typ = t}}

lookup_in(A, n, t, seg) ==
  LET found == {i \in DOMAIN table(A, n) : table(A, n)[i].typ = t /\ Names(seg, table(A, n)[i].id)}
      o == cace_amm_obj_ns_find_obj(n, t, seg)
  IN CASE found # {} -> in_adm(n, table(A, n)[CHOOSE i \in found : TRUE])
       [] o # 0 -> in_odm(o)
       [] OTHER -> NoObj

(* No reference that the controls are given has parameters. *)
cace_amm_lookup_deref(A, ref) ==
  LET n == cace_amm_obj_store_find_ns(ref.org, ref.model)
  IN IF n = 0 THEN NoObj ELSE lookup_in(A, n, ref.typ, ref.obj)

Key(obj) == <<obj.ns, obj.id.intenum>>
IdentAt(A, key) == lookup_in(A, key[1], "IDENT", IntId(key[2]))

-----------------------------------------------------------------------------
(* Binding.  A use of a TYPEDEF is bound when the reference to it is found,   *)
(* to a type whose own uses were bound when the agent started; `models` are   *)
(* the models of ietf that references with its enumeration find.             *)

found_models(A) == {m \in A.models : cace_amm_obj_store_find_ns(IntId(1), IntId(m)) # 0}

refda_binding_type_from_name(A, models, name) ==
  IF "aritype" \in DOMAIN name THEN Builtin(name.aritype)
  ELSE LET found == {i \in DOMAIN A.typedefs : A.typedefs[i].name = name.typedef /\ name.typedef[1] \in models}
       IN IF found = {} THEN Invalid ELSE A.typedefs[CHOOSE i \in found : TRUE].type

RECURSIVE bound(_, _, _)
bound(A, models, t) ==
  LET each(ts) == [i \in DOMAIN ts |-> bound(A, models, ts[i])]
  IN CASE t.class \in {"invalid", "builtin"} -> t
       [] t.class = "use" ->
            (IF t.base # Invalid THEN t
             ELSE [t EXCEPT !.base = bound(A, A.models, refda_binding_type_from_name(A, models, t.name))])
       [] t.class \in {"ulist", "seq"} -> [t EXCEPT !.item = bound(A, models, t.item)]
       [] t.class = "dlist" -> [t EXCEPT !.types = each(t.types)]
       [] t.class = "umap" -> [t EXCEPT !.key = bound(A, models, t.key), !.val = bound(A, models, t.val)]
       [] t.class = "tblt" -> TblT([i \in DOMAIN t.cols |-> Col(t.cols[i].name, bound(A, models, t.cols[i].type))])
       [] t.class = "union" -> Union(each(t.choices))

(* The number of failures of refda_binding_typeobj, of a type already bound.  *)
RECURSIVE unbound(_)
unbound(t) ==
  LET sum(ts) == FoldLeft(LAMBDA n, p : n + unbound(p), 0, ts)
  IN CASE t.class \in {"invalid", "builtin"} -> 1
       [] t.class = "use" -> (IF t.base = Invalid THEN 1 ELSE 0)
       [] t.class \in {"ulist", "seq"} -> unbound(t.item)
       [] t.class = "dlist" -> sum(t.types)
       [] t.class = "umap" -> unbound(t.key) + unbound(t.val)
       [] t.class = "tblt" -> sum([i \in DOMAIN t.cols |-> t.cols[i].type])
       [] t.class = "union" -> sum(t.choices)

SumOver(S, f(_)) == FoldSet(LAMBDA x, n : n + f(x), 0, S)
unbound_params(params) == SumOver(DOMAIN params, LAMBDA i : unbound(params[i].type))
refda_binding_typeobj(A, models, t) == unbound(bound(A, models, t))
bind_params(A, models, params) == [i \in DOMAIN params |-> [params[i] EXCEPT !.type = bound(A, models, @)]]
refda_binding_fparams(A, models, params) == unbound_params(bind_params(A, models, params))

(* The IDENT that the name of a base finds, for an IDENT registered as key. *)
NoKey == <<0, 0>>
base_ident(A, ref, key, id) ==
  LET n == cace_amm_obj_store_find_ns(ref.org, ref.model)
      obj == cace_amm_lookup_deref(A, ref)
  IN CASE n = key[1] /\ Names(ref.obj, id) -> key
       [] obj # NoObj -> Key(obj)
       [] OTHER -> NoKey

(* Mutant: the bases of an IDENT know nothing of it. *)
bind_forward_only(bases, key) == derived

(* Each base that is found gets the IDENT among its derived ones, once more     *)
(* each time the IDENT is bound.                                             *)
refda_binding_ident_bases(bases, key) ==
  LET of(k) == IF k \in DOMAIN derived THEN derived[k] ELSE <<>>
      more(k) == [i \in 1..Cardinality({j \in DOMAIN bases : bases[j] = k}) |-> key]
  IN [k \in DOMAIN derived \cup (Range(bases) \ {NoKey}) |-> of(k) \o more(k)]

lost_bases(A, bases) == Cardinality({i \in DOMAIN bases : cace_amm_lookup_deref(A, bases[i]) = NoObj})

refda_binding_obj(A, models, a) ==
  LET params == refda_binding_fparams(A, models, a.params)
  IN CASE a.typ = "IDENT" -> params + lost_bases(A, a.bases)
       [] a.typ = "TYPEDEF" -> refda_binding_typeobj(A, models, a.type)
       [] a.typ = "CONST" -> params
       [] a.typ \in {"VAR", "EDD"} -> refda_binding_typeobj(A, models, a.type) + params
       [] a.typ = "CTRL" -> (IF a.type = NoResult THEN 0 ELSE refda_binding_typeobj(A, models, a.type)) + params
       [] a.typ = "OPER" -> SumOver(DOMAIN a.operands, LAMBDA i : refda_binding_typeobj(A, models, a.operands[i]))
                            + refda_binding_typeobj(A, models, a.type) + params

(* The objects that the agent itself needs: the types of macros, expressions    *)
(* and report templates, and the permissions.                                 *)
required == {ietf_ref("TYPEDEF", 25, i) : i \in {18, 21, 24}} \cup {ietf_ref("IDENT", 2, i) : i \in {0} \cup 10..17}

refda_agent_bindrefs(A, models) ==
  Cardinality({r \in required : cace_amm_lookup_deref(A, r) = NoObj})
  + SumOver(DOMAIN nss, LAMBDA n : SumOver(DOMAIN table(A, n), LAMBDA i : refda_binding_obj(A, models, table(A, n)[i])))

(* The IDENTs of the ADMs by the one they derive from. *)
bound_idents(A) ==
  LET children(k) == {c \in objects(A, "IDENT") :
                        \E i \in DOMAIN c.has.bases :
                          LET b == cace_amm_lookup_deref(A, c.has.bases[i]) IN b # NoObj /\ Key(b) = k}
      keys == {Key(obj) : obj \in objects(A, "IDENT")}
      parents == {k \in keys : children(k) # {}}
  IN [k \in parents |-> FoldSet(LAMBDA c, list : Append(list, Key(c)), <<>>, children(k))]

refda_loader_add(adm) ==
  /\ cace_amm_obj_store_add_ns(adm.org, adm.model)
  /\ UNCHANGED <<data, derived, failures, call>>

(* The agent's own ADMs are loaded in this order; an application may add the    *)
(* others before it binds.                                                    *)
Load ==
  /\ stage = "loading" /\ Len(nss) < Len(base_adms)
  /\ refda_loader_add(base_adms[Len(nss) + 1])
  /\ UNCHANGED stage
Loaded ==
  /\ stage = "loading" /\ Len(nss) = Len(base_adms)
  /\ stage' = "loaded"
  /\ UNCHANGED <<orgs, org_by_enum, nss, objs, data, derived, failures, call>>
LoadLibrary ==
  /\ stage = "loaded"
  /\ \E adm \in Range(more_adms) : refda_loader_add(adm) /\ nss' # nss
  /\ UNCHANGED stage
BindRefs ==
  /\ stage = "loaded"
  /\ stage' = "bound"
  /\ \E A \in {Adms} : \E models \in {found_models(A)} :
       failures' = refda_agent_bindrefs(A, models) /\ derived' = bound_idents(A)
  /\ UNCHANGED <<orgs, org_by_enum, nss, objs, data, call>>

Start ==
  /\ stage = "bound"
  /\ stage' = "running"
  /\ UNCHANGED <<orgs, org_by_enum, nss, objs, data, derived, failures, call>>

-----------------------------------------------------------------------------
(* The controls.  One that returns early, because a parameter is undefined or   *)
(* the groups of the caller do not have the permission for example, changes    *)
(* nothing; each action is what the control does otherwise.  `ensured` (not in  *)
(* the code) is the result of the last control that ensured an object.        *)

EnsureOdm ==
  \E id \in OdmIds :
    /\ id.model.intenum < 0
    /\ Len(nss) < MaxNs
    /\ cace_amm_obj_store_add_ns(id.org, id.model)
    /\ UNCHANGED <<data, derived>>

(* Nothing keeps obsolete-odm from an ADM. *)
ObsoleteOdm ==
  \E ref \in NsRefs :
    LET n == cace_amm_obj_store_find_ns(ref[1], ref[2])
    IN n # 0 /\ ObsoleteNs(n) /\ UNCHANGED <<data, derived>>

(* The object that both identifiers name, the next one to register when none    *)
(* does, and 0 when they disagree.                                            *)
refda_odm_object_exists(n, t, id) ==
  LET by_name == cace_amm_obj_ns_find_obj(n, t, TextId(id.name))
      by_enum == cace_amm_obj_ns_find_obj(n, t, IntId(id.intenum))
  IN CASE by_name = 0 /\ by_enum = 0 -> Len(objs) + 1
       [] by_name = by_enum -> by_name
       [] OTHER -> 0

(* The beginning of each control that ensures an object: it is registered if it  *)
(* is new, before its contents are looked at.                                 *)
Ensure(n, o, t, id) ==
  /\ n # 0 /\ cace_amm_obj_ns_is_odm(n)
  /\ o # 0 /\ \A u \in {t} \cup {objs[p].typ : p \in DOMAIN objs} : o <= MaxObjs[u]
  /\ cace_amm_obj_ns_add_obj(n, t, id)
old_or(o, new) == IF o \in DOMAIN data THEN data[o] ELSE new
put(o, d) == IF o \in DOMAIN data THEN [data EXCEPT ![o] = d] ELSE Append(data, d)

refda_adm_ietf_dtnma_agent_read_fparams(names) ==
  [i \in DOMAIN names |-> P(i, cace_amm_type_set_name(names[i]).type)]

(* The bases that are given are appended to those the IDENT has, and all of     *)
(* them are bound again.                                                      *)
EnsureIdent(A, models, n, id, arg) ==
  LET o == refda_odm_object_exists(n, "IDENT", id)
      key == <<n, id.intenum>>
      old == old_or(o, [params |-> refda_adm_ietf_dtnma_agent_read_fparams(arg.params), bases |-> <<>>])
      bases == old.bases \o arg.bases
      found == [i \in DOMAIN bases |-> base_ident(A, bases[i], key, id)]
      params == bind_params(A, models, old.params)
  IN /\ Ensure(n, o, "IDENT", id)
     /\ Len(bases) <= MaxBases
     /\ data' = put(o, [abstract |-> arg.abstract, bases |-> bases, params |-> params,
                        ensured |-> NoKey \notin Range(found) /\ unbound_params(params) = 0])
     /\ derived' = refda_binding_ident_bases(found, key)
     /\ \A k \in DOMAIN derived' \cap Range(found) :
          Cardinality({i \in DOMAIN derived'[k] : cace_amm_obj_ns_is_odm(derived'[k][i][1])}) <= MaxDerived

(* The type is replaced first, the value only once it fits that type.          *)
EnsureValue(A, models, t, n, id, arg) ==
  LET o == refda_odm_object_exists(n, t, id)
      old == old_or(o, [params |-> refda_adm_ietf_dtnma_agent_read_fparams(arg.params), type |-> Invalid,
                        value |-> Undefined, init |-> Undefined])
      set == cace_amm_type_set_name(arg.type)
      type == IF set.ok THEN bound(A, models, set.type) ELSE set.type
      accept == set.ok /\ unbound(type) = 0 /\ cace_amm_type_match(type, arg.value) # "NEGATIVE"
      params == IF accept THEN bind_params(A, models, old.params) ELSE old.params
  IN /\ Ensure(n, o, t, id)
     /\ data' = put(o, [params |-> params, type |-> type, value |-> IF accept THEN arg.value ELSE old.value,
                        init |-> IF accept /\ t = "VAR" THEN arg.value ELSE old.init,
                        ensured |-> accept /\ unbound_params(params) = 0])
     /\ UNCHANGED derived

(* Each argument is set as it is accepted, up to the first that is not; a rule   *)
(* that is enabled already stays so (refda_exec_sbr_enable).                  *)
EnsureSbr(n, id, arg) ==
  LET o == refda_odm_object_exists(n, "SBR", id)
      old == old_or(o, [action |-> Undefined, condition |-> Undefined, min_interval |-> Time("TD", 0, 0),
                        init_enabled |-> TRUE, max_count |-> 0, enabled |-> FALSE])
      action_ok == IsAC(arg.action)
      condition_ok == action_ok /\ IsAC(arg.condition)
      ok == condition_ok /\ arg.min_interval.typ = "TD"
  IN /\ Ensure(n, o, "SBR", id)
     /\ data' = put(o, [action |-> IF action_ok THEN arg.action ELSE old.action,
                        condition |-> IF condition_ok THEN arg.condition ELSE old.condition,
                        min_interval |-> IF ok THEN arg.min_interval ELSE old.min_interval,
                        init_enabled |-> IF ok THEN arg.init_enabled ELSE old.init_enabled,
                        max_count |-> IF ok THEN arg.max_count ELSE old.max_count,
                        enabled |-> old.enabled \/ (ok /\ arg.init_enabled), ensured |-> ok])
     /\ UNCHANGED derived

(* A start time is relative or absolute. *)
EnsureTbr(n, id, arg) ==
  LET o == refda_odm_object_exists(n, "TBR", id)
      old == old_or(o, [action |-> Undefined, start_time |-> Undefined, period |-> Undefined,
                        init_enabled |-> TRUE, max_count |-> 0, enabled |-> FALSE])
      action_ok == IsAC(arg.action)
      period_ok == action_ok /\ arg.period.typ = "TD"
      ok == period_ok /\ arg.start_time.typ \in {"TD", "TP"}
  IN /\ Ensure(n, o, "TBR", id)
     /\ data' = put(o, [action |-> IF action_ok THEN arg.action ELSE old.action,
                        period |-> IF period_ok THEN arg.period ELSE old.period,
                        start_time |-> IF ok THEN arg.start_time ELSE old.start_time,
                        init_enabled |-> IF ok THEN arg.init_enabled ELSE old.init_enabled,
                        max_count |-> IF ok THEN arg.max_count ELSE old.max_count,
                        enabled |-> old.enabled \/ (ok /\ arg.init_enabled), ensured |-> ok])
     /\ UNCHANGED derived

ObjSegs == UNION {{IntId(id.intenum), TextId(id.name)} : id \in ObjIds}

(* obsolete-ident, obsolete-const and obsolete-var. *)
ObsoleteObject(o) ==
  /\ o # 0
  /\ ObsoleteObj(o) /\ UNCHANGED <<data, derived>>

(* var-store gives a VAR any value there is.  (The one VAR of an ADM, which has  *)
(* no initial value and which nothing reads, is left out.)                     *)
VarStore(o, value) ==
  /\ o # 0
  /\ data' = [data EXCEPT ![o].value = value]
  /\ UNCHANGED <<orgs, org_by_enum, nss, objs, derived>>

VarReset(o) ==
  /\ o # 0
  /\ data[o].init # Undefined
  /\ data' = [data EXCEPT ![o].value = data[o].init]
  /\ UNCHANGED <<orgs, org_by_enum, nss, objs, derived>>

Control ==
  /\ stage = "running"
  /\ UNCHANGED <<stage, failures, call>>
  /\ \/ EnsureOdm
     \/ ObsoleteOdm
     \/ \E n \in {cace_amm_obj_store_find_ns(ref[1], ref[2]) : ref \in NsRefs} :
          \/ \E A \in {Adms} : \E models \in {found_models(A)}, id \in ObjIds :
               \/ \E arg \in IdentArgs : EnsureIdent(A, models, n, id, arg)
               \/ \E t \in {"CONST", "VAR"}, arg \in ValueArgs : EnsureValue(A, models, t, n, id, arg)
          \/ \E id \in ObjIds, arg \in SbrArgs : EnsureSbr(n, id, arg)
          \/ \E id \in ObjIds, arg \in TbrArgs : EnsureTbr(n, id, arg)
          \/ \E t \in {"IDENT", "CONST", "VAR"}, seg \in ObjSegs : ObsoleteObject(cace_amm_obj_ns_find_obj(n, t, seg))
          \/ \E seg \in ObjSegs : VarReset(cace_amm_obj_ns_find_obj(n, "VAR", seg))
          \/ \E seg \in ObjSegs, arg \in ValueArgs : VarStore(cace_amm_obj_ns_find_obj(n, "VAR", seg), arg.value)

ObjectsNext == Load \/ Loaded \/ LoadLibrary \/ BindRefs \/ Start \/ Control

ObjectsSpec == ObjectsInit /\ [][ObjectsNext]_vars

-----------------------------------------------------------------------------
(* The productions of the EDDs that list namespaces and objects, as the rows of  *)
(* the table, each a sequence of cells; no ADM has features.                   *)

Name(text) == Lit("none", "TSTR", text)
ns_cells(n, t) == <<Name(nss[n].org_id.name), Lit(t, "INT64", nss[n].org_id.intenum),
                    Name(nss[n].model_id.name), Lit(t, "INT64", nss[n].model_id.intenum)>>
edd_capability ==
  {ns_cells(n, "VAST") \o <<Name("revision"), AC(<<>>)>> : n \in {m \in DOMAIN nss : nss[m].model_id.intenum >= 0}}
edd_odm_list == {ns_cells(n, "none") \o <<Name("revision")>> :
                   n \in {m \in DOMAIN nss : nss[m].model_id.intenum < 0 /\ nss[m].status # "OBSOLETE"}}

refda_adm_ietf_dtnma_agent_set_objpath(obj) ==
  Ref(obj.typ, cace_ari_idseg_set_from_val(nss[obj.ns].org_id), cace_ari_idseg_set_from_val(nss[obj.ns].model_id),
      cace_ari_idseg_set_from_val(obj.id), NoParams)

in_list(A, t, include) == IF include THEN objects(A, t) ELSE {in_odm(o) : o \in {p \in DOMAIN objs : objs[p].typ = t}}
current(A, t, include) == {obj \in in_list(A, t, include) : obj.status # "OBSOLETE"}

ident_row(obj) == <<refda_adm_ietf_dtnma_agent_set_objpath(obj), Bool(obj.has.abstract)>>
edd_ident_list(A, include, include_abs) ==
  {ident_row(obj) : obj \in {i \in current(A, "IDENT", include) : i.has.abstract => include_abs}}

(* The IDENTs under a base, itself included, in the order of their rows.  It    *)
(* only returns when no IDENT there is under itself.                          *)
RECURSIVE refda_adm_ietf_dtnma_agent_append_derived_ident(_)
refda_adm_ietf_dtnma_agent_append_derived_ident(key) ==
  <<key>> \o (IF key \notin DOMAIN derived THEN <<>>
              ELSE FlattenSeq([i \in DOMAIN derived[key] |->
                     refda_adm_ietf_dtnma_agent_append_derived_ident(derived[key][i])]))

edd_typedef_list(A, include) == {<<refda_adm_ietf_dtnma_agent_set_objpath(obj)>> : obj \in in_list(A, "TYPEDEF", include)}

(* The name of a type is a reference to the IDENT of its class, and the type of   *)
(* a CONST of an ADM, which is never set, has none.                            *)
type_name(t) ==
  IF t = Invalid THEN Undefined
  ELSE ietf_ref("IDENT", 24, [use |-> 2, ulist |-> 3, dlist |-> 4, umap |-> 5, tblt |-> 6, union |-> 8, seq |-> 9][t.class])
edd_typed_list(A, t, include) ==
  {<<refda_adm_ietf_dtnma_agent_set_objpath(obj), type_name(obj.has.type)>> : obj \in current(A, t, include)}

(* Mutant: the count is given before the interval. *)
sbr_list_swapped(A, include) ==
  {<<refda_adm_ietf_dtnma_agent_set_objpath(obj), obj.has.action, obj.has.condition,
     Lit("UVAST", "UINT64", obj.has.max_count), obj.has.min_interval, Bool(obj.has.init_enabled),
     Bool(obj.has.enabled)>> : obj \in current(A, "SBR", include)}

edd_sbr_list(A, include) ==
  {<<refda_adm_ietf_dtnma_agent_set_objpath(obj), obj.has.action, obj.has.condition, obj.has.min_interval,
     Lit("UVAST", "UINT64", obj.has.max_count), Bool(obj.has.init_enabled), Bool(obj.has.enabled)>> :
       obj \in current(A, "SBR", include)}

edd_tbr_list(A, include) ==
  {<<refda_adm_ietf_dtnma_agent_set_objpath(obj), obj.has.action, obj.has.start_time, obj.has.period,
     Lit("UVAST", "UINT64", obj.has.max_count), Bool(obj.has.init_enabled), Bool(obj.has.enabled)>> :
       obj \in current(A, "TBR", include)}

(* The EDDs that give texts and counters, and a row of exec-running: the front   *)
(* of a sequence and its stage, RUNNING unless it waits.                       *)
edd_sw_vendor == Name("vendor")
edd_sw_version == Name("version")
edd_counter(val) == Lit("UVAST", "UINT64", val)
edd_exec_running(pid, ref, stage_of) ==
  <<Lit("UVAST", "UINT64", pid), ref, Lit("none", "INT64", IF stage_of = "WAITING" THEN 2 ELSE 1)>>

-----------------------------------------------------------------------------
(* Properties.                                                             *)

base_modules_bind(A) ==
  /\ failures = 0
  /\ \A n \in DOMAIN nss : \A a \in Range(table(A, n)) :
       /\ \A i \in DOMAIN a.params : a.params[i].defval \notin {Undefined, EmptyTbl} =>
            cace_amm_type_match(bound(A, A.models, a.params[i].type), a.params[i].defval) = "POSITIVE"
       /\ \A b \in Range(table(A, n)) : a.typ = b.typ /\ a # b => Distinct(a.id, b.id)
(* refda_agent_bindrefs finds everything that the ADMs of the agent, and those  *)
(* of the library, refer to; each default of a parameter fits its type, but    *)
(* for formal-params, whose default table has no columns where its type has    *)
(* three; and no two objects of one type and one ADM share a name or an        *)
(* enumeration (the second would not be registered).                          *)
BaseModulesBind == stage = "bound" => base_modules_bind(Adms)

edd_at(i) == CHOOSE a \in Range(dtnma_agent) : a.typ = "EDD" /\ a.id.intenum = i
prod_type(A) == [i \in (0..16) \cup {18} |->
                   bound(A, A.models, edd_at(i).type)]
fits(type, rows) == \A row \in rows : cace_amm_type_match(type, TBL(Len(row), row)) = "POSITIVE"
ProdTypes == prod_type(Adms)
counters == (3..8) \cup {15}
fixed_fit(type) ==
  /\ cace_amm_type_match(type[0], edd_sw_vendor) = "POSITIVE" /\ cace_amm_type_match(type[1], edd_sw_version) = "POSITIVE"
  /\ \A i \in counters, val \in {0, UINT64_MAX} : cace_amm_type_match(type[i], edd_counter(val)) = "POSITIVE"
  /\ fits(type[9], {edd_exec_running(UINT64_MAX, ietf_ref("CTRL", 1, 1), "RUNNING")})
all_fit(A, type) ==
  /\ objs = <<>> => fixed_fit(type)
  /\ fits(type[2], edd_capability) /\ fits(type[16], edd_odm_list)
  /\ \A include \in (IF objs = <<>> THEN BOOLEAN ELSE {FALSE}) :
       /\ fits(type[18], edd_ident_list(A, include, TRUE)) /\ fits(type[10], edd_typedef_list(A, include))
       /\ fits(type[14], edd_typed_list(A, "CONST", include)) /\ fits(type[11], edd_typed_list(A, "VAR", include))
       /\ fits(type[12], edd_sbr_list(A, include)) /\ fits(type[13], edd_tbr_list(A, include))

(* What each EDD of the agent gives has the produced type that the EDD is        *)
(* registered with, whatever the controls left behind: refda_edd_prod_check_   *)
(* result never replaces it by undefined.  Left out is exec-running while a    *)
(* control waits, whose stage is not one of the two that the type of its column *)
(* has.  (What the controls do not change is looked at before there are         *)
(* objects in ODMs.)                                                          *)
ProducedFits == stage = "running" => all_fit(Adms, ProdTypes)

base_keys(A, key) ==
  LET obj == IdentAt(A, key)
  IN {base_ident(A, obj.has.bases[i], key, obj.id) : i \in DOMAIN obj.has.bases} \ {NoKey}
odm_idents == {o \in DOMAIN objs : objs[o].typ = "IDENT"}
named_idents(A) ==
  {Key(in_odm(o)) : o \in odm_idents}
    \cup {Key(obj) : obj \in {cace_amm_lookup_deref(A, ref) : ref \in UNION {Range(arg.bases) : arg \in IdentArgs}} \ {NoObj}}
above(A, keys) ==
  FoldSet(LAMBDA i, K : K \cup UNION {base_keys(A, k) : k \in K}, keys, 1..(Len(objs) + 1))

idents_listed(A) ==
  /\ stage = "running" /\ odm_idents # {}
  /\ \A i \in DOMAIN orgs : ~Claimed(i)
  /\ \A o \in odm_idents : Key(in_odm(o)) \notin above(A, base_keys(A, Key(in_odm(o))))
  => \A o \in odm_idents :
       LET key == Key(in_odm(o))
           up == above(A, {key})
           sure == \A p \in odm_idents : Key(in_odm(p)) \in up => data[p].ensured
       IN \A k \in named_idents(A) :
            LET listed == key \in Range(refda_adm_ietf_dtnma_agent_append_derived_ident(k))
            IN (listed => k \in up) /\ (sure /\ k \in up => listed)

(* ident-list with a base lists an IDENT of an ODM just when the names of bases  *)
(* lead from it to that base, provided that the last ensure-ident of every     *)
(* IDENT on the way succeeded: what is kept in both directions agrees, however  *)
(* often an IDENT is ensured, in whichever order the IDENTs are, by whatever   *)
(* names.  No IDENT is above itself and no organisation has lost its           *)
(* enumeration to another.                                                    *)
IdentsListed == idents_listed(Adms)
=============================================================================
