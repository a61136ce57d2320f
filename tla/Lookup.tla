------------------------------- MODULE Lookup -------------------------------
(***************************************************************************)
(* References: the object store they are looked up in (cace/amm/obj_*.c,   *)
(* lookup.c), the actual parameters they give (parameters.c), the          *)
(* translation of the values nested in one (cace/ari/algo.c) and the value *)
(* a CONST, VAR or EDD produces (refda/valprod.c).                          *)
(*                                                                         *)
(* Texts are numbers, as in Typing; a negative one begins with "!".        *)
(***************************************************************************)
EXTENDS AmmBase, Paths

CONSTANTS Namespaces,  \* the namespaces of the store, with their objects
          tolower(_)   \* a text in lower case

cace_ari_is_namespace(v) == v.prim = "REF" /\ v.typ = "NAMESPACE"

ASSUME StoreAssumption ==
  /\ \A m, n \in Namespaces : (m.org = n.org /\ m.model = n.model => m = n)
                              /\ (m.org # n.org => Distinct(m.org, n.org))
                              /\ (m # n /\ m.org = n.org => Distinct(m.model, n.model))
  /\ \A n \in Namespaces : \A a, b \in n.objs : a # b /\ a.typ = b.typ => Distinct(a.id, b.id)

-----------------------------------------------------------------------------
(* The store.                                                              *)

Null == [null |-> TRUE]
The(S) == IF S = {} THEN Null ELSE CHOOSE x \in S : TRUE

cace_amm_obj_store_find_org(seg) == {n \in Namespaces : Names(seg, n.org)}
cace_amm_obj_org_find_ns(org, seg) == The({n \in org : Names(seg, n.model)})
cace_amm_obj_ns_find_obj(ns, t, seg) == The({o \in ns.objs : o.typ = t /\ Names(seg, o.id)})

cace_amm_obj_store_find_ns(ref) ==
  cace_amm_obj_org_find_ns(cace_amm_obj_store_find_org(ref.org), ref.model)

-----------------------------------------------------------------------------
(* Actual parameters: a value for each formal one, or a code that is not 0.  *)
(* A formal parameter is [name, type, defval]; its index is its place.      *)

Param(name, type) == [name |-> name, type |-> type, defval |-> Undefined]

aparams_of(code, vals) ==
  [code |-> code, ordered |-> vals, any_undefined |-> \E i \in DOMAIN vals : vals[i] = Undefined]

populate_none(fparams) == aparams_of(0, [i \in 1..Len(fparams) |-> fparams[i].defval])

(* The value of one parameter from the one given, given as a set of at most  *)
(* one.                                                                     *)
actual(fparam, given) ==
  IF given = {} THEN Converted(fparam.defval)
  ELSE cace_amm_type_convert(fparam.type, Undefined, CHOOSE v \in given : TRUE)

all_or(code, as) ==
  IF \E i \in DOMAIN as : ~as[i].ok THEN aparams_of(2, <<>>)
  ELSE IF code # 0 THEN aparams_of(code, <<>>)
  ELSE aparams_of(0, [i \in DOMAIN as |-> as[i].out])

populate_ac(fparams, items) ==
  all_or(IF Len(items) > Len(fparams) THEN 3 ELSE 0,
         [i \in 1..Len(fparams) |-> actual(fparams[i], IF i <= Len(items) THEN {items[i]} ELSE {})])

(* A key is a text or a UVAST, Bad when it is neither. *)
normalize_key(key) == CASE key.prim = "REF" -> Bad
                        [] key.prim = "TSTR" -> [key EXCEPT !.num = tolower(key.num)]
                        [] OTHER -> builtin_convert("UVAST", key)

RECURSIVE norm_map(_, _)
norm_map(pairs, norm) ==
  IF pairs = <<>> THEN norm
  ELSE norm_map(Tail(pairs), set_at(norm, normalize_key(Head(pairs)[1]), Head(pairs)[2]))

(* A parameter is given under its index or under its name, not under both;   *)
(* `given` has the places of its keys in the map.                           *)
given_in(norm, fparams) ==
  [i \in 1..Len(fparams) |->
     {j \in 1..Len(norm) : norm[j][1] \in {Lit("UVAST", "UINT64", i - 1), Lit("none", "TSTR", fparams[i].name)}}]

populate_given(fparams, norm, given) ==
  LET twice == {i \in DOMAIN given : Cardinality(given[i]) = 2}
      as == [i \in DOMAIN given |-> actual(fparams[i], {norm[j][2] : j \in given[i]})]
  IN CASE \E j \in 1..Len(norm) : norm[j][1] = Bad -> aparams_of(4, <<>>)
       [] twice # {} -> aparams_of(IF \E i \in 1..(Min(twice) - 1) : ~as[i].ok THEN 2 ELSE 4, <<>>)
       [] OTHER -> all_or(IF (1..Len(norm)) \subseteq UNION {given[i] : i \in DOMAIN given} THEN 0 ELSE 3, as)

populate_norm(fparams, norm) == populate_given(fparams, norm, given_in(norm, fparams))
populate_am(fparams, pairs) == populate_norm(fparams, norm_map(pairs, <<>>))

cace_amm_actual_param_set_populate(fparams, gparams) ==
  CASE gparams = NoParams -> populate_none(fparams)
    [] IsAC(gparams) -> populate_ac(fparams, gparams.items)
    [] IsAM(gparams) -> populate_am(fparams, gparams.pairs)

(* A lookup that fails keeps the namespace and the object it found.         *)
deref_result(code, ns, obj, aparams) == [code |-> code, ns |-> ns, obj |-> obj, aparams |-> aparams]

deref_aparams(ns, obj, aparams) ==
  IF aparams.code # 0 THEN deref_result(7 + aparams.code, ns, obj, Null) ELSE deref_result(0, ns, obj, aparams)

deref_obj(ref, ns, obj) ==
  IF obj = Null THEN deref_result(6, ns, Null, Null)
  ELSE deref_aparams(ns, obj, cace_amm_actual_param_set_populate(obj.fparams, ref.params))

deref_ns(ref, org, ns) ==
  CASE org = {} -> deref_result(3, Null, Null, Null)
    [] ns = Null -> deref_result(4, Null, Null, Null)
    [] OTHER -> deref_obj(ref, ns, cace_amm_obj_ns_find_obj(ns, ref.typ, ref.obj))

deref_org(ref, org) == deref_ns(ref, org, cace_amm_obj_org_find_ns(org, ref.model))

cace_amm_lookup_deref(ref) ==
  CASE ref.prim # "REF" -> deref_result(1, Null, Null, Null)
    [] ref.typ = "NAMESPACE" -> deref_result(2, Null, Null, Null)
    [] OTHER -> deref_org(ref, cace_amm_obj_store_find_org(ref.org))

-----------------------------------------------------------------------------
(* The translation of a value: a LABEL is replaced, every other value is     *)
(* copied with the values in it translated.  A translator is a record: one   *)
(* of a production holds the parameters, their names and keeps a LABEL that   *)
(* names none; one of an evaluation holds operands and fails on a LABEL that  *)
(* is not the index of one.                                                  *)

(* An integer LABEL of a produced value is the index of a parameter: the code *)
(* reads the array of parameters without comparing the two.                  *)
refda_valprod_label_subst_map(tr, label) ==
  LET named == {i \in 1..Len(tr.names) : tr.names[i] = label.num}
  IN CASE label.prim = "TSTR" /\ named # {} -> Converted(tr.values[Max(named)])
       [] label.prim = "INT64" /\ label.num >= 0 -> Converted(tr.values[label.num + 1])
       [] OTHER -> Converted(label)

(* A reference that replaces an item of the expression itself is wrapped in   *)
(* the OPER that gives it back, whose path is tr.ref.                        *)
refda_eval_label_subst(tr, value, in_expr) ==
  IF value.prim = "REF" /\ in_expr THEN [tr.ref EXCEPT !.params = AC(<<value>>)] ELSE value

(* The number an integer gives, in a set, empty when no INT holds it.       *)
cace_ari_get_int(v) ==
  IF v.prim \in {"UINT64", "INT64"} /\ v.num \in INT32_MIN..INT32_MAX THEN {v.num} ELSE {}

operand_label(tr, label, in_expr) ==
  IF \E n \in cace_ari_get_int(label) : n \in 0..(Len(tr.values) - 1)
    THEN Converted(refda_eval_label_subst(tr, tr.values[label.num + 1], in_expr))
    ELSE Failed(Undefined)

AllOk(rs) == \A i \in 1..Len(rs) : rs[i].ok
Outs(rs) == [i \in 1..Len(rs) |-> rs[i].out]

(* `parent` is the kind of value that the one translated is an item of.      *)
RECURSIVE cace_ari_translate_ari(_, _, _, _)
cace_ari_translate_ari(tr, v, depth, parent) ==
  LET each(items, kind) == [i \in 1..Len(items) |-> cace_ari_translate_ari(tr, items[i], depth + 1, kind)]
      keys(m, kind) == each([i \in 1..Len(m.pairs) |-> m.pairs[i][1]], kind)
      vals(m, kind) == each([i \in 1..Len(m.pairs) |-> m.pairs[i][2]], kind)
      map_ac(a, kind) == LET rs == each(a.items, kind)
                         IN [ok |-> AllOk(rs), out |-> AC(Outs(rs))]
      map_am(m, kind) == LET ks == keys(m, kind)
                             vs == vals(m, kind)
                         IN [ok |-> AllOk(ks) /\ AllOk(vs),
                             out |-> AM(FoldLeft(LAMBDA ps, i : set_at(ps, ks[i].out, vs[i].out), <<>>,
                                                 [i \in 1..Len(ks) |-> i]))]
  IN CASE v.prim # "REF" /\ v.typ = "LABEL" ->
            (IF tr.production THEN refda_valprod_label_subst_map(tr, v)
             ELSE operand_label(tr, v, depth = 1 /\ parent = "AC"))
       [] v.prim = "REF" ->
            (LET rs == CASE v.params = NoParams -> Converted(NoParams)
                         [] IsAC(v.params) -> map_ac(v.params, "REF")
                         [] IsAM(v.params) -> map_am(v.params, "REF")
             IN [ok |-> rs.ok, out |-> [v EXCEPT !.params = rs.out]])
       [] IsAC(v) -> map_ac(v, "AC")
       [] IsAM(v) -> map_am(v, "AM")
       [] IsTBL(v) -> (LET rs == each(v.items, "TBL")
                       IN [ok |-> AllOk(rs), out |-> TBL(v.ncols, Outs(rs))])
       [] OTHER -> Converted(v)

cace_ari_translate(tr, v) == cace_ari_translate_ari(tr, v, 0, "none")

-----------------------------------------------------------------------------
(* The production of a value.                                              *)

refda_valprod_label_subst(deref, value) ==
  cace_ari_translate([production |-> TRUE, values |-> deref.aparams.ordered,
                      names |-> [i \in 1..Len(deref.obj.fparams) |-> deref.obj.fparams[i].name]],
                     value).out

refda_valprod_const_run(deref) == refda_valprod_label_subst(deref, deref.obj.value)
refda_valprod_var_run(deref) == refda_valprod_label_subst(deref, deref.obj.value)

(* A value that is not of the type the EDD declares is undefined. *)
refda_edd_prod_check_result(edd, value) ==
  IF cace_amm_type_match(edd.prod_type, value) = "POSITIVE" THEN value ELSE Undefined

(* The callback of an EDD is not modelled: `value` is the result it sets.   *)
refda_valprod_edd_run(deref) == refda_edd_prod_check_result(deref.obj, deref.obj.value)

(* Production needs the permission of the groups of the evaluation.         *)
refda_valprod_run(deref) ==
  CASE ~deref.obj.permitted -> [code |-> 3, value |-> Undefined]
    [] deref.obj.typ = "CONST" -> [code |-> 0, value |-> refda_valprod_const_run(deref)]
    [] deref.obj.typ = "VAR" -> [code |-> 0, value |-> refda_valprod_var_run(deref)]
    [] deref.obj.typ = "EDD" -> [code |-> 0, value |-> refda_valprod_edd_run(deref)]
    [] OTHER -> [code |-> 2, value |-> Undefined]

-----------------------------------------------------------------------------
(* The type that an ARITYPE literal or a reference to a TYPEDEF names.       *)

(* The enumeration of each type, and the text that names it.                *)
cace_ari_type_t ==
  [LITERAL |-> 255, NULL |-> 0, BOOL |-> 1, BYTE |-> 2, INT |-> 4, UINT |-> 5, VAST |-> 6, UVAST |-> 7,
   REAL32 |-> 8, REAL64 |-> 9, TEXTSTR |-> 10, BYTESTR |-> 11, TP |-> 12, TD |-> 13, LABEL |-> 14,
   CBOR |-> 15, ARITYPE |-> 16, AC |-> 17, AM |-> 18, TBL |-> 19, EXECSET |-> 20, RPTSET |-> 21, OBJPAT |-> 24,
   OBJECT |-> -256, NAMESPACE |-> -255, IDENT |-> -1, CONST |-> -2, CTRL |-> -3, EDD |-> -4, OPER |-> -6,
   SBR |-> -8, TBR |-> -10, VAR |-> -11, TYPEDEF |-> -12]
TypeNames == DOMAIN cace_ari_type_t
TypeText(t) == 1000 + cace_ari_type_t[t]

(* The enumeration an ARITYPE literal gives, in a set, empty when it has none. *)
cace_ari_get_aritype_int(v) ==
  CASE v.prim = "REF" \/ v.typ # "ARITYPE" -> {}
    [] v.prim = "INT64" -> {v.num}
    [] v.prim = "TSTR" -> {cace_ari_type_t[t] : t \in {u \in TypeNames : TypeText(u) = v.num}}
    [] OTHER -> {}

typedef_of(deref) == IF deref.code = 0 /\ deref.obj.typ = "TYPEDEF" THEN deref.obj.type ELSE Null

refda_binding_type_from_name(name) ==
  IF name.prim = "REF" THEN typedef_of(cace_amm_lookup_deref(name))
    ELSE LET named == {t \in TypeNames : cace_ari_type_t[t] \in cace_ari_get_aritype_int(name)}
         IN IF named = {} THEN Null ELSE Builtin(CHOOSE t \in named : TRUE)
=============================================================================
