---------------------------- MODULE Expressions ----------------------------
(***************************************************************************)
(* What expressions mean, without a stack: an expression is a tree, its     *)
(* postfix form is the target that Eval evaluates, and its meaning is what  *)
(* the descriptions of the OPERs in ietf_dtnma_agent.c say of the trees     *)
(* below it.  The specification evaluates trees, converts values to types,  *)
(* expands execution targets, reports on templates and applies the numeric   *)
(* OPERs; its properties compare the two.                                   *)
(***************************************************************************)
EXTENDS Reporting, Codec

CONSTANTS Trees,   \* the expressions that are evaluated
          Types,   \* the types that values are converted to
          Values,  \* the values that are converted
          Execs,   \* the targets of executions
          Templates,    \* the targets of reports, with the parts they have and the value each gives
          Destinations, \* the lists of destinations
          Managers      \* the managers that execute report-on

Leaf(v) == [node |-> "leaf", value |-> v]
Object(ref) == [node |-> "object", ref |-> ref]
Apply(ref, kids) == [node |-> "apply", ref |-> ref, kids |-> kids]
EvalOf(body, kids) == [node |-> "eval", body |-> body, kids |-> kids]
Short(body, kids) == [node |-> "short", body |-> body, kids |-> kids]
Predicate(mode, opers, kid) == [node |-> "predicate", mode |-> mode, opers |-> opers, kids |-> <<kid>>]
Filter(body, columns, kid) == [node |-> "filter", body |-> body, columns |-> columns, kids |-> <<kid>>]

OPER(enum, params) == [ref_oper EXCEPT !.obj = IntId(enum), !.params = params]
Label(i) == Lit("LABEL", "INT64", i)
IsLabel(v) == v.prim # "REF" /\ v.typ = "LABEL"

-----------------------------------------------------------------------------
(* The postfix form of a tree.  The OPER that evaluates a body is unary-eval  *)
(* with one operand, nary-eval with two or more and eval with none; a `short`  *)
(* one is a nary-eval that asks for one value more than there are.           *)
RECURSIVE Postfix(_)
Postfix(t) ==
  LET below == FlattenSeq([i \in 1..Len(t.kids) |-> Postfix(t.kids[i])])
      body == AC(Postfix(t.body))
  IN CASE t.node = "leaf" -> <<t.value>>
       [] t.node = "object" -> <<t.ref>>
       [] t.node = "apply" -> Append(below, t.ref)
       [] t.node = "eval" ->
            Append(below, CASE Len(t.kids) = 0 -> OPER(28, AC(<<body>>))
                            [] Len(t.kids) = 1 -> OPER(27, AC(<<body>>))
                            [] OTHER -> OPER(31, AC(<<Lit("none", "UINT64", Len(t.kids)), body>>)))
       [] t.node = "short" -> Append(below, OPER(31, AC(<<Lit("none", "UINT64", Len(t.kids) + 1), body>>)))
       [] t.node = "predicate" ->
            Append(below, OPER(CASE t.mode = "all" -> 24 [] t.mode = "any" -> 25 [] t.mode = "none" -> 26,
                               AC(<<AC(t.opers)>>)))
       [] t.node = "filter" ->
            Append(below, OPER(20, AC(<<body, AC([i \in 1..Len(t.columns) |->
                                                   Lit("UVAST", "UINT64", t.columns[i])])>>)))

target_of(t) == AC(Postfix(t))

-----------------------------------------------------------------------------
(* The meaning of a tree: values, or Fails where its evaluation gives none.   *)
(* `env` holds the values that LABELs stand for, once a body is bound; the    *)
(* outermost binding reaches into every body below.                         *)

Fails == [prim |-> "FAILS"]
Unbound == <<>>

Bind(v, env) == IF IsLabel(v) /\ env # Unbound THEN env[v.num + 1] ELSE v

(* The LABELs of a tree, in the parameters of its OPERs too. *)
RECURSIVE LabelsOf(_)
LabelsOf(t) ==
  LET params == IF t.ref.params = NoParams THEN <<>> ELSE t.ref.params.items
      below == UNION {LabelsOf(t.kids[i]) : i \in 1..Len(t.kids)}
  IN CASE t.node = "leaf" -> (IF IsLabel(t.value) THEN {t.value.num} ELSE {})
       [] t.node = "object" -> {}
       [] t.node = "apply" -> below \cup {params[i].num : i \in {j \in 1..Len(params) : IsLabel(params[j])}}
       [] t.node = "predicate" -> below
       [] OTHER -> below \cup LabelsOf(t.body)

Bindable(t, env) == LabelsOf(t) \subseteq 0..(Len(env) - 1)

(* An OPER, dereferenced, applied to values that are converted as `rs`. *)
OrFails(c) == IF c.ok THEN c.out ELSE Fails

AppliedTo(deref, rs) ==
  IF ~AllOk(rs) THEN {Fails}
  ELSE {OrFails(fresh(deref.obj.res_type, r)) :
          r \in evaluate(deref.obj.evaluate, [aparams |-> deref.aparams.ordered, operands |-> Outs(rs),
                                              any_undefined |-> deref.aparams.any_undefined])}

Applied(deref, vals) ==
  IF Fails \in Range(vals) \/ deref.code # 0 \/ Len(deref.obj.operand_types) # Len(vals) THEN {Fails}
  ELSE AppliedTo(deref, [i \in 1..Len(vals) |-> fresh(deref.obj.operand_types[i], vals[i])])

(* One value for each place, from the sets of values it may have. *)
Choice(sets) == {f \in [1..Len(sets) -> UNION {sets[i] : i \in 1..Len(sets)}] :
                   \A i \in 1..Len(sets) : f[i] \in sets[i]}

Truthy(v) == v # Fails /\ cace_amm_ari_is_truthy(v)
OrUndefined(v) == IF v = Fails THEN Undefined ELSE v

Combine(mode, vs) ==
  CASE mode = "all" -> Bool(vs # <<>> /\ \A i \in DOMAIN vs : Truthy(vs[i]))
    [] mode = "any" -> Bool(\E i \in DOMAIN vs : Truthy(vs[i]))
    [] mode = "none" -> Bool(~\E i \in DOMAIN vs : Truthy(vs[i]))

RowsOf(tbl) == [r \in 1..(Len(tbl.items) \div tbl.ncols) |->
                  SubSeq(tbl.items, (r - 1) * tbl.ncols + 1, r * tbl.ncols)]

(* The rows whose filter is truthy, cut down to the columns. *)
Filtered(rows, truths, columns, ncols) ==
  LET kept == SelectSeq([r \in 1..Len(rows) |-> r], LAMBDA r : Truthy(truths[r]))
      cut(r) == [i \in 1..Len(columns) |-> rows[r][columns[i] + 1]]
  IN IF \/ Fails \in {truths[r] : r \in 1..Len(rows)}
        \/ kept # <<>> /\ \E i \in 1..Len(columns) : columns[i] >= ncols
       THEN Undefined
       ELSE TBL(Len(columns), FlattenSeq([k \in 1..Len(kept) |-> cut(kept[k])]))

(* A body is an expression: it refers to no objects but those with a value.  *)
RECURSIVE IsExpr(_)
IsExpr(t) == CASE t.node = "leaf" -> TRUE
               [] t.node = "object" -> t.ref.typ \in {"CONST", "EDD", "VAR"}
               [] OTHER -> \A i \in 1..Len(t.kids) : IsExpr(t.kids[i])

(* The value of an object. *)
ValueOf(e) == IF e.code = 0 THEN e.item.value ELSE Fails

RECURSIVE Meaning(_, _)
Meaning(t, env) ==
  LET args == Choice([i \in 1..Len(t.kids) |-> Meaning(t.kids[i], env)])
      failing(vals) == Fails \in Range(vals)
      bound(vals) == IF env = Unbound THEN vals ELSE env
      body(e) == IF e # Unbound /\ env = Unbound /\ ~Bindable(t.body, e) THEN {Fails} ELSE Meaning(t.body, e)
      rows(tbl) == RowsOf(tbl)
      filtered(tbl) == IF ~fresh(UseAri("TBL"), tbl).ok THEN {Fails}
                       ELSE IF ~IsTBL(tbl) THEN {Undefined}
                       ELSE {Filtered(rows(tbl), truths, t.columns, tbl.ncols) :
                               truths \in Choice([r \in 1..Len(rows(tbl)) |-> body(bound(rows(tbl)[r]))])}
      ref == IF t.ref.params = NoParams THEN t.ref
             ELSE [t.ref EXCEPT !.params = AC([i \in 1..Len(t.ref.params.items) |->
                                                 Bind(t.ref.params.items[i], env)])]
  IN CASE t.node = "leaf" -> {Bind(t.value, env)}
       [] t.node = "object" -> {ValueOf(refda_eval_expand_item(t.ref))}
       [] t.node = "apply" -> UNION {Applied(cace_amm_lookup_deref(ref), vals) : vals \in args}
       [] t.node = "eval" ->
            UNION {IF failing(vals) \/ ~IsExpr(t.body) THEN {Fails}
                   ELSE {OrUndefined(v) : v \in body(bound(vals))} : vals \in args}
       [] t.node = "short" ->
            {IF failing(vals) \/ ~IsExpr(t.body) THEN Fails ELSE Undefined : vals \in args}
       [] t.node = "predicate" ->
            UNION {IF failing(vals) THEN {Fails}
                   ELSE {Combine(t.mode, subs) :
                           subs \in Choice([i \in 1..Len(t.opers) |-> Meaning(Apply(t.opers[i], <<Leaf(vals[1])>>), Unbound)])} : vals \in args}
       [] t.node = "filter" ->
            UNION {IF failing(vals) \/ ~IsExpr(t.body) THEN {Fails} ELSE filtered(vals[1]) : vals \in args}

-----------------------------------------------------------------------------
(* The other forms of a reference: its path in text instead of integers, and *)
(* its parameters in a map by their index or by their name.                 *)

Forms == {"given", "text", "index", "name"}

TextualObj(ref, ns, obj) ==
  [ref EXCEPT !.org = TextId(ns.org.name), !.model = TextId(ns.model.name),
              !.obj = IF obj = Null THEN @ ELSE TextId(obj.id.name)]

TextualIn(ref, ns) ==
  IF ns = Null THEN ref ELSE TextualObj(ref, ns, cace_amm_obj_ns_find_obj(ns, ref.typ, ref.obj))

Textual(ref) == TextualIn(ref, cace_amm_obj_store_find_ns(ref))

Mapped(form, obj, params) ==
  IF ~IsAC(params) \/ obj = Null THEN params
  ELSE AM([i \in 1..Len(params.items) |->
             <<IF form = "index" \/ i > Len(obj.fparams) THEN Lit("none", "UINT64", i - 1)
               ELSE Lit("none", "TSTR", obj.fparams[i].name), params.items[i]>>])

RECURSIVE InForm(_, _)
InForm(form, v) ==
  LET each(items) == [i \in 1..Len(items) |-> InForm(form, items[i])]
      pairs(ps) == [i \in 1..Len(ps) |-> <<InForm(form, ps[i][1]), InForm(form, ps[i][2])>>]
      params == CASE v.params = NoParams -> NoParams [] OTHER -> InForm(form, v.params)
      ref == [v EXCEPT !.params = params]
  IN CASE form = "given" -> v
       [] v.prim = "REF" /\ form = "text" -> Textual(ref)
       [] v.prim = "REF" -> [ref EXCEPT !.params = Mapped(form, cace_amm_lookup_deref(v).obj, params)]
       [] IsAC(v) -> AC(each(v.items))
       [] IsAM(v) -> AM(pairs(v.pairs))
       [] IsTBL(v) -> TBL(v.ncols, each(v.items))
       [] OTHER -> v

-----------------------------------------------------------------------------
(* The specification: a call of an operation and its result, and its return. *)

Evaluate(t, form) ==
  /\ call' = [op |-> "evaluating", lt |-> t, rt |-> form, res |-> Undefined]
  /\ frames' = <<refda_eval_target(InForm(form, target_of(t)), Done)>>

Evaluated ==
  /\ call.op = "evaluating" /\ AtEnd("done")
  /\ call' = [call EXCEPT !.op = "evaluate", !.res = end_of(top)]
  /\ frames' = <<>>

Convert(t, v) ==
  call' = [op |-> "convert", lt |-> v, rt |-> t,
           res |-> [match |-> cace_amm_type_match(t, v), conversion |-> fresh(t, v)]]

Name(t) ==
  call' = [op |-> "name", lt |-> Undefined, rt |-> t,
           res |-> cace_amm_type_set_name(cace_amm_type_get_name(t))]

Expand(target) ==
  call' = [op |-> "expand", lt |-> target, rt |-> Undefined, res |-> refda_exec_proc_expand(target)]

Inspect(ref) ==
  call' = [op |-> "inspect", lt |-> ref, rt |-> Undefined, res |-> ctrl_inspect(ref)]

ValuesInit == Init /\ frames = <<>>

ValuesNext == \/ Next /\ call.op \notin {"evaluating", "reporting"} /\ UNCHANGED frames
              \/ /\ call = NoCall
                 /\ \/ \E t \in Trees, form \in Forms : Evaluate(t, form)
                    \/ \E t \in Types, v \in Values : Convert(t, v) /\ UNCHANGED frames
                    \/ \E t \in Types : Name(t) /\ UNCHANGED frames
                    \/ \E t \in Execs : Expand(t) /\ UNCHANGED frames
                    \/ \E r \in Templates, dests \in Destinations, mgr \in Managers : report_on(r.target, dests, mgr)
                    \/ \E t \in Execs : Inspect(t) /\ UNCHANGED frames
                    \/ CodecNext /\ UNCHANGED frames
              \/ Steps /\ UNCHANGED call
              \/ Evaluated
              \/ ReportSteps

ValuesSpec == ValuesInit /\ [][ValuesNext]_<<call, frames>>

-----------------------------------------------------------------------------
(* Properties.                                                             *)

(* The reduction of the postfix form of an expression over its stack gives   *)
(* what the tree means, and fails only where the tree has no value: every    *)
(* OPER takes its own operands in their order, a sub-expression sees no      *)
(* stack but its own, and a failure in it is an undefined value outside.     *)
(* That does not depend on the form of the references: paths in integers or  *)
(* in text, parameters in a list, by index or by name.                       *)
EvalMatchesTree ==
  call.op = "evaluate" =>
    \E m \in Meaning(call.lt, Unbound) :
      IF call.res.code = 0 THEN m # Fails /\ InForm(call.rt, call.res.result) = InForm(call.rt, m) ELSE m = Fails

(* A part of a template that gives a value; a template, and a target that is  *)
(* none.                                                                    *)
Part(v, gives) == [ari |-> v, gives |-> gives]
AriOf(parts) == AC([i \in DOMAIN parts |-> parts[i].ari])
TemplateAt(target, parts) == [target |-> target, readable |-> TRUE, parts |-> parts]
NoTemplate(target) == [target |-> target, readable |-> FALSE, parts |-> <<>>]

(* report-on sends each destination, in their order, one report, with a value *)
(* for each part of the template at its place, whatever became of the parts   *)
(* before it: what the expression or the object gives, and the undefined     *)
(* value where there is none.  It sends none on a target    *)
(* that is no template or may not be read, and none to an undefined           *)
(* destination.                                                             *)
ReportsComplete ==
  call.op = "report" =>
    LET to == IF call.lt.dests.items = <<>> THEN <<call.lt.mgr_ident>> ELSE call.lt.dests.items
        sent == SelectSeq(to, LAMBDA d : d # Undefined)
    IN \A r \in {s \in Templates : s.target = call.lt.template} :
         /\ [i \in DOMAIN call.res |-> call.res[i].destination] = IF r.readable THEN sent ELSE <<>>
         /\ \A i \in DOMAIN call.res : call.res[i].items = [j \in DOMAIN r.parts |-> r.parts[j].gives]

(* The built-in types that a type is made of, and "seq" for a sequence.      *)
RECURSIVE PartsOf(_)
PartsOf(t) ==
  CASE t.class = "invalid" -> {}
    [] t.class = "builtin" -> {t.name}
    [] t.class = "use" -> PartsOf(t.base)
    [] t.class = "ulist" -> PartsOf(t.item)
    [] t.class = "seq" -> {"seq"} \cup PartsOf(t.item)
    [] t.class = "dlist" -> UNION {PartsOf(t.types[i]) : i \in 1..Len(t.types)}
    [] t.class = "umap" -> PartsOf(t.key) \cup PartsOf(t.val)
    [] t.class = "tblt" -> UNION {PartsOf(t.cols[i].type) : i \in 1..Len(t.cols)}
    [] t.class = "union" -> UNION {PartsOf(t.choices[i]) : i \in 1..Len(t.choices)}

(* A container with an undefined item, which every type of items lets match  *)
(* and a constrained one does not convert.                                  *)
HoldsUndefined(v) ==
  \/ (IsAC(v) \/ IsTBL(v)) /\ \E i \in 1..Len(v.items) : v.items[i] = Undefined
  \/ IsAM(v) /\ \E i \in 1..Len(v.pairs) : Undefined \in {v.pairs[i][1], v.pairs[i][2]}

(* The name of a type that holds that of a map, from which it is not set.      *)
RECURSIVE NamesMap(_)
NamesMap(t) ==
  CASE t.class \in {"invalid", "builtin", "use"} -> FALSE
    [] t.class \in {"ulist", "seq"} -> NamesMap(t.item)
    [] t.class = "dlist" -> \E i \in 1..Len(t.types) : NamesMap(t.types[i])
    [] t.class = "umap" -> TRUE
    [] t.class = "tblt" -> \E i \in 1..Len(t.cols) : NamesMap(t.cols[i].type)
    [] t.class = "union" -> \E i \in 1..Len(t.choices) : NamesMap(t.choices[i])

(* A type converts every value it matches, a converted value is one it       *)
(* matches, and converting that changes nothing.  Left out are sequences,     *)
(* which take what matches where they are matched and what converts where     *)
(* they are converted, and the match of a time, which asks nothing of a       *)
(* literal that has no type.  A type set from the name of a type has that     *)
(* name.                                                                     *)
ConvertStable ==
  /\ call.op = "convert" /\ "seq" \notin PartsOf(call.rt) =>
       LET conv == call.res.conversion
       IN /\ /\ call.res.match = "POSITIVE"
             /\ PartsOf(call.rt) \cap TimeTypes = {} /\ ~HoldsUndefined(call.lt)
             => conv.ok
          /\ conv.ok => /\ cace_amm_type_match(call.rt, conv.out) # "NEGATIVE"
                        /\ fresh(call.rt, conv.out) = conv
  /\ call.op = "name" /\ ~NamesMap(call.rt) =>
       /\ call.rt # Invalid => call.res.ok
       /\ cace_amm_type_get_name(call.res.type) = cace_amm_type_get_name(call.rt)

(* Where the expansion of a target ends, in order and past every failure:    *)
(* at controls, and at what is no target.                                   *)
End(target, ctrl, good) == <<[at |-> target, ctrl |-> ctrl, good |-> good]>>

RECURSIVE EndsOf(_)
EndsOfProduct(target, prod) == IF prod.code = 0 THEN EndsOf(prod.value) ELSE End(target, FALSE, FALSE)
EndsOfObject(target, deref) ==
  IF deref.code = 0 /\ deref.obj.typ \in {"CONST", "EDD", "VAR"}
    THEN EndsOfProduct(target, refda_valprod_run(deref))
    ELSE IF deref.code = 0 /\ deref.obj.typ = "CTRL" THEN End(target, TRUE, deref.obj.permitted)
    ELSE End(target, FALSE, FALSE)
EndsOf(target) ==
  CASE target.prim = "REF" -> EndsOfObject(target, cace_amm_lookup_deref(target))
    [] IsAC(target) /\ (\A i \in 1..Len(target.items) :
                           target.items[i] = Undefined \/ target.items[i].typ \in {"CTRL", "CONST", "EDD", "VAR"}) ->
         FlattenSeq([i \in 1..Len(target.items) |-> EndsOf(target.items[i])])
    [] OTHER -> End(target, FALSE, FALSE)

ExpandedTo(res, ends) ==
  LET bad == {i \in DOMAIN ends : ~ends[i].good}
      kept == IF bad = {} THEN ends ELSE SubSeq(ends, 1, Min(bad) - (IF ends[Min(bad)].ctrl THEN 0 ELSE 1))
  IN /\ res.items = [i \in DOMAIN kept |-> kept[i].at]
     /\ res.code = 0 <=> bad = {}
     /\ res.invalid = (IF bad = {} THEN <<>> ELSE <<ends[Min(bad)].at>>)

(* refda_exec_proc_expand puts the controls of a target into the sequence in  *)
(* their order, through macros in objects and objects in macros; it fails     *)
(* exactly when some end is no permitted control, and then the sequence has   *)
(* the controls before that end, that one too if it is a control, and just    *)
(* that one is reported.                                                     *)
ExpandsInOrder == call.op = "expand" => ExpandedTo(call.res, EndsOf(call.lt))
=============================================================================
