-------------------------------- MODULE Eval --------------------------------
(***************************************************************************)
(* The evaluation of expressions (refda/eval.c): a target is expanded to a  *)
(* list of values and OPERs, which is reduced over a stack, and the OPERs   *)
(* of ietf_dtnma_agent.c that evaluate expressions or OPERs themselves.     *)
(*                                                                         *)
(* `frames` holds the reductions that are under way, the one of the target   *)
(* first; the last one takes the steps.  A frame is                         *)
(*   input  the items still to reduce     stack  the values so far          *)
(*   code   0, or why the reduction failed                                  *)
(*   then   what the OPER that started it does with its outcome.            *)
(***************************************************************************)
EXTENDS Opers

VARIABLE frames

(* The codes that refda_eval_* return. *)
BAD_TYPE == 3
DEREF_FAILED == 4
PROD_FAILED == 5
NON_SINGLE == 6

outcome(code, result) == [code |-> code, result |-> result]

(* The path of the OPER `ref`, which gives its parameter back. *)
ref_oper == Ref("OPER", IntId(1), IntId(1), IntId(43), NoParams)

-----------------------------------------------------------------------------
(* Expansion.                                                              *)

refda_eval_item(v, deref) == [value |-> v, deref |-> deref]

expanded(code, item) == [code |-> code, item |-> item]

expand_prod(prod) ==
  IF prod.code = 0 THEN expanded(0, refda_eval_item(prod.value, Null)) ELSE expanded(PROD_FAILED, Null)

expand_ref(deref) ==
  CASE deref.code # 0 -> expanded(DEREF_FAILED, Null)
    [] deref.obj.typ \in {"CONST", "VAR", "EDD"} -> expand_prod(refda_valprod_run(deref))
    [] deref.obj.typ = "OPER" -> expanded(0, refda_eval_item(Undefined, deref))
    [] OTHER -> expanded(BAD_TYPE, Null)

refda_eval_expand_item(in) ==
  IF in.prim # "REF" THEN expanded(0, refda_eval_item(in, Null)) ELSE expand_ref(cace_amm_lookup_deref(in))

(* The input of a reduction, or the code of the first item that fails. *)
input_of(code, list) == [code |-> code, input |-> list]

expand_items(items) ==
  LET bad == {i \in DOMAIN items : items[i].code # 0}
  IN IF bad # {} THEN input_of(items[Min(bad)].code, <<>>)
     ELSE input_of(0, [i \in DOMAIN items |-> items[i].item])

refda_eval_expand_expr(ac) ==
  IF IsAC(ac) THEN expand_items([i \in 1..Len(ac.items) |-> refda_eval_expand_item(ac.items[i])])
  ELSE input_of(BAD_TYPE, <<>>)

(* A reference that is not found leaves the input empty and reports nothing. *)
expand_value(prod) == IF prod.code = 0 THEN refda_eval_expand_expr(prod.value) ELSE input_of(1, <<>>)

expand_deref(deref) == IF deref.code = 0 THEN expand_value(refda_valprod_run(deref)) ELSE input_of(0, <<>>)

refda_eval_expand_target(target) ==
  IF target.prim # "REF" THEN refda_eval_expand_expr(target) ELSE expand_deref(cace_amm_lookup_deref(target))

-----------------------------------------------------------------------------
(* The context of an OPER: its operands are the last values of the stack,    *)
(* in its order, converted to their types.  An OPER that has a bare sequence *)
(* for operand takes its values from the stack itself.                      *)
populated(deref, code, operands, rest) ==
  [code |-> code, aparams |-> deref.aparams.ordered, any_undefined |-> deref.aparams.any_undefined,
   operands |-> operands, stack |-> rest]

populate_operands(deref, rs, rest) == populated(deref, IF AllOk(rs) THEN 0 ELSE 3, Outs(rs), rest)

(* Mutant: the operands are taken in the order of the stack from its top. *)
populate_from_top(deref, stack) ==
  LET types == deref.obj.operand_types
      below == Len(stack) - Len(types)
  IN CASE \E i \in 1..Len(types) : types[i].class = "seq" -> populated(deref, 0, <<>>, stack)
       [] below < 0 -> populated(deref, 2, <<>>, stack)
       [] OTHER -> populate_operands(deref, [i \in 1..Len(types) |-> fresh(types[i], stack[Len(stack) + 1 - i])],
                                     SubSeq(stack, 1, below))

refda_oper_eval_ctx_populate(deref, stack) ==
  LET types == deref.obj.operand_types
      below == Len(stack) - Len(types)
  IN CASE \E i \in 1..Len(types) : types[i].class = "seq" -> populated(deref, 0, <<>>, stack)
       [] below < 0 -> populated(deref, 2, <<>>, stack)
       [] OTHER -> populate_operands(deref, [i \in 1..Len(types) |-> fresh(types[i], stack[below + i])],
                                     SubSeq(stack, 1, below))

(* The callbacks of the registrations, but for those that evaluate. *)
evaluate(name, ctx) ==
  CASE name = "negate" -> oper_negate(ctx)
    [] name = "add" -> oper_add(ctx)
    [] name = "sub" -> oper_sub(ctx)
    [] name = "multiply" -> oper_multiply(ctx)
    [] name = "divide" -> oper_divide(ctx)
    [] name = "remainder" -> oper_remainder(ctx)
    [] name = "bit-not" -> oper_bit_not(ctx)
    [] name = "bit-and" -> oper_bit_and(ctx)
    [] name = "bit-or" -> oper_bit_or(ctx)
    [] name = "bit-xor" -> oper_bit_xor(ctx)
    [] name = "bool-not" -> oper_bool_not(ctx)
    [] name = "bool-and" -> oper_bool_and(ctx)
    [] name = "bool-or" -> oper_bool_or(ctx)
    [] name = "bool-xor" -> oper_bool_xor(ctx)
    [] name = "compare-eq" -> oper_compare_eq(ctx)
    [] name = "compare-ne" -> oper_compare_ne(ctx)
    [] name = "compare-gt" -> oper_compare_gt(ctx)
    [] name = "compare-ge" -> oper_compare_ge(ctx)
    [] name = "compare-lt" -> oper_compare_lt(ctx)
    [] name = "compare-le" -> oper_compare_le(ctx)
    [] name = "list-get" -> oper_list_get(ctx)
    [] name = "map-get" -> oper_map_get(ctx)
    [] name = "match-regexp" -> oper_match_regexp(ctx)
    [] name = "is-undefined" -> oper_is_undefined(ctx)
    [] name = "is-not-undefined" -> oper_is_not_undefined(ctx)
    [] name = "tbl-get" -> oper_tbl_get(ctx)
    [] name = "strict-eq" -> oper_strict_eq(ctx)
    [] name = "strict-ne" -> oper_strict_ne(ctx)
    [] name = "is-truthy" -> oper_is_truthy(ctx)
    [] name = "is-org-private" -> oper_is_org_private(ctx)
    [] name = "match-org-int-range" -> oper_match_org_int_range(ctx)
    [] name = "is-model-odm" -> oper_is_model_odm(ctx)
    [] name = "match-model-int-range" -> oper_match_model_int_range(ctx)
    [] name = "is-same-ns" -> oper_is_same_ns(ctx)
    [] name = "is-same-object" -> oper_is_same_object(ctx)
    [] name = "match-object-type" -> oper_match_object_type(ctx)
    [] name = "ref" -> oper_ref(ctx)
    [] name = "match-object-int-range" -> oper_match_object_int_range(ctx)
    [] name = "match-type" -> oper_match_type(ctx)
    [] name = "convert-type" -> oper_convert_type(ctx)

-----------------------------------------------------------------------------
(* Frames.                                                                 *)

Frame(code, input, stack, then) == [code |-> code, input |-> input, stack |-> stack, then |-> then]

top == Last(frames)
Below == Front(frames)

(* The value that an OPER sets is converted to the type of its result and    *)
(* pushed.                                                                  *)
PushedResult(f, r) == IF r.ok THEN [f EXCEPT !.stack = Append(@, r.out)] ELSE [f EXCEPT !.code = 4]
Pushed(f, typ, value) == PushedResult(f, fresh(typ, value))

(* The reduction of a target, and of one whose LABELs are replaced first.    *)
FrameOf(e, then) == Frame(e.code, e.input, <<>>, then)
refda_eval_target(target, then) == FrameOf(refda_eval_expand_target(target), then)

eval_translated(sub_tgt, then) ==
  IF sub_tgt.ok THEN refda_eval_target(sub_tgt.out, then) ELSE Frame(2, <<>>, <<>>, then)
refda_eval_filter(target, tr, then) == eval_translated(cace_ari_translate(tr, target), then)

unary_eval_sub_label(value) == [production |-> FALSE, values |-> <<value>>, ref |-> ref_oper]
nary_eval_sub_label(operands) == [production |-> FALSE, values |-> operands, ref |-> ref_oper]
tbl_filter_sub_label(tbl, row) ==
  [production |-> FALSE, ref |-> ref_oper,
   values |-> SubSeq(tbl.items, row * tbl.ncols + 1, (row + 1) * tbl.ncols)]

(* What becomes of the outcome of a frame. *)
Done == [kind |-> "done"]
SubResult(res_type) == [kind |-> "sub", res_type |-> res_type]
NextPredicate(derefs, value, init, stop) ==
  [kind |-> "predicate", derefs |-> derefs, value |-> value, init |-> init, stop |-> stop]
NextRow(filter, columns, tbl, row, out) ==
  [kind |-> "filter", filter |-> filter, columns |-> columns, tbl |-> tbl, row |-> row, out |-> out]

-----------------------------------------------------------------------------
(* The steps of a reduction.                                               *)

Reducing == frames # <<>> /\ top.code = 0 /\ top.input # <<>>
item == Head(top.input)

(* A value is pushed. *)
PushValue ==
  /\ Reducing /\ item.deref = Null
  /\ frames' = Append(Below, [top EXCEPT !.input = Tail(@), !.stack = Append(@, item.value)])

(* An OPER is given its context `ctx`, or the reduction fails.  `popped` is    *)
(* the frame without the OPER and its operands.                             *)
desc == item.deref.obj
popped(ctx) == [top EXCEPT !.input = Tail(@), !.stack = ctx.stack]
Entered(f, sub) == Below \o <<f, sub>>
SetResult(ctx, value) == Append(Below, Pushed(popped(ctx), desc.res_type, value))

NoContext(ctx) ==
  /\ ctx.code # 0
  /\ frames' = Append(Below, [popped(ctx) EXCEPT !.code = 2])

(* The OPERs that evaluate; they set no value when a parameter is undefined.  *)
Evaluating == {"eval", "unary-eval", "nary-eval", "predicate-all", "predicate-any", "predicate-none", "tbl-filter"}
Able(ctx, names) == ctx.code = 0 /\ desc.evaluate \in names /\ ~ctx.any_undefined

refda_eval_oper(ctx) ==
  /\ ctx.code = 0
  /\ \E value \in IF desc.evaluate \notin Evaluating THEN evaluate(desc.evaluate, ctx)
                   ELSE IF ctx.any_undefined THEN {Undefined} ELSE {} :
       frames' = SetResult(ctx, value)

oper_eval(ctx) ==
  /\ Able(ctx, {"eval"})
  /\ frames' = Entered(popped(ctx), refda_eval_target(ctx.aparams[1], SubResult(desc.res_type)))

oper_unary_eval(ctx) ==
  /\ Able(ctx, {"unary-eval"})
  /\ frames' = Entered(popped(ctx), refda_eval_filter(ctx.aparams[1], unary_eval_sub_label(ctx.operands[1]),
                                                      SubResult(desc.res_type)))

(* nary-eval takes as many values from the stack as its parameter says, and   *)
(* empties a stack that has fewer.                                          *)
oper_nary_eval(ctx) ==
  LET size == Len(top.stack)
  IN /\ Able(ctx, {"nary-eval"})
     /\ \E n \in cace_ari_get_int(ctx.aparams[1]) :
          frames' = IF size < n THEN SetResult([ctx EXCEPT !.stack = <<>>], Undefined)
                    ELSE Entered([popped(ctx) EXCEPT !.stack = SubSeq(@, 1, size - n)],
                                 refda_eval_filter(ctx.aparams[2],
                                                   nary_eval_sub_label(SubSeq(top.stack, size - n + 1, size)),
                                                   SubResult(desc.res_type)))

(* predicate-all, predicate-any and predicate-none, by what they result in    *)
(* without an OPER, before the first one, and which truth ends them.         *)
compose_args == [x \in {"predicate-all", "predicate-any", "predicate-none"} |->
  CASE x = "predicate-all" -> [empty |-> FALSE, init |-> TRUE, stop |-> FALSE]
    [] x = "predicate-any" -> [empty |-> FALSE, init |-> FALSE, stop |-> TRUE]
    [] x = "predicate-none" -> [empty |-> TRUE, init |-> TRUE, stop |-> TRUE]]

(* One OPER of the list gets a stack with the value. *)
predicate_frame(derefs, value, init, stop) ==
  Frame(0, <<refda_eval_item(Undefined, Head(derefs))>>, <<value>>,
        NextPredicate(Tail(derefs), value, init, stop))

predicate_compose(ctx) ==
  LET operators == ctx.aparams[1].items
      args == compose_args[desc.evaluate]
  IN /\ Able(ctx, DOMAIN compose_args)
     /\ frames' =
          IF operators = <<>> THEN SetResult(ctx, Bool(args.empty))
          ELSE Entered(popped(ctx),
                       predicate_frame([i \in 1..Len(operators) |-> cace_amm_lookup_deref(operators[i])],
                                       ctx.operands[1], args.init, args.stop))

(* The reduction of the filter of one row. *)
row_frame(filter, columns, tbl, row, out) ==
  refda_eval_filter(filter, tbl_filter_sub_label(tbl, row), NextRow(filter, columns, tbl, row, out))

(* A table has at least one column: its rows are counted by a division by     *)
(* their number.                                                            *)
cace_ari_tbl_num_rows(tbl) == Len(tbl.items) \div tbl.ncols

oper_tbl_filter(ctx) ==
  LET tbl == ctx.operands[1]
      columns == ctx.aparams[2].items
  IN /\ Able(ctx, {"tbl-filter"})
     /\ frames' =
          IF IsTBL(tbl) /\ cace_ari_tbl_num_rows(tbl) > 0
          THEN Entered(popped(ctx), row_frame(ctx.aparams[1], columns, tbl, 0, <<>>))
          ELSE SetResult(ctx, IF IsTBL(tbl) THEN TBL(Len(columns), <<>>) ELSE Undefined)

WithContext(ctx) ==
  \/ NoContext(ctx) \/ refda_eval_oper(ctx) \/ oper_eval(ctx) \/ oper_unary_eval(ctx)
  \/ oper_nary_eval(ctx) \/ predicate_compose(ctx) \/ oper_tbl_filter(ctx)

AtOper ==
  /\ Reducing /\ item.deref # Null
  /\ WithContext(refda_oper_eval_ctx_populate(item.deref, top.stack))

-----------------------------------------------------------------------------
(* The end of a reduction, with the single value left.                     *)

Ended == frames # <<>> /\ (top.code # 0 \/ top.input = <<>>)

end_of(f) == CASE f.code # 0 -> outcome(f.code, Undefined)
               [] Len(f.stack) = 1 -> outcome(0, f.stack[1])
               [] OTHER -> outcome(NON_SINGLE, Undefined)

(* The frames once the one that ended has set the result of its caller's OPER. *)
ResultSet(typ, value) == Append(Front(Below), Pushed(Last(Below), typ, value))
AtEnd(kind) == Ended /\ top.then.kind = kind

(* A sub-expression that fails gives the undefined value. *)
EndSub == AtEnd("sub") /\ frames' = ResultSet(top.then.res_type, end_of(top).result)

(* The next OPER of a predicate, unless the result is known.  One that fails *)
(* is not truthy.                                                           *)
EndPredicate ==
  LET p == top.then
      sub_result == IF top.code = 0 THEN Last(top.stack) ELSE Undefined
      stopped == cace_amm_ari_is_truthy(sub_result) = p.stop
  IN /\ AtEnd("predicate")
     /\ frames' = IF ~stopped /\ p.derefs # <<>>
                     THEN Append(Below, predicate_frame(p.derefs, p.value, p.init, p.stop))
                     ELSE ResultSet(Builtin("BOOL"), Bool(p.init # stopped))

(* The columns of a row whose filter is truthy are kept, and the next row is  *)
(* filtered.  A filter that fails and a column that is not one of the table's *)
(* leave no result.                                                         *)
EndFilter ==
  LET r == top.then
      o == end_of(top)
      match == cace_amm_ari_is_truthy(o.result)
      failed == o.code # 0 \/ \E i \in 1..Len(r.columns) : match /\ r.columns[i].num >= r.tbl.ncols
      out == IF ~match THEN r.out
             ELSE r.out \o [i \in 1..Len(r.columns) |-> r.tbl.items[r.row * r.tbl.ncols + r.columns[i].num + 1]]
  IN /\ AtEnd("filter")
     /\ frames' = IF ~failed /\ r.row + 1 < cace_ari_tbl_num_rows(r.tbl)
                     THEN Append(Below, row_frame(r.filter, r.columns, r.tbl, r.row + 1, out))
                     ELSE ResultSet(Builtin("TBL"), IF failed THEN Undefined ELSE TBL(Len(r.columns), out))

Steps == \/ PushValue \/ AtOper
         \/ EndSub \/ EndPredicate \/ EndFilter
=============================================================================
