------------------------------- MODULE Opers -------------------------------
(***************************************************************************)
(* The OPERs of ietf_dtnma_agent.c that evaluate no other expression: what  *)
(* their callbacks make of actual parameters and converted operands.  A     *)
(* callback gives the set of its possible results, Undefined where it sets  *)
(* none; `ctx` is [aparams, any_undefined, operands].                       *)
(***************************************************************************)
EXTENDS Lookup, Bitwise

(* pcre2_match: the texts a pattern matches, none for one that is no pattern. *)
CONSTANT pcre2_match(_, _)

Truth(b) == {Bool(b)}
Nothing == {Undefined}

(* The guard of the callbacks that have parameters. *)
Guarded(ctx, results) == IF ctx.any_undefined THEN Nothing ELSE results

-----------------------------------------------------------------------------
(* Numbers.                                                                *)

(* The result is given the operand's type, NULL when it has none.           *)
typed_as(val, n) == Lit(IF val.typ = "none" THEN "NULL" ELSE val.typ, val.prim, n)

oper_negate(ctx) ==
  LET val == ctx.operands[1]
  IN CASE val.prim = "UINT64" -> {typed_as(val, uint64(-val.num))}
       [] val.prim = "INT64" -> {typed_as(val, int64(-val.num))}
       [] val.prim = "FLOAT64" -> {typed_as(val, IF val.num = NaN THEN NaN ELSE -val.num)}
       [] OTHER -> Nothing

Results(S) == {Result(r) : r \in S}

oper_add(ctx) == Results(oper_arith("add", ctx.operands[1], ctx.operands[2]))
oper_sub(ctx) == Results(oper_arith("sub", ctx.operands[1], ctx.operands[2]))
oper_multiply(ctx) == Results(oper_arith("multiply", ctx.operands[1], ctx.operands[2]))
oper_divide(ctx) == Results(oper_arith("divide", ctx.operands[1], ctx.operands[2]))
oper_remainder(ctx) == Results(oper_arith("remainder", ctx.operands[1], ctx.operands[2]))

oper_bit_not(ctx) ==
  LET val == ctx.operands[1]
  IN CASE val.prim = "UINT64" -> {typed_as(val, UINT64_MAX - val.num)}
       [] val.prim = "INT64" -> {typed_as(val, -val.num - 1)}
       [] OTHER -> Nothing

bitwise(op, l, r) == CASE op = "and" -> l & r
                       [] op = "or" -> l | r
                       [] op = "xor" -> l ^^ r

(* Bits are those of the 64-bit members, signed or not.                     *)
integer_result(op, p) ==
  LET bits == bitwise(op, as_uint64(p.lt_use), as_uint64(p.rt_use))
  IN CASE PromoteFails(p) -> {Bad}
       [] p.lt_use.prim = "UINT64" -> {Lit(p.common, "UINT64", bits)}
       [] p.lt_use.prim = "INT64" -> {Lit(p.common, "INT64", int64(bits))}
       [] OTHER -> {Bad}

cace_numeric_integer_binary_operator(op, lt, rt) == integer_result(op, cace_amm_promote_process(lt, rt))

oper_bit_and(ctx) == Results(cace_numeric_integer_binary_operator("and", ctx.operands[1], ctx.operands[2]))
oper_bit_or(ctx) == Results(cace_numeric_integer_binary_operator("or", ctx.operands[1], ctx.operands[2]))
oper_bit_xor(ctx) == Results(cace_numeric_integer_binary_operator("xor", ctx.operands[1], ctx.operands[2]))

-----------------------------------------------------------------------------
(* Truth values and comparisons.                                           *)

IsBool(v) == v.prim = "BOOL"
cace_ari_get_bool(v) == v.num # 0

oper_bool_not(ctx) ==
  LET val == ctx.operands[1] IN IF IsBool(val) THEN Truth(~cace_ari_get_bool(val)) ELSE Nothing

bool_pair(ctx, results) ==
  IF IsBool(ctx.operands[1]) /\ IsBool(ctx.operands[2]) THEN results ELSE Nothing
left_bool(ctx) == cace_ari_get_bool(ctx.operands[1])
right_bool(ctx) == cace_ari_get_bool(ctx.operands[2])

oper_bool_and(ctx) == bool_pair(ctx, Truth(left_bool(ctx) /\ right_bool(ctx)))
oper_bool_or(ctx) == bool_pair(ctx, Truth(left_bool(ctx) \/ right_bool(ctx)))
oper_bool_xor(ctx) == bool_pair(ctx, Truth(left_bool(ctx) # right_bool(ctx)))

oper_strict_eq(ctx) == Truth(ctx.operands[1] = ctx.operands[2])
oper_strict_ne(ctx) == Truth(ctx.operands[1] # ctx.operands[2])

oper_compare_eq(ctx) == Results(oper_compare("eq", ctx.operands[1], ctx.operands[2]))
oper_compare_ne(ctx) == Results(oper_compare("ne", ctx.operands[1], ctx.operands[2]))
oper_compare_gt(ctx) == Results(oper_compare("gt", ctx.operands[1], ctx.operands[2]))
oper_compare_ge(ctx) == Results(oper_compare("ge", ctx.operands[1], ctx.operands[2]))
oper_compare_lt(ctx) == Results(oper_compare("lt", ctx.operands[1], ctx.operands[2]))
oper_compare_le(ctx) == Results(oper_compare("le", ctx.operands[1], ctx.operands[2]))

oper_is_undefined(ctx) == Truth(ctx.operands[1] = Undefined)
oper_is_not_undefined(ctx) == Truth(ctx.operands[1] # Undefined)
oper_is_truthy(ctx) == Truth(cace_amm_ari_is_truthy(ctx.operands[1]))

-----------------------------------------------------------------------------
(* Types and texts.                                                        *)

matches_type(desired, value) ==
  IF desired = Null THEN Nothing ELSE Truth(cace_amm_type_match(desired, value) = "POSITIVE")

oper_match_type(ctx) ==
  Guarded(ctx, matches_type(refda_binding_type_from_name(ctx.aparams[1]), ctx.operands[1]))

(* What a conversion that fails has made of its output is the result too.   *)
converts_type(desired, value) ==
  IF desired = Null THEN Nothing ELSE {cace_amm_type_convert(desired, Undefined, value).out}

oper_convert_type(ctx) ==
  Guarded(ctx, converts_type(refda_binding_type_from_name(ctx.aparams[1]), ctx.operands[1]))

oper_match_regexp(ctx) ==
  LET value == ctx.operands[1]
  IN Guarded(ctx, Truth(value.prim = "TSTR" /\ pcre2_match(ctx.aparams[1].num, value.num)))

-----------------------------------------------------------------------------
(* References, by what their paths say.                                    *)

(* A segment is private when its number is negative or its text begins with  *)
(* a bang.                                                                  *)
is_private(value, seg) ==
  IF value.prim = "REF" THEN Truth(CASE seg.form = "int" -> seg.int < 0
                                   [] seg.form = "text" -> seg.text < 0
                                   [] OTHER -> FALSE)
  ELSE Nothing

oper_is_org_private(ctx) == is_private(ctx.operands[1], ctx.operands[1].org)
oper_is_model_odm(ctx) == is_private(ctx.operands[1], ctx.operands[1].model)

in_range(ctx, ints) ==
  Guarded(ctx, UNION {Truth(lo <= n /\ n <= hi) :
                        lo \in cace_ari_get_int(ctx.aparams[1]),
                        hi \in cace_ari_get_int(ctx.aparams[2]), n \in ints})
one_of(results) == IF results = {} THEN Nothing ELSE results

(* The integer of a segment, given or looked up, in a set.  `found` is what   *)
(* the path names, whose identity is `id`.                                  *)
segment_int(seg, found, id) ==
  CASE seg.form = "int" -> {seg.int}
    [] seg.form = "text" /\ found # Null /\ id.has_intenum -> {id.intenum}
    [] OTHER -> {}

org_int(value, ns) == segment_int(value.org, ns, ns.org)
model_int(value, ns) == segment_int(value.model, ns, ns.model)
object_int(value, obj) == segment_int(value.obj, obj, obj.id)

path_in_range(ctx, ints) == one_of(in_range(ctx, IF ctx.operands[1].prim = "REF" THEN ints ELSE {}))

oper_match_org_int_range(ctx) ==
  path_in_range(ctx, org_int(ctx.operands[1], cace_amm_obj_store_find_ns(ctx.operands[1])))
oper_match_model_int_range(ctx) ==
  path_in_range(ctx, model_int(ctx.operands[1], cace_amm_obj_store_find_ns(ctx.operands[1])))
oper_match_object_int_range(ctx) ==
  path_in_range(ctx, object_int(ctx.operands[1], cace_amm_lookup_deref(ctx.operands[1]).obj))

same_ns(value, desired_ns) ==
  CASE desired_ns = Null -> Nothing
    [] cace_ari_is_namespace(value) -> Truth(cace_amm_obj_store_find_ns(value) = desired_ns)
    [] value.prim = "REF" -> Truth(cace_amm_lookup_deref(value).ns = desired_ns)
    [] OTHER -> Nothing

oper_is_same_ns(ctx) == Guarded(ctx, same_ns(ctx.operands[1], cace_amm_obj_store_find_ns(ctx.aparams[1])))

oper_match_object_type(ctx) ==
  LET value == ctx.operands[1]
      types == cace_ari_get_aritype_int(ctx.aparams[1])
  IN Guarded(ctx,
       IF \E t \in types : t < 0
         THEN Truth(value.prim = "REF" /\ \E t \in types : t = cace_ari_type_t[value.typ])
         ELSE Nothing)

(* The desired object must take the parameters its reference gives; the      *)
(* object compared with it need only be found.                              *)
same_object(desired, deref) ==
  IF desired.code # 0 THEN Nothing ELSE Truth(deref.ns = desired.ns /\ deref.obj = desired.obj)

oper_is_same_object(ctx) ==
  Guarded(ctx, same_object(cace_amm_lookup_deref(ctx.aparams[1]), cace_amm_lookup_deref(ctx.operands[1])))

oper_ref(ctx) == {ctx.aparams[1]}

-----------------------------------------------------------------------------
(* Items of containers.                                                    *)

cace_ari_get_uint(v) == IF v.prim \in {"UINT64", "INT64"} /\ v.num \in 0..UINT32_MAX THEN {v.num} ELSE {}

oper_tbl_get(ctx) ==
  LET tbl == ctx.operands[1]
      nrows == Len(tbl.items) \div tbl.ncols
  IN Guarded(ctx, one_of(
       {tbl.items[row * tbl.ncols + col + 1] :
          <<row, col>> \in {rc \in cace_ari_get_uint(ctx.aparams[1]) \X cace_ari_get_uint(ctx.aparams[2]) :
                              IsTBL(tbl) /\ rc[2] < tbl.ncols /\ rc[1] < nrows}}))

oper_list_get(ctx) ==
  LET ac == ctx.operands[1]
  IN Guarded(ctx, one_of({ac.items[ix + 1] : ix \in {i \in cace_ari_get_uint(ctx.aparams[1]) :
                                                       IsAC(ac) /\ i < Len(ac.items)}}))

(* The key may be undefined; a key the map has not gives the undefined value. *)
oper_map_get(ctx) ==
  LET am == ctx.operands[1]
  IN IF ~IsAM(am) THEN Nothing
     ELSE one_of({am.pairs[i][2] : i \in {j \in 1..Len(am.pairs) : am.pairs[j][1] = ctx.aparams[1]}})
-----------------------------------------------------------------------------
(* The registrations: the place of each OPER in the namespace, its formal    *)
(* parameters, its operands and its result.  The names of the first and of   *)
(* the second parameter stand for the texts that the OPER gives them.       *)

Oper(enum, fparams, operand_types, res_type, evaluate) ==
  [typ |-> "OPER", id |-> Id(enum, 100 + enum), fparams |-> fparams, permitted |-> TRUE,
   operand_types |-> operand_types, res_type |-> res_type, evaluate |-> evaluate]

P1(type) == Param(501, type)
P2(type) == Param(502, type)

number == UseTypedef(numeric, 3)
number_or_time == UseTypedef(numeric_or_time, 27)
int_ == UseTypedef(integer, 1)
any_ == UseTypedef(any, 8)
truth == UseAri("BOOL")
object_or_ns == OneOfTypes(<<"OBJECT", "NAMESPACE">>)
target_ == UseTypedef(eval_tgt, 16)
int_range == <<P1(UseTypedef(id_int, 26)), P2(UseTypedef(id_int, 26))>>
predicates == <<P1(UList(UseAri("OPER"), AnySize))>>
Twice(t) == <<t, t>>

negate_desc == Oper(0, <<>>, <<number_or_time>>, number, "negate")
add_desc == Oper(1, <<>>, Twice(number_or_time), any_, "add")
sub_desc == Oper(2, <<>>, Twice(number_or_time), any_, "sub")
multiply_desc == Oper(3, <<>>, Twice(number_or_time), any_, "multiply")
divide_desc == Oper(4, <<>>, Twice(number_or_time), any_, "divide")
remainder_desc == Oper(5, <<>>, Twice(number), number, "remainder")
bit_not_desc == Oper(6, <<>>, <<int_>>, int_, "bit-not")
bit_and_desc == Oper(7, <<>>, Twice(int_), int_, "bit-and")
bit_or_desc == Oper(8, <<>>, Twice(int_), int_, "bit-or")
bit_xor_desc == Oper(9, <<>>, Twice(int_), int_, "bit-xor")
bool_not_desc == Oper(10, <<>>, <<truth>>, truth, "bool-not")
bool_and_desc == Oper(11, <<>>, Twice(truth), truth, "bool-and")
bool_or_desc == Oper(12, <<>>, Twice(truth), truth, "bool-or")
bool_xor_desc == Oper(13, <<>>, Twice(truth), truth, "bool-xor")
compare_eq_desc == Oper(14, <<>>, Twice(any_), truth, "compare-eq")
compare_ne_desc == Oper(15, <<>>, Twice(any_), truth, "compare-ne")
compare_gt_desc == Oper(16, <<>>, Twice(any_), truth, "compare-gt")
compare_ge_desc == Oper(17, <<>>, Twice(any_), truth, "compare-ge")
compare_lt_desc == Oper(18, <<>>, Twice(any_), truth, "compare-lt")
compare_le_desc == Oper(19, <<>>, Twice(any_), truth, "compare-le")
tbl_filter_desc == Oper(20, <<P1(UseTypedef(tbl_row_filter, 0)), P2(UList(UseAri("UVAST"), AnySize))>>,
                        <<UseAri("TBL")>>, UseAri("TBL"), "tbl-filter")
list_get_desc == Oper(21, <<P1(UseAri("UINT"))>>, <<UseAri("AC")>>, any_, "list-get")
map_get_desc == Oper(22, <<P1(UseTypedef(primitive, 4))>>, <<UseAri("AM")>>, any_, "map-get")
match_regexp_desc == Oper(23, <<P1(UseAri("TEXTSTR"))>>, <<UseAri("TEXTSTR")>>, truth, "match-regexp")
predicate_all_desc == Oper(24, predicates, <<any_>>, truth, "predicate-all")
predicate_any_desc == Oper(25, predicates, <<any_>>, truth, "predicate-any")
predicate_none_desc == Oper(26, predicates, <<any_>>, truth, "predicate-none")
unary_eval_desc == Oper(27, <<P1(target_)>>, <<any_>>, any_, "unary-eval")
eval_desc == Oper(28, <<P1(target_)>>, <<>>, any_, "eval")
is_undefined_desc == Oper(29, <<>>, <<any_>>, truth, "is-undefined")
is_not_undefined_desc == Oper(30, <<>>, <<any_>>, truth, "is-not-undefined")
nary_eval_desc == Oper(31, <<P1(Use(Builtin("INT"), ARITYPE("INT"), {AtLeast(0)})), P2(target_)>>,
                       <<Sequence(any_, AnySize)>>, any_, "nary-eval")
tbl_get_desc == Oper(32, <<P1(UseAri("UINT")), P2(UseAri("UINT"))>>, <<UseAri("TBL")>>, any_, "tbl-get")
strict_eq_desc == Oper(33, <<>>, Twice(any_), truth, "strict-eq")
strict_ne_desc == Oper(34, <<>>, Twice(any_), truth, "strict-ne")
is_truthy_desc == Oper(35, <<>>, <<any_>>, truth, "is-truthy")
is_org_private_desc == Oper(36, <<>>, <<object_or_ns>>, truth, "is-org-private")
match_org_int_range_desc == Oper(37, int_range, <<object_or_ns>>, truth, "match-org-int-range")
is_model_odm_desc == Oper(38, <<>>, <<object_or_ns>>, truth, "is-model-odm")
match_model_int_range_desc == Oper(39, int_range, <<object_or_ns>>, truth, "match-model-int-range")
is_same_ns_desc == Oper(40, <<P1(UseAri("NAMESPACE"))>>, <<object_or_ns>>, truth, "is-same-ns")
is_same_object_desc == Oper(41, <<P1(UseAri("OBJECT"))>>, <<UseAri("OBJECT")>>, truth, "is-same-object")
match_object_type_desc == Oper(42, <<P1(UseAri("ARITYPE"))>>, <<UseAri("OBJECT")>>, truth, "match-object-type")
ref_desc == Oper(43, <<P1(object_or_ns)>>, <<>>, object_or_ns, "ref")
match_object_int_range_desc == Oper(44, int_range, <<UseAri("OBJECT")>>, truth, "match-object-int-range")
match_type_desc == Oper(45, <<P1(type_ref)>>, <<any_>>, truth, "match-type")
convert_type_desc == Oper(46, <<P1(type_ref)>>, <<any_>>, any_, "convert-type")

AgentOpers ==
  {negate_desc, add_desc, sub_desc, multiply_desc, divide_desc, remainder_desc, bit_not_desc, bit_and_desc,
   bit_or_desc, bit_xor_desc, bool_not_desc, bool_and_desc, bool_or_desc, bool_xor_desc, compare_eq_desc,
   compare_ne_desc, compare_gt_desc, compare_ge_desc, compare_lt_desc, compare_le_desc, tbl_filter_desc,
   list_get_desc, map_get_desc, match_regexp_desc, predicate_all_desc, predicate_any_desc,
   predicate_none_desc, unary_eval_desc, eval_desc, is_undefined_desc, is_not_undefined_desc,
   nary_eval_desc, tbl_get_desc, strict_eq_desc, strict_ne_desc, is_truthy_desc, is_org_private_desc,
   match_org_int_range_desc, is_model_odm_desc, match_model_int_range_desc, is_same_ns_desc,
   is_same_object_desc, match_object_type_desc, ref_desc, match_object_int_range_desc, match_type_desc,
   convert_type_desc}
=============================================================================
