------------------------------ MODULE AmmBase ------------------------------
(***************************************************************************)
(* The typedefs that ietf_amm_base.c registers, as types of Typing.  A use  *)
(* of a typedef is bound to it by its object id, which is its name here.   *)
(***************************************************************************)
EXTENDS Typing

UseAri(t) == Use(Builtin(t), ARITYPE(t), {})
UseTypedef(t, id) == Use(t, [typedef |-> id], {})
OneOfTypes(ts) == Union([i \in 1..Len(ts) |-> UseAri(ts[i])])

type_ref == OneOfTypes(<<"ARITYPE", "TYPEDEF">>)
integer == OneOfTypes(<<"BYTE", "INT", "UINT", "VAST", "UVAST">>)
float == OneOfTypes(<<"REAL32", "REAL64">>)
numeric == Union(<<UseTypedef(integer, 1), UseTypedef(float, 2)>>)
time == OneOfTypes(<<"TP", "TD">>)
numeric_or_time == Union(<<UseTypedef(numeric, 3), UseTypedef(time, 5)>>)
primitive == Union(<<UseTypedef(numeric, 3), UseAri("TEXTSTR"), UseAri("BYTESTR"),
                     UseAri("BOOL"), UseAri("NULL")>>)
simple == Union(<<UseTypedef(time, 5), UseTypedef(primitive, 4)>>)
nested == OneOfTypes(<<"AC", "AM", "TBL">>)
any == OneOfTypes(<<"LITERAL", "OBJECT", "NAMESPACE">>)
value_obj == OneOfTypes(<<"CONST", "EDD", "VAR">>)
nonce == OneOfTypes(<<"BYTESTR", "UVAST", "NULL">>)
id_text == Use(Builtin("TEXTSTR"), ARITYPE("TEXTSTR"), {Textpat("id-text")})
id_int == UseAri("INT")
counter32 == UseAri("UINT")
counter64 == UseAri("UVAST")
gauge32 == UseAri("INT")
gauge64 == UseAri("VAST")
timestamp == UseAri("TP")
expr_item == Union(<<UseAri("LITERAL"), UseTypedef(value_obj, 9), UseAri("OPER")>>)
expr == UList(UseTypedef(expr_item, 17), AnySize)
eval_tgt == Union(<<UseTypedef(value_obj, 9), UseTypedef(expr, 18)>>)
exec_item == Union(<<UseAri("CTRL"), UseTypedef(value_obj, 9)>>)
mac == UList(UseTypedef(exec_item, 20), AnySize)
exec_tgt == Union(<<UseTypedef(exec_item, 20), UseTypedef(mac, 21)>>)
rptt_item == Union(<<UseTypedef(value_obj, 9), UseTypedef(expr, 18)>>)
rptt == UList(UseTypedef(rptt_item, 23), AnySize)
rpt_tgt == Union(<<UseTypedef(value_obj, 9), UseTypedef(rptt, 24)>>)

(* A numeric range without an upper end. *)
AtLeast(n) == RangeInt64({FromOn(n)})

(* The typedef of ietf_dtnma_agent.c that tbl-filter uses. *)
tbl_row_filter == UseTypedef(expr, 18)
=============================================================================
