----------------------------- MODULE Expansion -----------------------------
(***************************************************************************)
(* The expansion of an execution target into the controls of a sequence     *)
(* (refda_exec_proc_expand and the functions below it in exec_proc.c).      *)
(***************************************************************************)
EXTENDS Eval

(* The codes that refda_exec_proc_expand returns. *)
EXEC_BAD_TYPE == 3
EXEC_DEREF_FAILED == 4
EXEC_NO_ACCESS == 6

(* The controls that were put into the sequence, and the target that was     *)
(* found invalid, if any.                                                   *)
Expanded(code, items, invalid) == [code |-> code, items |-> items, invalid |-> invalid]
Refused(code, target) == Expanded(code, <<>>, <<target>>)

RECURSIVE refda_exec_proc_exp_item(_)

exp_prod(target, prod) ==
  IF prod.code = 0 THEN refda_exec_proc_exp_item(prod.value)
  ELSE Refused(IF prod.code = 3 THEN EXEC_NO_ACCESS ELSE prod.code, target)

(* A control is in the sequence before its permission is looked up. *)
refda_exec_proc_exp_ref(target, deref) ==
  CASE deref.code # 0 -> Refused(EXEC_DEREF_FAILED, target)
    [] deref.obj.typ = "CTRL" -> (IF deref.obj.permitted THEN Expanded(0, <<target>>, <<>>)
                                  ELSE Expanded(EXEC_NO_ACCESS, <<target>>, <<target>>))
    [] deref.obj.typ \in {"CONST", "VAR", "EDD"} -> exp_prod(target, refda_valprod_run(deref))
    [] OTHER -> Refused(EXEC_BAD_TYPE, target)

(* The items of a macro are expanded in order, up to the first that fails. *)
exp_next(acc, e) == Expanded(e.code, acc.items \o e.items, e.invalid)

(* Mutant: the loop over a macro goes on after a failing item. *)
exp_mac_continue(ari) ==
  FoldLeft(LAMBDA acc, part : exp_next(acc, refda_exec_proc_exp_item(part)), Expanded(0, <<>>, <<>>), ari.items)

refda_exec_proc_exp_mac(ari) ==
  FoldLeft(LAMBDA acc, part : IF acc.code # 0 THEN acc ELSE exp_next(acc, refda_exec_proc_exp_item(part)),
           Expanded(0, <<>>, <<>>), ari.items)

refda_exec_proc_exp_item(target) ==
  CASE target.prim = "REF" -> refda_exec_proc_exp_ref(target, cace_amm_lookup_deref(target))
    [] cace_amm_type_match(mac, target) = "POSITIVE" -> refda_exec_proc_exp_mac(target)
    [] OTHER -> Refused(EXEC_BAD_TYPE, target)

refda_exec_proc_expand(target) == refda_exec_proc_exp_item(target)
=============================================================================
