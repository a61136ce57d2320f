----------------------------- MODULE Reporting -----------------------------
(***************************************************************************)
(* Reports on a template (refda/reporting.c) and the controls report-on and *)
(* inspect of ietf_dtnma_agent.c.                                           *)
(*                                                                         *)
(* While report-on runs, call.rt has the destinations that are left, the    *)
(* items of the template that are left for the first of them and the items  *)
(* of its report so far, and call.res the reports it has queued.  All       *)
(* destinations have the groups that the permissions of the store are for.  *)
(***************************************************************************)
EXTENDS Expansion

(* The codes that refda_reporting_target returns. *)
REPORTING_BAD_TYPE == 3
REPORTING_DEREF_FAILED == 4

Template(code, items) == [code |-> code, items |-> items]

refda_reporting_rptt_lit(value) ==
  IF cace_amm_type_match(rptt, value) = "POSITIVE" THEN Template(0, value.items)
  ELSE Template(REPORTING_BAD_TYPE, <<>>)

rptt_prod(prod) == IF prod.code = 0 THEN refda_reporting_rptt_lit(prod.value) ELSE Template(prod.code, <<>>)

refda_reporting_rptt_ref(deref) ==
  CASE deref.code # 0 -> Template(REPORTING_DEREF_FAILED, <<>>)
    [] deref.obj.typ \in {"CONST", "VAR", "EDD"} -> rptt_prod(refda_valprod_run(deref))
    [] OTHER -> Template(REPORTING_BAD_TYPE, <<>>)

(* The template that a target stands for. *)
template_of(target) ==
  IF target.prim = "REF" THEN refda_reporting_rptt_ref(cace_amm_lookup_deref(target))
  ELSE refda_reporting_rptt_lit(target)

(* The item for a reference, undefined where there is no value to give. *)
item_ref(deref) ==
  IF deref.code = 0 /\ deref.obj.typ \in {"CONST", "VAR", "EDD"} THEN refda_valprod_run(deref).value ELSE Undefined
refda_reporting_item_ref(ref) == item_ref(cace_amm_lookup_deref(ref))

-----------------------------------------------------------------------------
(* report-on.                                                              *)

Reporting == call.op = "reporting" /\ frames = <<>>
Waiting(dests) == [open |-> FALSE, dests |-> dests, left |-> <<>>, items |-> <<>>]
Opened(dests, left, items) == [open |-> TRUE, dests |-> dests, left |-> left, items |-> items]

(* An empty list of destinations stands for the manager that executes it,     *)
(* without which it fails.                                                  *)
report_on(template, dests, mgr_ident) ==
  /\ template # Undefined /\ dests # Undefined /\ IsAC(dests)
  /\ dests.items = <<>> => mgr_ident # Undefined
  /\ call' = [op |-> "reporting", lt |-> [template |-> template, dests |-> dests, mgr_ident |-> mgr_ident], res |-> <<>>,
              rt |-> Waiting(IF dests.items = <<>> THEN <<mgr_ident>> ELSE dests.items)]
  /\ UNCHANGED frames

(* Nothing is reported to an undefined destination, nor on what is no         *)
(* template.                                                                *)
refda_reporting_target ==
  /\ Reporting /\ ~call.rt.open /\ call.rt.dests # <<>>
  /\ \E tmpl \in {template_of(call.lt.template)} :
       call' = [call EXCEPT !.rt = IF Head(@.dests) # Undefined /\ tmpl.code = 0
                                   THEN Opened(@.dests, tmpl.items, <<>>)
                                   ELSE Waiting(Tail(@.dests))]
  /\ UNCHANGED frames

put_item(value) == [call EXCEPT !.rt = Opened(@.dests, Tail(@.left), Append(@.items, value))]

AtItem == Reporting /\ call.rt.left # <<>>

(* Mutant: an item without a value is left out of the report. *)
reporting_rptt_val_compact ==
  /\ AtItem
  /\ LET part == Head(call.rt.left)
     IN IF part.prim = "REF"
        THEN /\ call' = IF refda_reporting_item_ref(part) = Undefined
                        THEN [call EXCEPT !.rt.left = Tail(@)] ELSE put_item(refda_reporting_item_ref(part))
             /\ UNCHANGED frames
        ELSE IF cace_amm_type_match(expr, part) # "POSITIVE"
        THEN call' = put_item(Undefined) /\ UNCHANGED frames
        ELSE frames' = <<FrameOf(refda_eval_expand_expr(part), Done)>> /\ UNCHANGED call

(* Each item of the template has its place in the report: a reference is      *)
(* produced, anything else is evaluated if it is an expression.              *)
refda_reporting_rptt_val ==
  /\ AtItem
  /\ LET part == Head(call.rt.left)
     IN IF part.prim = "REF"
        THEN call' = put_item(refda_reporting_item_ref(part)) /\ UNCHANGED frames
        ELSE IF cace_amm_type_match(expr, part) # "POSITIVE"
        THEN call' = put_item(Undefined) /\ UNCHANGED frames
        ELSE frames' = <<FrameOf(refda_eval_expand_expr(part), Done)>> /\ UNCHANGED call

(* The end of an evaluation; one that fails leaves the item undefined. *)
refda_reporting_item_lit ==
  /\ call.op = "reporting" /\ AtEnd("done")
  /\ call' = put_item(end_of(top).result)
  /\ frames' = <<>>

refda_reporting_gen ==
  /\ Reporting /\ call.rt.open /\ call.rt.left = <<>>
  /\ call' = [call EXCEPT !.rt = Waiting(Tail(@.dests)),
                          !.res = Append(@, [destination |-> Head(call.rt.dests), src |-> call.lt.template,
                                             items |-> call.rt.items])]
  /\ UNCHANGED frames

Reported ==
  /\ Reporting /\ ~call.rt.open /\ call.rt.dests = <<>>
  /\ call' = [call EXCEPT !.op = "report"]
  /\ UNCHANGED frames

ReportSteps ==
  \/ refda_reporting_target \/ refda_reporting_rptt_val \/ refda_reporting_item_lit
  \/ refda_reporting_gen \/ Reported

-----------------------------------------------------------------------------
(* inspect gives the value of an object, in a set, which is empty when the    *)
(* control sets no result and so fails.                                     *)
inspect_prod(prod) == IF prod.code = 0 THEN {prod.value} ELSE {}
inspect_deref(deref) == IF deref.code # 0 THEN {} ELSE inspect_prod(refda_valprod_run(deref))
ctrl_inspect(ref) == inspect_deref(cace_amm_lookup_deref(ref))
=============================================================================
