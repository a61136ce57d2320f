----------------------------- MODULE Containers -----------------------------
(***************************************************************************)
(* The order and the equality of values: cace/ari/algo.c over the           *)
(* containers (containers.c), the paths (ref.c, idseg.c) and the object     *)
(* patterns (objpat.c).  To the values of Typing come                       *)
(*   an EXECSET [typ, prim = "OTHER", nonce, targets]                       *)
(*   a RPTSET   [typ, prim, nonce, reftime, reports], of reports            *)
(*              [reltime, source, items]                                    *)
(*   an OBJPAT  [typ, prim, parts], four parts                              *)
(* and a reference may have one member more, rev: the revision of its model. *)
(* Texts are ordered as the numbers they are here.                          *)
(***************************************************************************)
EXTENDS Lookup

EXECSET(nonce_, targets) == [typ |-> "EXECSET", prim |-> "OTHER", nonce |-> nonce_, targets |-> targets]
RPTSET(nonce_, reftime, reports) ==
  [typ |-> "RPTSET", prim |-> "OTHER", nonce |-> nonce_, reftime |-> reftime, reports |-> reports]
Report(reltime, source, items) == [reltime |-> reltime, source |-> source, items |-> items]

OBJPAT(parts) == [typ |-> "OBJPAT", prim |-> "OTHER", parts |-> parts]
EmptyPart == [kind |-> "empty"]
SpecialPart == [kind |-> "special"]
RangePart(range) == [kind |-> "range", range |-> range]
TextPart(text) == [kind |-> "text", text |-> text]

HasRev(ref) == "rev" \in DOMAIN ref

-----------------------------------------------------------------------------
(* The result of a comparison is -1, 0 or 1.                                *)

M_CMP_DEFAULT(a, b) == IF a < b THEN -1 ELSE IF a > b THEN 1 ELSE 0

(* The second comparison decides where the first finds no difference.       *)
ThenBy(part_cmp, other) == IF part_cmp # 0 THEN part_cmp ELSE other

IdSegForm == [none |-> 0, int |-> 1, text |-> 2]

cace_ari_idseg_cmp(l, r) ==
  CASE l.form # r.form -> M_CMP_DEFAULT(IdSegForm[l.form], IdSegForm[r.form])
    [] l.form = "none" -> 0
    [] l.form = "int" -> M_CMP_DEFAULT(l.int, r.int)
    [] l.form = "text" -> M_CMP_DEFAULT(l.text, r.text)

cace_ari_idseg_equal(l, r) ==
  l.form = r.form /\ (l.form = "int" => l.int = r.int) /\ (l.form = "text" => l.text = r.text)

cace_ari_date_cmp(l, r) ==
  CASE HasRev(l) /\ HasRev(r) -> M_CMP_DEFAULT(l.rev, r.rev)
    [] OTHER -> M_CMP_DEFAULT(IF HasRev(l) THEN 1 ELSE 0, IF HasRev(r) THEN 1 ELSE 0)

(* A path without a type has no segment for it, which comes first.           *)
path_type_cmp(l, r) ==
  CASE "NAMESPACE" \notin {l, r} -> M_CMP_DEFAULT(cace_ari_type_t[l], cace_ari_type_t[r])
    [] OTHER -> M_CMP_DEFAULT(IF l = "NAMESPACE" THEN 0 ELSE 1, IF r = "NAMESPACE" THEN 0 ELSE 1)

cace_ari_objpath_cmp(l, r) ==
  ThenBy(cace_ari_idseg_cmp(l.org, r.org),
  ThenBy(cace_ari_idseg_cmp(l.model, r.model),
  ThenBy(cace_ari_date_cmp(l, r),
  ThenBy(path_type_cmp(l.typ, r.typ),
         cace_ari_idseg_cmp(l.obj, r.obj)))))

cace_ari_objpath_equal(l, r) ==
  /\ l.typ = r.typ /\ cace_ari_date_cmp(l, r) = 0
  /\ cace_ari_idseg_equal(l.org, r.org) /\ cace_ari_idseg_equal(l.model, r.model)
  /\ cace_ari_idseg_equal(l.obj, r.obj)

-----------------------------------------------------------------------------
(* Object patterns.                                                         *)

range_first(range) == CHOOSE i \in range : \A j \in range : ~intvl_before(j, i)

(* Two ranges are compared by the lower end of the first interval of each.   *)
cace_util_range_int64_cmp(l, r) ==
  CASE l = r -> 0
    [] l = {} -> -1
    [] r = {} -> 1
    [] OTHER -> M_CMP_DEFAULT(range_first(l).i_min, range_first(r).i_min)

(* An empty part is before every other one, and every other one before it.   *)
PartOrder == [special |-> 1, range |-> 2, text |-> 3, empty |-> 4]

cace_ari_objpat_part_cmp(l, r) ==
  CASE l.kind = "empty" -> IF r.kind = "empty" THEN 0 ELSE -1
    [] l.kind # r.kind -> M_CMP_DEFAULT(PartOrder[l.kind], PartOrder[r.kind])
    [] l.kind = "special" -> 0
    [] l.kind = "range" -> cace_util_range_int64_cmp(l.range, r.range)
    [] l.kind = "text" -> M_CMP_DEFAULT(l.text, r.text)

part_equal(l, r) ==
  /\ l.kind = r.kind
  /\ l.kind = "range" => l.range = r.range
  /\ l.kind = "text" => l.text = r.text

cace_ari_objpat_cmp(l, r) ==
  ThenBy(cace_ari_objpat_part_cmp(l[1], r[1]),
  ThenBy(cace_ari_objpat_part_cmp(l[2], r[2]),
  ThenBy(cace_ari_objpat_part_cmp(l[3], r[3]),
         cace_ari_objpat_part_cmp(l[4], r[4]))))

cace_ari_objpat_equal(l, r) == \A i \in 1..4 : part_equal(l[i], r[i])

-----------------------------------------------------------------------------
(* Values.                                                                  *)

PrimNames == <<"UNDEFINED", "NULL", "BOOL", "UINT64", "INT64", "FLOAT64", "BSTR", "TSTR", "TIMESPEC", "OTHER">>
PrimOrder(prim) == CHOOSE i \in DOMAIN PrimNames : PrimNames[i] = prim

RECURSIVE cace_ari_cmp(_, _)

RECURSIVE items_cmp(_, _, _)
items_cmp(l, r, i) ==
  IF i > Len(l) THEN 0 ELSE ThenBy(cace_ari_cmp(l[i], r[i]), items_cmp(l, r, i + 1))

cace_ari_list_cmp(l, r) == ThenBy(M_CMP_DEFAULT(Len(l), Len(r)), items_cmp(l, r, 1))

(* The pairs of a map in the order of its tree.                             *)
RECURSIVE in_tree(_)
in_tree(pairs) ==
  IF pairs = <<>> THEN <<>>
  ELSE LET rest == in_tree(Tail(pairs))
           before == {i \in DOMAIN rest : cace_ari_cmp(rest[i][1], pairs[1][1]) < 0}
           n == IF before = {} THEN 0 ELSE Max(before)
       IN SubSeq(rest, 1, n) \o <<pairs[1]>> \o SubSeq(rest, n + 1, Len(rest))

flat(pairs) == FlattenSeq(in_tree(pairs))

cace_ari_am_cmp(l, r) == cace_ari_list_cmp(flat(l), flat(r))

(* Mutant: tables with the same items in rows of other widths are not told apart. *)
tbl_cmp_flat(l, r) == cace_ari_list_cmp(l.items, r.items)

cace_ari_tbl_cmp(l, r) == ThenBy(M_CMP_DEFAULT(l.ncols, r.ncols), cace_ari_list_cmp(l.items, r.items))

cace_ari_execset_cmp(l, r) == ThenBy(cace_ari_cmp(l.nonce, r.nonce), cace_ari_list_cmp(l.targets, r.targets))

cace_ari_report_cmp(l, r) ==
  ThenBy(cace_ari_cmp(l.reltime, r.reltime),
  ThenBy(cace_ari_cmp(l.source, r.source), cace_ari_list_cmp(l.items, r.items)))

RECURSIVE reports_cmp(_, _, _)
reports_cmp(l, r, i) ==
  IF i > Len(l) THEN 0 ELSE ThenBy(cace_ari_report_cmp(l[i], r[i]), reports_cmp(l, r, i + 1))

cace_ari_report_list_cmp(l, r) == ThenBy(M_CMP_DEFAULT(Len(l), Len(r)), reports_cmp(l, r, 1))

cace_ari_rptset_cmp(l, r) ==
  ThenBy(cace_ari_cmp(l.nonce, r.nonce),
  ThenBy(cace_ari_cmp(l.reftime, r.reftime), cace_ari_report_list_cmp(l.reports, r.reports)))

(* No parameters come before a list, and a list before a map.                *)
ParamsState(params) == CASE params = NoParams -> 0 [] IsAC(params) -> 1 [] IsAM(params) -> 2

cace_ari_params_cmp(l, r) ==
  ThenBy(M_CMP_DEFAULT(ParamsState(l), ParamsState(r)),
         CASE l = NoParams -> 0
           [] IsAC(l) -> cace_ari_list_cmp(l.items, r.items)
           [] IsAM(l) -> cace_ari_am_cmp(l.pairs, r.pairs))

container_cmp(l, r) ==
  CASE l.typ = "AC" -> cace_ari_list_cmp(l.items, r.items)
    [] l.typ = "AM" -> cace_ari_am_cmp(l.pairs, r.pairs)
    [] l.typ = "TBL" -> cace_ari_tbl_cmp(l, r)
    [] l.typ = "EXECSET" -> cace_ari_execset_cmp(l, r)
    [] l.typ = "RPTSET" -> cace_ari_rptset_cmp(l, r)
    [] l.typ = "OBJPAT" -> cace_ari_objpat_cmp(l.parts, r.parts)

(* NaN comes after the other doubles, as its number does here.               *)
prim_cmp(l, r) ==
  CASE l.prim \in {"UNDEFINED", "NULL"} -> 0
    [] l.prim = "TIMESPEC" -> ThenBy(M_CMP_DEFAULT(l.num, r.num), M_CMP_DEFAULT(l.nano, r.nano))
    [] l.prim = "OTHER" -> container_cmp(l, r)
    [] OTHER -> M_CMP_DEFAULT(l.num, r.num)

(* A literal without a type comes before one that has a type.                *)
lit_type_cmp(l, r) ==
  CASE "none" \in {l, r} -> M_CMP_DEFAULT(IF l = "none" THEN 0 ELSE 1, IF r = "none" THEN 0 ELSE 1)
    [] OTHER -> M_CMP_DEFAULT(cace_ari_type_t[l], cace_ari_type_t[r])

cace_ari_cmp(l, r) ==
  CASE (l.prim = "REF") # (r.prim = "REF") -> IF l.prim = "REF" THEN 1 ELSE -1
    [] l.prim = "REF" -> ThenBy(cace_ari_objpath_cmp(l, r), cace_ari_params_cmp(l.params, r.params))
    [] OTHER -> ThenBy(lit_type_cmp(l.typ, r.typ),
                ThenBy(M_CMP_DEFAULT(PrimOrder(l.prim), PrimOrder(r.prim)), prim_cmp(l, r)))

RECURSIVE cace_ari_equal(_, _)

list_equal(l, r) == Len(l) = Len(r) /\ \A i \in DOMAIN l : cace_ari_equal(l[i], r[i])
am_equal(l, r) == list_equal(flat(l), flat(r))

cace_ari_report_equal(l, r) ==
  cace_ari_equal(l.reltime, r.reltime) /\ cace_ari_equal(l.source, r.source) /\ list_equal(l.items, r.items)

cace_ari_params_equal(l, r) ==
  /\ ParamsState(l) = ParamsState(r)
  /\ l # NoParams /\ IsAC(l) => list_equal(l.items, r.items)
  /\ l # NoParams /\ IsAM(l) => am_equal(l.pairs, r.pairs)

container_equal(l, r) ==
  CASE l.typ = "AC" -> list_equal(l.items, r.items)
    [] l.typ = "AM" -> am_equal(l.pairs, r.pairs)
    [] l.typ = "TBL" -> l.ncols = r.ncols /\ list_equal(l.items, r.items)
    [] l.typ = "EXECSET" -> cace_ari_equal(l.nonce, r.nonce) /\ list_equal(l.targets, r.targets)
    [] l.typ = "RPTSET" -> /\ cace_ari_equal(l.nonce, r.nonce) /\ cace_ari_equal(l.reftime, r.reftime)
                           /\ Len(l.reports) = Len(r.reports)
                           /\ \A i \in DOMAIN l.reports : cace_ari_report_equal(l.reports[i], r.reports[i])
    [] l.typ = "OBJPAT" -> cace_ari_objpat_equal(l.parts, r.parts)

cace_ari_equal(l, r) ==
  CASE l.prim # r.prim \/ l.typ # r.typ -> FALSE
    [] l.prim = "REF" -> cace_ari_objpath_equal(l, r) /\ cace_ari_params_equal(l.params, r.params)
    [] l.prim = "OTHER" -> container_equal(l, r)
    [] OTHER -> l.num = r.num /\ l.nano = r.nano
=============================================================================
