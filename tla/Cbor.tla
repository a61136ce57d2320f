-------------------------------- MODULE Cbor --------------------------------
(***************************************************************************)
(* The CBOR form of a value: cace/ari/cbor.c.  What QCBOR writes and reads is *)
(* a tree of items, the bytes of which are its own:                         *)
(*   a number, a text, a byte string or a date    [item, num]               *)
(*   true, false, null and undef                  [item]                    *)
(*   an array or a map                            [item, items]             *)
(* where the items of a map are its keys and values in turn, since it is     *)
(* read as an array.  An array that ends before the value in it does is      *)
(* refused here; inside of a container the decoder takes it for the end of   *)
(* the container, which is not modelled.  A time is in the seconds of the    *)
(* values and in a fraction of SUBSEC_DIGITS decimal digits, and its product *)
(* by SUBSEC_SCALE is taken to fit in 64 bits.  The types are those that     *)
(* have a name; a literal of another number is kept by the code as it is.    *)
(***************************************************************************)
EXTENDS Containers

CONSTANT SUBSEC_DIGITS   \* nine in the code

ASSUME DigitsAssumption == SUBSEC_DIGITS \in Nat \ {0}

SUBSEC_SCALE == 10 ^ SUBSEC_DIGITS

Item(kind, n) == [item |-> kind, num |-> n]
Simple(kind) == [item |-> kind]
Array(items) == [item |-> "array", items |-> items]
Map(items) == [item |-> "map", items |-> items]

IsInt64(i) == i.item = "int" /\ i.num <= INT64_MAX

-----------------------------------------------------------------------------
(* Encoding.                                                                *)

cace_ari_cbor_encode_idseg(seg) ==
  CASE seg.form = "none" -> Simple("null")
    [] seg.form = "text" -> Item("text", seg.text)
    [] seg.form = "int" -> Item("int", seg.int)

cace_ari_cbor_encode_optdate(ref) == IF HasRev(ref) THEN <<Item("date", ref.rev)>> ELSE <<>>

(* Zeros at the end of a decimal fraction are left out.                      *)
RECURSIVE trimmed(_, _)
trimmed(val, exp) ==
  IF val # 0 /\ Rem(val, 10) = 0 THEN trimmed(Quot(val, 10), exp + 1)
  ELSE Array(<<Item("int", exp), Item("int", val)>>)

cace_ari_cbor_encode_timespec(time_) ==
  IF time_.nano # 0 THEN trimmed(time_.num * SUBSEC_SCALE + time_.nano, -SUBSEC_DIGITS)
  ELSE Item("int", time_.num)

cace_ari_cbor_encode_primval(v) ==
  CASE v.prim = "UNDEFINED" -> Simple("undef")
    [] v.prim = "NULL" -> Simple("null")
    [] v.prim = "BOOL" -> Simple(IF v.num = 1 THEN "true" ELSE "false")
    [] v.prim \in {"UINT64", "INT64"} -> Item("int", v.num)
    [] v.prim = "FLOAT64" -> Item("float", v.num)
    [] v.prim = "TSTR" -> Item("text", v.num)
    [] v.prim = "BSTR" -> Item("bytes", v.num)
    [] v.prim = "TIMESPEC" -> cace_ari_cbor_encode_timespec(v)

(* The intervals of a range in their order.                                 *)
RECURSIVE intervals(_)
intervals(range) ==
  IF range = {} THEN <<>> ELSE <<range_first(range)>> \o intervals(range \ {range_first(range)})

(* The first interval starts at its lower end, or at INT32_MIN without one;   *)
(* the others are given by the gap before them, less one, and their length.  *)
RECURSIVE encode_intervals(_, _, _)
encode_intervals(intvls, i, pos) ==
  IF i > Len(intvls) THEN <<>>
  ELSE LET intvl == intvls[i]
           start == IF intvl.has_min THEN intvl.i_min ELSE INT32_MIN
           from == CASE pos < INT32_MIN -> (IF intvl.has_min THEN Item("int", start) ELSE Simple("null"))
                     [] OTHER -> Item("int", intvl.i_min - pos - 2)
       IN IF intvl.has_max
            THEN <<from, Item("int", intvl.i_max - start)>> \o encode_intervals(intvls, i + 1, intvl.i_max)
            ELSE <<from, Simple("null")>>

Single(range) == \E i \in range : range = {i} /\ i.has_min /\ i.has_max /\ i.i_min = i.i_max

cace_ari_cbor_encode_objpat_part(part) ==
  CASE part.kind = "special" -> <<Simple("true")>>
    [] part.kind = "range" /\ Single(part.range) -> <<Item("int", range_first(part.range).i_min)>>
    [] part.kind = "range" -> <<Array(encode_intervals(intervals(part.range), 1, INT64_MIN))>>
    [] part.kind = "text" -> <<Item("text", part.text)>>
    [] part.kind = "empty" -> <<>>

cace_ari_cbor_encode_objpat(parts) ==
  Array(FlattenSeq([i \in 1..4 |-> cace_ari_cbor_encode_objpat_part(parts[i])]))

RECURSIVE cace_ari_cbor_encode_stream(_)

encode_each(vs) == [i \in 1..Len(vs) |-> cace_ari_cbor_encode_stream(vs[i])]

cace_ari_cbor_encode_ac(items) == Array(encode_each(items))
cace_ari_cbor_encode_am(pairs) == Map(encode_each(flat(pairs)))
cace_ari_cbor_encode_tbl(v) == Array(<<Item("int", v.ncols)>> \o encode_each(v.items))
cace_ari_cbor_encode_execset(v) == Array(encode_each(<<v.nonce>> \o v.targets))

cace_ari_cbor_encode_report(rpt) ==
  Array(<<cace_ari_cbor_encode_timespec(rpt.reltime)>> \o encode_each(<<rpt.source>> \o rpt.items))

cace_ari_cbor_encode_rptset(v) ==
  Array(<<cace_ari_cbor_encode_stream(v.nonce), cace_ari_cbor_encode_timespec(v.reftime)>>
        \o [i \in 1..Len(v.reports) |-> cace_ari_cbor_encode_report(v.reports[i])])

encode_params(params) ==
  CASE params = NoParams -> <<>>
    [] IsAC(params) -> <<cace_ari_cbor_encode_ac(params.items)>>
    [] IsAM(params) -> <<cace_ari_cbor_encode_am(params.pairs)>>

encode_typed(v) ==
  CASE v.typ = "AC" -> cace_ari_cbor_encode_ac(v.items)
    [] v.typ = "AM" -> cace_ari_cbor_encode_am(v.pairs)
    [] v.typ = "TBL" -> cace_ari_cbor_encode_tbl(v)
    [] v.typ = "EXECSET" -> cace_ari_cbor_encode_execset(v)
    [] v.typ = "RPTSET" -> cace_ari_cbor_encode_rptset(v)
    [] v.typ = "OBJPAT" -> cace_ari_cbor_encode_objpat(v.parts)
    [] OTHER -> cace_ari_cbor_encode_primval(v)

cace_ari_cbor_encode_stream(v) ==
  CASE v.prim = "REF" ->
         Array(<<cace_ari_cbor_encode_idseg(v.org), cace_ari_cbor_encode_idseg(v.model)>>
               \o cace_ari_cbor_encode_optdate(v)
               \o <<IF v.typ = "NAMESPACE" THEN Simple("null") ELSE Item("int", cace_ari_type_t[v.typ]),
                    cace_ari_cbor_encode_idseg(v.obj)>>
               \o encode_params(v.params))
    [] v.typ = "none" -> cace_ari_cbor_encode_primval(v)
    [] OTHER -> Array(<<Item("int", cace_ari_type_t[v.typ]), encode_typed(v)>>)

-----------------------------------------------------------------------------
(* Decoding.  Bad is the value of what is refused.                          *)

NoSeg == [form |-> "fail"]

cace_ari_cbor_decode_idseg(i) ==
  CASE i.item = "null" -> NoId
    [] i.item = "text" -> TextId(i.num)
    [] IsInt64(i) -> IntId(i.num)
    [] OTHER -> NoSeg

(* Mutant: a negative time does not borrow a second for its fraction. *)
timespec_of_decimal_no_borrow(t, val) == Time(t, Quot(val, SUBSEC_SCALE), Abs(Rem(val, SUBSEC_SCALE)))

(* A time of val units of the last digit.  The fraction of a negative one is *)
(* made up for by a second, unless its whole seconds are none.               *)
timespec_of_decimal(t, val) ==
  LET fullsec == Quot(val, SUBSEC_SCALE)
      subsec == Abs(Rem(val, SUBSEC_SCALE))
  IN IF fullsec < 0 /\ subsec > 0 THEN Time(t, fullsec - 1, SUBSEC_SCALE - subsec) ELSE Time(t, fullsec, subsec)

cace_ari_cbor_decode_timespec(t, i) ==
  CASE IsInt64(i) -> Time(t, i.num, 0)
    [] /\ i.item = "array" /\ Len(i.items) >= 2
       /\ i.items[1].item = "int" /\ i.items[2].item = "int"
       /\ Abs(i.items[1].num) <= SUBSEC_DIGITS ->
         timespec_of_decimal(t, i.items[2].num * 10 ^ (i.items[1].num + SUBSEC_DIGITS))
    [] OTHER -> Bad

(* Other items leave the literal undefined.                                  *)
cace_ari_cbor_decode_primval(t, i) ==
  CASE i.item = "null" -> Lit(t, "NULL", 0)
    [] i.item \in {"true", "false"} -> Lit(t, "BOOL", IF i.item = "true" THEN 1 ELSE 0)
    [] i.item = "int" -> Lit(t, IF IsInt64(i) THEN "INT64" ELSE "UINT64", i.num)
    [] i.item = "float" -> Lit(t, "FLOAT64", i.num)
    [] i.item = "text" -> Lit(t, "TSTR", i.num)
    [] i.item = "bytes" -> Lit(t, "BSTR", i.num)
    [] OTHER -> Lit(t, "UNDEFINED", 0)

cace_ari_cbor_decode_label(t, i) ==
  IF i.item \in {"int", "text"} THEN cace_ari_cbor_decode_primval(t, i) ELSE Bad

(* The intervals that follow a position, in pairs of a length and a gap; the  *)
(* last has a length or no upper end.                                       *)
RECURSIVE decode_intervals(_, _, _)
decode_intervals(items, intvl, pos) ==
  IF Len(items) = 1
    THEN {IF items[1].item = "null" THEN [intvl EXCEPT !.has_max = FALSE, !.i_max = 0]
          ELSE [intvl EXCEPT !.has_max = TRUE, !.i_max = pos + items[1].num]}
    ELSE LET end == pos + items[1].num
             next == end + items[2].num + 2
             rest == decode_intervals(SubSeq(items, 3, Len(items)), FromOn(next), next)
         IN {[intvl EXCEPT !.has_max = TRUE, !.i_max = end]} \cup rest

decode_range(items) ==
  IF items[1].item = "null" THEN decode_intervals(Tail(items), Infinite, INT32_MIN)
  ELSE decode_intervals(Tail(items), FromOn(items[1].num), items[1].num)

RangeItems(items) == /\ Len(items) >= 2 /\ Len(items) % 2 = 0
                     /\ \A k \in DOMAIN items : IsInt64(items[k]) \/ (k \in {1, Len(items)} /\ items[k].item = "null")

cace_ari_cbor_decode_objpat_part(i) ==
  CASE i.item = "true" -> SpecialPart
    [] i.item = "text" -> TextPart(i.num)
    [] IsInt64(i) -> RangePart({Between(i.num, i.num)})
    [] i.item = "array" /\ RangeItems(i.items) -> RangePart(decode_range(i.items))
    [] i.item = "array" -> [kind |-> "fail"]
    [] OTHER -> EmptyPart

(* A part that is none of these is left empty, and its item is not consumed. *)
RECURSIVE decode_parts(_, _)
decode_parts(items, n) ==
  CASE n = 0 -> <<>>
    [] items = <<>> -> <<[kind |-> "fail"]>>
    [] OTHER -> LET part == cace_ari_cbor_decode_objpat_part(Head(items))
                IN <<part>> \o decode_parts(IF part = EmptyPart THEN items ELSE Tail(items), n - 1)

objpat_of(parts) == IF \E k \in DOMAIN parts : parts[k].kind = "fail" THEN Bad ELSE OBJPAT(parts)

cace_ari_cbor_decode_objpat(i) ==
  IF i.item \in {"array", "map"} THEN objpat_of(decode_parts(i.items, 4)) ELSE Bad

RECURSIVE cace_ari_cbor_decode_stream(_)

decode_each(items) == [k \in 1..Len(items) |-> cace_ari_cbor_decode_stream(items[k])]
IsArray(i) == i.item \in {"array", "map"}

(* What is made of values that are all good.                                *)
AllGood(vs) == \A k \in DOMAIN vs : vs[k].prim # "BAD"

ac_of(vs) == IF AllGood(vs) THEN AC(vs) ELSE Bad
cace_ari_cbor_decode_ac(i) == IF IsArray(i) THEN ac_of(decode_each(i.items)) ELSE Bad

Untyped(v) == v.prim # "REF" /\ v.typ = "none"

(* The values in turn are keys and what they are set to.                    *)
RECURSIVE set_pairs(_, _)
set_pairs(vs, pairs) ==
  IF vs = <<>> THEN pairs ELSE set_pairs(SubSeq(vs, 3, Len(vs)), set_at(pairs, vs[1], vs[2]))

am_of(vs) ==
  IF /\ AllGood(vs) /\ Len(vs) % 2 = 0
     /\ \A k \in DOMAIN vs : k % 2 = 1 => Untyped(vs[k])
    THEN AM(set_pairs(vs, <<>>)) ELSE Bad
cace_ari_cbor_decode_am(i) == IF IsArray(i) THEN am_of(decode_each(i.items)) ELSE Bad

RowsFilled(ncols, n) == IF ncols = 0 THEN n = 0 ELSE n % ncols = 0

tbl_of(ncols, vs) == IF AllGood(vs) /\ RowsFilled(ncols, Len(vs)) THEN TBL(ncols, vs) ELSE Bad
cace_ari_cbor_decode_tbl(i) ==
  IF IsArray(i) /\ i.items # <<>> /\ i.items[1].item = "int" /\ i.items[1].num >= 0
    THEN tbl_of(i.items[1].num, decode_each(Tail(i.items))) ELSE Bad

NonceOk(v) == v.prim \in {"NULL", "UINT64", "BSTR"} \/ (v.prim = "INT64" /\ v.num >= 0)

execset_of(vs) == IF AllGood(vs) /\ NonceOk(vs[1]) THEN EXECSET(vs[1], Tail(vs)) ELSE Bad
cace_ari_cbor_decode_execset(i) ==
  IF IsArray(i) /\ i.items # <<>> THEN execset_of(decode_each(i.items)) ELSE Bad

report_of(reltime, vs) == IF reltime = Bad \/ ~AllGood(vs) THEN Bad ELSE Report(reltime, vs[1], Tail(vs))
cace_ari_cbor_decode_report(i) ==
  IF IsArray(i) /\ Len(i.items) >= 2
    THEN report_of(cace_ari_cbor_decode_timespec("TD", i.items[1]), decode_each(Tail(i.items))) ELSE Bad

rptset_of(n, reftime, reports) ==
  IF NonceOk(n) /\ reftime # Bad /\ \A k \in DOMAIN reports : reports[k] # Bad
    THEN RPTSET(n, reftime, reports) ELSE Bad
cace_ari_cbor_decode_rptset(i) ==
  IF IsArray(i) /\ Len(i.items) >= 2
    THEN rptset_of(cace_ari_cbor_decode_stream(i.items[1]), cace_ari_cbor_decode_timespec("TP", i.items[2]),
                   [k \in 1..(Len(i.items) - 2) |-> cace_ari_cbor_decode_report(i.items[k + 2])])
    ELSE Bad

-----------------------------------------------------------------------------
TypesOf(n) == {t \in TypeNames : cace_ari_type_t[t] = n}

(* The types that the type segment of a path gives it, at most one.          *)
cace_ari_objpath_derive_type(seg) ==
  CASE seg.form = "none" -> {"NAMESPACE"}
    [] seg.form = "text" -> {t \in TypeNames : TypeText(t) = seg.text} \cap ObjectTypes
    [] seg.form = "int" -> TypesOf(seg.int) \cap ObjectTypes

decode_lit(type, i) ==
  CASE type \in TimeTypes -> cace_ari_cbor_decode_timespec(type, i)
    [] type \in IdSegTypes -> cace_ari_cbor_decode_label(type, i)
    [] type = "AC" -> cace_ari_cbor_decode_ac(i)
    [] type = "AM" -> cace_ari_cbor_decode_am(i)
    [] type = "TBL" -> cace_ari_cbor_decode_tbl(i)
    [] type = "EXECSET" -> cace_ari_cbor_decode_execset(i)
    [] type = "RPTSET" -> cace_ari_cbor_decode_rptset(i)
    [] type = "OBJPAT" -> cace_ari_cbor_decode_objpat(i)
    [] OTHER -> cace_ari_cbor_decode_primval(type, i)

decode_params(items) ==
  CASE items = <<>> -> NoParams
    [] Len(items) > 1 -> Bad
    [] items[1].item = "array" -> cace_ari_cbor_decode_ac(items[1])
    [] items[1].item = "map" -> cace_ari_cbor_decode_am(items[1])
    [] OTHER -> Bad

WithRev(ref, date) == IF date = <<>> THEN ref
                      ELSE [k \in DOMAIN ref \cup {"rev"} |-> IF k = "rev" THEN date[1].num ELSE ref[k]]

ref_of(org, model, date, types, obj, params) ==
  IF NoSeg \in {org, model, obj} \/ types = {} \/ params = Bad THEN Bad
  ELSE WithRev(Ref(CHOOSE t \in types : TRUE, org, model, obj, params), date)

(* The items after an organisation, a model and maybe a date.               *)
decode_ref(items, date, rest) ==
  IF Len(rest) < 2 THEN Bad
  ELSE LET type_id == cace_ari_cbor_decode_idseg(rest[1])
       IN ref_of(cace_ari_cbor_decode_idseg(items[1]), cace_ari_cbor_decode_idseg(items[2]), date,
                 IF type_id = NoSeg THEN {} ELSE cace_ari_objpath_derive_type(type_id),
                 cace_ari_cbor_decode_idseg(rest[2]), decode_params(SubSeq(rest, 3, Len(rest))))

cace_ari_cbor_decode_optdate(items) ==
  IF items[3].item = "date" THEN decode_ref(items, <<items[3]>>, SubSeq(items, 4, Len(items)))
  ELSE decode_ref(items, <<>>, SubSeq(items, 3, Len(items)))

(* An array of two is a literal with its type, a longer one a reference, and  *)
(* a shorter one leaves the value undefined.                                *)
cace_ari_cbor_decode_stream(i) ==
  CASE i.item = "array" /\ Len(i.items) = 2 ->
         IF i.items[1].item = "int" /\ TypesOf(i.items[1].num) # {}
           THEN decode_lit(CHOOSE t \in TypesOf(i.items[1].num) : TRUE, i.items[2]) ELSE Bad
    [] i.item = "array" /\ Len(i.items) > 2 -> cace_ari_cbor_decode_optdate(i.items)
    [] i.item = "array" -> Undefined
    [] i.item = "map" -> Bad
    [] OTHER -> cace_ari_cbor_decode_primval("none", i)
=============================================================================
