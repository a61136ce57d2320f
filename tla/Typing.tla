------------------------------- MODULE Typing -------------------------------
(***************************************************************************)
(* The semantic types of cace/amm/semtype.c over the built-in ones of      *)
(* Numeric: what they match, what they convert and what they are named.    *)
(*                                                                         *)
(* A value is a scalar as in Numeric or                                    *)
(*   an AC    [typ, prim = "OTHER", items]      items a sequence of values *)
(*   an AM    [typ, prim, pairs]       a sequence of <<key, value>>; the   *)
(*            order a converted map is sorted into is not modelled         *)
(*   a TBL    [typ, prim, ncols, items]           items row by row         *)
(*   a reference [typ, prim = "REF", ...] of the type of its object.       *)
(* A type is a record with its class and the members the class has.        *)
(***************************************************************************)
EXTENDS Numeric, SequencesExt

(* The texts that the pattern of a text constraint matches, and the length  *)
(* of a text or a byte string.                                              *)
CONSTANTS PatternTexts(_), strlen(_)

AC(s) == [typ |-> "AC", prim |-> "OTHER", items |-> s]
AM(s) == [typ |-> "AM", prim |-> "OTHER", pairs |-> s]
TBL(n, s) == [typ |-> "TBL", prim |-> "OTHER", items |-> s, ncols |-> n]

(* A reference, with the segments of its path (Paths) and its parameters.   *)
NoParams == Undefined

Ref(t, org, model, obj, params) ==
  [typ |-> t, prim |-> "REF", org |-> org, model |-> model, obj |-> obj, params |-> params]

IsAC(v) == v.prim = "OTHER" /\ v.typ = "AC"
IsAM(v) == v.prim = "OTHER" /\ v.typ = "AM"
IsTBL(v) == v.prim = "OTHER" /\ v.typ = "TBL"

(* Types.  An invalid one matches and converts nothing; a size of a list or  *)
(* a sequence is [min, max], max below 0 when there is none.                *)
Invalid == [class |-> "invalid"]
Builtin(t) == [class |-> "builtin", name |-> t]
Use(base, name, cnst) == [class |-> "use", base |-> base, name |-> name, cnst |-> cnst]
UList(item, size) == [class |-> "ulist", item |-> item, size |-> size]
Sequence(item, size) == [class |-> "seq", item |-> item, size |-> size]
DList(types) == [class |-> "dlist", types |-> types]
UMap(key, val) == [class |-> "umap", key |-> key, val |-> val]
TblT(cols) == [class |-> "tblt", cols |-> cols]
Union(choices) == [class |-> "union", choices |-> choices]

AnySize == [min |-> 0, max |-> -1]
NoMax(size) == size.max < 0
SizeOk(n, size) == size.min <= n /\ (NoMax(size) \/ n <= size.max)

-----------------------------------------------------------------------------
(* Ranges (cace/util/range.h): a set of intervals in a tree, ordered by the   *)
(* upper end of each, or by the lower one where there is no upper.           *)
Between(lo, hi) == [has_min |-> TRUE, i_min |-> lo, has_max |-> TRUE, i_max |-> hi]
FromOn(lo) == [has_min |-> TRUE, i_min |-> lo, has_max |-> FALSE, i_max |-> 0]
UpTo(hi) == [has_min |-> FALSE, i_min |-> 0, has_max |-> TRUE, i_max |-> hi]
Infinite == [has_min |-> FALSE, i_min |-> 0, has_max |-> FALSE, i_max |-> 0]

intvl_contains(i, v) == (i.has_min => i.i_min <= v) /\ (i.has_max => v <= i.i_max)

intvl_end(i) == IF i.has_max THEN i.i_max ELSE i.i_min
intvl_before(a, b) == a # b /\ (a = Infinite \/ (b # Infinite /\ intvl_end(a) < intvl_end(b)))

(* Mutant: the interval that is looked at is the first whatever the value is. *)
range_from_first(range, v) == range

(* The intervals that are not before a value. *)
range_from(range, v) == {i \in range : ~intvl_before(i, Between(v, v))}

(* The value is looked for in the first interval that is not before it, or    *)
(* in the last one when all are.                                             *)
range_contains(range, v) ==
  LET from == range_from(range, v)
      first(S) == CHOOSE i \in S : \A j \in S : ~intvl_before(j, i)
      last(S) == CHOOSE i \in S : \A j \in S : ~intvl_before(i, j)
  IN range # {} /\ intvl_contains(IF from = {} THEN last(range) ELSE first(from), v)

(* A constraint of a type use is a range of integers, of lengths of a text or *)
(* a byte string, or a pattern; one that was never set holds always.         *)
cace_amm_semtype_cnst_is_valid(cnst, v) ==
  CASE cnst.kind = "INVALID" -> TRUE
    [] cnst.kind = "RANGE_INT64" ->
         /\ v.prim = "INT64" \/ (v.prim = "UINT64" /\ v.num <= INT64_MAX)
         /\ range_contains(cnst.range, v.num)
    [] cnst.kind = "STRLEN" -> v.prim \in {"TSTR", "BSTR"} /\ range_contains(cnst.range, strlen(v.num))
    [] cnst.kind = "TEXTPAT" -> v.prim = "TSTR" /\ v.num \in PatternTexts(cnst.pattern)

Unset == [kind |-> "INVALID"]
RangeInt64(range) == [kind |-> "RANGE_INT64", range |-> range]
Strlen(range) == [kind |-> "STRLEN", range |-> range]
Textpat(pattern) == [kind |-> "TEXTPAT", pattern |-> pattern]

cace_amm_semtype_use_constraints(t, v) ==
  \A c \in t.cnst : cace_amm_semtype_cnst_is_valid(c, v)

(* The type of the i-th item of a table. *)
column(t, i) == t.cols[((i - 1) % Len(t.cols)) + 1].type

PosNeg(b) == IF b THEN "POSITIVE" ELSE "NEGATIVE"

RECURSIVE cace_amm_type_match(_, _)

(* How many of the items a sequence type takes: those that match, up to its  *)
(* greatest size.                                                           *)
RECURSIVE taken_by_match(_, _, _)
taken_by_match(t, items, used) ==
  IF /\ used < Len(items) /\ (NoMax(t.size) \/ used < t.size.max)
     /\ cace_amm_type_match(t.item, items[used + 1]) = "POSITIVE"
    THEN taken_by_match(t, items, used + 1)
    ELSE used

(* Each type of a dlist takes its items from the front of what is left. *)
RECURSIVE dlist_match(_, _)
dlist_match(types, items) ==
  IF types = <<>> THEN items = <<>>
  ELSE IF Head(types).class = "seq"
    THEN LET n == taken_by_match(Head(types), items, 0)
         IN n >= Head(types).size.min /\ dlist_match(Tail(types), SubSeq(items, n + 1, Len(items)))
    ELSE /\ items # <<>>
         /\ cace_amm_type_match(Head(types), Head(items)) # "NEGATIVE"
         /\ dlist_match(Tail(types), Tail(items))

cace_amm_semtype_use_match(t, v) ==
  PosNeg(cace_amm_type_match(t.base, v) # "NEGATIVE" /\ cace_amm_semtype_use_constraints(t, v))

cace_amm_semtype_ulist_match(t, v) ==
  PosNeg(/\ IsAC(v) /\ SizeOk(Len(v.items), t.size)
         /\ \A i \in 1..Len(v.items) : cace_amm_type_match(t.item, v.items[i]) # "NEGATIVE")

cace_amm_semtype_dlist_match(t, v) == PosNeg(IsAC(v) /\ dlist_match(t.types, v.items))

cace_amm_semtype_umap_match(t, v) ==
  PosNeg(/\ IsAM(v)
         /\ \A i \in 1..Len(v.pairs) :
              /\ cace_amm_type_match(t.key, v.pairs[i][1]) # "NEGATIVE"
              /\ cace_amm_type_match(t.val, v.pairs[i][2]) # "NEGATIVE")

cace_amm_semtype_tblt_match(t, v) ==
  PosNeg(/\ IsTBL(v) /\ v.ncols = Len(t.cols)
         /\ \A i \in 1..Len(v.items) : cace_amm_type_match(column(t, i), v.items[i]) # "NEGATIVE")

cace_amm_semtype_union_match(t, v) ==
  PosNeg(\E i \in 1..Len(t.choices) : cace_amm_type_match(t.choices[i], v) = "POSITIVE")

cace_amm_type_match(t, v) ==
  CASE t.class \in {"invalid", "seq"} -> "NEGATIVE"
    [] v.prim = "UNDEFINED" -> "UNDEFINED"
    [] t.class = "builtin" -> PosNeg(builtin_match(t.name, v))
    [] t.class = "use" -> cace_amm_semtype_use_match(t, v)
    [] t.class = "ulist" -> cace_amm_semtype_ulist_match(t, v)
    [] t.class = "dlist" -> cace_amm_semtype_dlist_match(t, v)
    [] t.class = "umap" -> cace_amm_semtype_umap_match(t, v)
    [] t.class = "tblt" -> cace_amm_semtype_tblt_match(t, v)
    [] t.class = "union" -> cace_amm_semtype_union_match(t, v)

-----------------------------------------------------------------------------
(* A conversion returns whether it succeeded and the value it leaves in its  *)
(* output, which a conversion that fails may have changed already.          *)

Converted(v) == [ok |-> TRUE, out |-> v]
Failed(v) == [ok |-> FALSE, out |-> v]

RECURSIVE cace_amm_type_convert(_, _, _)

fresh(t, v) == cace_amm_type_convert(t, Undefined, v)

converted_or(out, r) == IF r = Bad THEN Failed(out) ELSE Converted(r)
cace_amm_builtin_convert(t, out, v) == converted_or(out, builtin_convert(t.name, v))

(* Mutant: the constraints are not looked at. *)
use_convert_unchecked(t, out, v) == cace_amm_type_convert(t.base, out, v)

(* The constraints are those of the converted value. *)
constrained(t, r) == IF r.ok /\ ~cace_amm_semtype_use_constraints(t, r.out) THEN Failed(r.out) ELSE r
cace_amm_semtype_use_convert(t, out, v) == constrained(t, cace_amm_type_convert(t.base, out, v))

(* The results up to the first failure, and whether there is none. *)
until_failure(rs) ==
  LET bad == {i \in 1..Len(rs) : ~rs[i].ok}
      n == IF bad = {} THEN Len(rs) ELSE (CHOOSE i \in bad : \A j \in bad : i <= j) - 1
  IN [ok |-> bad = {}, outs |-> [i \in 1..n |-> rs[i].out]]

cace_amm_semtype_ulist_convert(t, out, v) ==
  IF ~(IsAC(v) /\ SizeOk(Len(v.items), t.size)) THEN Failed(out)
  ELSE LET rs == until_failure([i \in 1..Len(v.items) |-> fresh(t.item, v.items[i])])
       IN [ok |-> rs.ok, out |-> AC(rs.outs)]

RECURSIVE taken_by_convert(_, _, _)
taken_by_convert(t, items, used) ==
  IF /\ used < Len(items) /\ (NoMax(t.size) \/ used < t.size.max)
     /\ fresh(t.item, items[used + 1]).ok
    THEN taken_by_convert(t, items, used + 1)
    ELSE used

(* The items converted so far are kept when one fails, those of a sequence   *)
(* that has too few included.                                               *)
RECURSIVE dlist_convert(_, _, _)
dlist_convert(types, items, outs) ==
  IF types = <<>> THEN [ok |-> items = <<>>, out |-> AC(outs)]
  ELSE IF Head(types).class = "seq"
    THEN LET n == taken_by_convert(Head(types), items, 0)
             taken == outs \o [i \in 1..n |-> fresh(Head(types).item, items[i]).out]
         IN IF n < Head(types).size.min THEN Failed(AC(taken))
            ELSE dlist_convert(Tail(types), SubSeq(items, n + 1, Len(items)), taken)
    ELSE IF items = <<>> THEN Failed(AC(outs))
    ELSE LET r == fresh(Head(types), Head(items))
         IN IF r.ok THEN dlist_convert(Tail(types), Tail(items), Append(outs, r.out))
            ELSE Failed(AC(outs))

cace_amm_semtype_dlist_convert(t, out, v) ==
  IF IsAC(v) THEN dlist_convert(t.types, v.items, <<>>) ELSE Failed(out)

(* A key that is in the map already has its value replaced. *)
set_at(pairs, key, val) ==
  LET at == {i \in 1..Len(pairs) : pairs[i][1] = key}
  IN IF at = {} THEN Append(pairs, <<key, val>>)
     ELSE [i \in 1..Len(pairs) |-> IF i \in at THEN <<key, val>> ELSE pairs[i]]

RECURSIVE umap_convert(_, _, _)
umap_convert(t, pairs, outs) ==
  IF pairs = <<>> THEN Converted(AM(outs))
  ELSE LET k == fresh(t.key, Head(pairs)[1])
           v == fresh(t.val, Head(pairs)[2])
       IN IF k.ok /\ v.ok THEN umap_convert(t, Tail(pairs), set_at(outs, k.out, v.out))
          ELSE Failed(AM(outs))

cace_amm_semtype_umap_convert(t, out, v) ==
  IF IsAM(v) THEN umap_convert(t, v.pairs, <<>>) ELSE Failed(out)

(* The output has all its items from the start, undefined until they are     *)
(* converted; the one that fails is left as its own conversion leaves it.   *)
cace_amm_semtype_tblt_convert(t, out, v) ==
  IF ~(IsTBL(v) /\ v.ncols = Len(t.cols)) THEN Failed(out)
  ELSE LET rs == [i \in 1..Len(v.items) |-> fresh(column(t, i), v.items[i])]
           done == Len(until_failure(rs).outs)
       IN [ok |-> until_failure(rs).ok,
           out |-> TBL(v.ncols, [i \in 1..Len(v.items) |->
                                   IF i <= done + 1 THEN rs[i].out ELSE Undefined])]

(* The first choice that matches takes the value as it is; when none does,   *)
(* the first choice that converts it.                                       *)
RECURSIVE first_choice(_, _, _)
first_choice(choices, out, v) ==
  IF choices = <<>> THEN Failed(out)
  ELSE LET r == cace_amm_type_convert(Head(choices), out, v)
       IN IF r.ok THEN r ELSE first_choice(Tail(choices), r.out, v)

cace_amm_semtype_union_convert(t, out, v) ==
  IF \E i \in 1..Len(t.choices) : cace_amm_type_match(t.choices[i], v) = "POSITIVE"
    THEN Converted(v)
    ELSE first_choice(t.choices, out, v)

cace_amm_type_convert(t, out, v) ==
  CASE t.class \in {"invalid", "seq"} -> Failed(out)
    [] t.class = "builtin" -> cace_amm_builtin_convert(t, out, v)
    [] t.class = "use" -> cace_amm_semtype_use_convert(t, out, v)
    [] t.class = "ulist" -> cace_amm_semtype_ulist_convert(t, out, v)
    [] t.class = "dlist" -> cace_amm_semtype_dlist_convert(t, out, v)
    [] t.class = "umap" -> cace_amm_semtype_umap_convert(t, out, v)
    [] t.class = "tblt" -> cace_amm_semtype_tblt_convert(t, out, v)
    [] t.class = "union" -> cace_amm_semtype_union_convert(t, out, v)

-----------------------------------------------------------------------------
(* Names.  A built-in type is named by an ARITYPE literal, the others by a   *)
(* reference to an object of amm-semtype with their parts as parameters.    *)

ARITYPE(t) == [aritype |-> t]
SemType(obj, params) == [semtype |-> obj, params |-> params]

RECURSIVE cace_amm_type_get_name(_)
cace_amm_type_get_name(t) ==
  LET names(ts) == [i \in 1..Len(ts) |-> cace_amm_type_get_name(ts[i])]
  IN CASE t.class = "invalid" -> [undefined |-> TRUE]
       [] t.class = "builtin" -> ARITYPE(t.name)
       [] t.class = "use" -> SemType("type-use", [name |-> t.name])
       [] t.class = "ulist" -> SemType("ulist", [item_type |-> cace_amm_type_get_name(t.item)])
       [] t.class = "seq" -> SemType("seq", [item_type |-> cace_amm_type_get_name(t.item)])
       [] t.class = "dlist" -> SemType("dlist", [item_types |-> names(t.types)])
       [] t.class = "umap" -> SemType("ulist", [key_type |-> cace_amm_type_get_name(t.key),
                                                value_type |-> cace_amm_type_get_name(t.val)])
       [] t.class = "tblt" -> SemType("tblt",
            [columns |-> [i \in 1..Len(t.cols) |->
               [name |-> t.cols[i].name, type |-> cace_amm_type_get_name(t.cols[i].type)]]])
       [] t.class = "union" -> SemType("union", [choices |-> names(t.choices)])

(* What a name sets a type to, and whether that succeeded.  The result for a *)
(* part is not looked at: the part stays invalid.  Sizes and constraints are *)
(* in no name, and the base of a type use is left to the binding.           *)
Set(t) == [ok |-> TRUE, type |-> t]

set_columns(columns, types) == [i \in DOMAIN columns |-> [name |-> columns[i].name, type |-> types[i]]]

RECURSIVE cace_amm_type_set_name(_)
cace_amm_type_set_name(n) ==
  LET part(m) == cace_amm_type_set_name(m).type
      parts(ms) == [i \in 1..Len(ms) |-> part(ms[i])]
      has(p) == p \in DOMAIN n.params
      missing(t) == [ok |-> FALSE, type |-> t]
  IN CASE "aritype" \in DOMAIN n -> Set(Builtin(n.aritype))
       [] "semtype" \notin DOMAIN n -> missing(Invalid)
       [] n.semtype = "type-use" -> Set(Use(Invalid, n.params.name, {}))
       [] n.semtype = "ulist" -> (IF has("item_type") THEN Set(UList(part(n.params.item_type), AnySize))
                                  ELSE missing(UList(Invalid, AnySize)))
       [] n.semtype = "seq" -> Set(Sequence(part(n.params.item_type), AnySize))
       [] n.semtype = "dlist" -> Set(DList(parts(n.params.item_types)))
       [] n.semtype = "umap" -> Set(UMap(part(n.params.key_type), part(n.params.value_type)))
       [] n.semtype = "tblt" -> Set(TblT(set_columns(n.params.columns,
            [i \in 1..Len(n.params.columns) |-> part(n.params.columns[i].type)])))
       [] n.semtype = "union" -> Set(Union(parts(n.params.choices)))
=============================================================================
