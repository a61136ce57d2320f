------------------------------ MODULE Numeric ------------------------------
(***************************************************************************)
(* The numeric OPERs of the Agent: the built-in numeric types of           *)
(* cace/amm/typing.c, the promotion to a common type of promote.c, the     *)
(* dispatch on a primitive of numeric.c, and the arithmetic and comparison *)
(* callbacks of ietf_dtnma_agent.c.                                        *)
(*                                                                         *)
(* A literal is a record: `typ` its ARI type ("none" when it has none),    *)
(* `prim` the member of the value union in use, `num` that member and      *)
(* `nano` the nanoseconds of a timespec.  Integers keep their widths, whose *)
(* limits are constants.  A FLOAT64 counts halves: `num` = 3 is 1.5.       *)
(***************************************************************************)
EXTENDS Integers, Sequences

CONSTANTS UINT8_MAX, INT32_MAX, UINT32_MAX, INT64_MAX,
          NANOS_IN_SEC,     \* nanoseconds in a second
          Doubles, Singles, \* the finite values of a double and of a float
          DBL_MAX, FLT_MAX, \* the largest of each
          Operands          \* the literals the OPERs are applied to

UINT64_MAX == 2 * INT64_MAX + 1
INT64_MIN == -INT64_MAX - 1
INT32_MIN == -INT32_MAX - 1

ASSUME WidthsAssumption ==
  /\ {UINT8_MAX, INT32_MAX, UINT32_MAX, INT64_MAX} \subseteq Nat
  /\ 0 < UINT8_MAX /\ UINT8_MAX < INT32_MAX
  /\ UINT32_MAX = 2 * INT32_MAX + 1 /\ UINT32_MAX < INT64_MAX
  /\ NANOS_IN_SEC \in Nat \ {0}

Inf == DBL_MAX + 1
NaN == DBL_MAX + 2

(* The value of an unsigned or a signed 64-bit variable that n is stored to. *)
uint64(n) == n % (UINT64_MAX + 1)
int64(n) == LET u == uint64(n) IN IF u > INT64_MAX THEN u - (UINT64_MAX + 1) ELSE u

Abs(n) == IF n < 0 THEN -n ELSE n

(* C's integer division, towards zero, and the remainder that goes with it. *)
Quot(a, b) == IF (a < 0) = (b < 0) THEN Abs(a) \div Abs(b) ELSE -(Abs(a) \div Abs(b))
Rem(a, b) == a - b * Quot(a, b)

-----------------------------------------------------------------------------
(* The double or float nearest to p / q halves.                            *)

Nearest(S, p, q) == CHOOSE d \in S : \A e \in S : Abs(p - d * q) <= Abs(p - e * q)

(* The conversions of an integer to a double and of a double to a float.   *)
ToDouble == [n \in INT64_MIN..UINT64_MAX |-> Nearest(Doubles, 2 * n, 1)]
ToSingle == [d \in Doubles |-> Nearest(Singles, d, 1)]

(* A double that holds the result p / q of an operation on doubles.        *)
Rounded(p, q) == CASE p > DBL_MAX * q -> Inf
                   [] p < -(DBL_MAX * q) -> -Inf
                   [] OTHER -> Nearest(Doubles, p, q)

Finite(v) == v \notin {Inf, -Inf, NaN}

ASSUME RealsAssumption ==
  /\ Doubles \subseteq Int /\ Singles \subseteq Doubles
  /\ DBL_MAX \in Doubles /\ FLT_MAX \in Singles
  /\ \A d \in Doubles : -DBL_MAX <= d /\ d <= DBL_MAX
  /\ \A d \in Singles : -FLT_MAX <= d /\ d <= FLT_MAX
  /\ 2 * UINT64_MAX <= FLT_MAX
  /\ \A n \in INT64_MIN..UINT64_MAX :
       \E d \in Doubles : \A e \in Doubles : Abs(2 * n - d * 1) <= Abs(2 * n - e * 1)
  /\ \A n \in Doubles : \E d \in Singles : \A e \in Singles : Abs(n - d * 1) <= Abs(n - e * 1)

-----------------------------------------------------------------------------
(* Literals and their built-in types.                                      *)

IntTypes == {"BYTE", "INT", "UINT", "VAST", "UVAST"}
RealTypes == {"REAL32", "REAL64"}
TimeTypes == {"TP", "TD"}
IdSegTypes == {"LABEL", "ARITYPE"}
ObjectTypes == {"CONST", "VAR", "EDD", "CTRL", "OPER", "SBR", "TBR", "TYPEDEF", "IDENT"}

Lit(t, p, n) == [typ |-> t, prim |-> p, num |-> n, nano |-> 0]
Time(t, s, n) == [typ |-> t, prim |-> "TIMESPEC", num |-> s, nano |-> n]

Undefined == Lit("none", "UNDEFINED", 0)
Bool(b) == Lit("BOOL", "BOOL", IF b THEN 1 ELSE 0)

(* A conversion or an operator that gives no value. *)
Bad == Lit("none", "BAD", 0)

(* The anyint constraints of each integer type: the greatest UINT64, and the *)
(* least and the greatest INT64.  A VAST is never negative and an INT64 that *)
(* is a UVAST ends at INT64_MAX.                                            *)
anyint_cnst ==
  [BYTE  |-> [uint_max |-> UINT8_MAX, int_min |-> 0, int_max |-> UINT8_MAX],
   INT   |-> [uint_max |-> INT32_MAX, int_min |-> INT32_MIN, int_max |-> INT32_MAX],
   UINT  |-> [uint_max |-> UINT32_MAX, int_min |-> 0, int_max |-> UINT32_MAX],
   VAST  |-> [uint_max |-> INT64_MAX, int_min |-> 0, int_max |-> INT64_MAX],
   UVAST |-> [uint_max |-> UINT64_MAX, int_min |-> 0, int_max |-> INT64_MAX]]

(* llround() of a FLOAT64, when it raises no exception and is exact. *)
IntegralDouble(v) == /\ Finite(v) /\ v % 2 = 0
                     /\ v \div 2 \in INT64_MIN..INT64_MAX

builtin_anyint_constraints(t, l) ==
  LET cnst == anyint_cnst[t]
  IN \/ l.prim = "UINT64" /\ l.num <= cnst.uint_max
     \/ l.prim = "INT64" /\ cnst.int_min <= l.num /\ l.num <= cnst.int_max
     \/ /\ l.prim = "FLOAT64" /\ IntegralDouble(l.num)
        /\ cnst.int_min <= l.num \div 2 /\ l.num \div 2 <= cnst.int_max

(* The double that holds a numeric primitive, and whether a REAL32 or a REAL64 *)
(* may hold it.                                                             *)
DoubleOf(l) == IF l.prim = "FLOAT64" THEN l.num ELSE ToDouble[l.num]

HasNumericPrim(l) == l.prim \in {"UINT64", "INT64", "FLOAT64"}

builtin_anyfloat_constraints(t, l) ==
  /\ HasNumericPrim(l)
  /\ \/ ~Finite(DoubleOf(l))
     \/ Abs(DoubleOf(l)) <= (IF t = "REAL32" THEN FLT_MAX ELSE DBL_MAX)

(* The matches of the built-in types.  A type that the literal has must be   *)
(* theirs; the types that are not listed ask for nothing more.               *)
builtin_match(t, l) ==
  CASE l.prim = "UNDEFINED" -> FALSE
    [] t = "LITERAL" -> l.prim # "REF"
    [] t = "NAMESPACE" -> l.prim = "REF" /\ l.typ = "NAMESPACE"
    [] t = "OBJECT" -> l.prim = "REF" /\ l.typ # "NAMESPACE"
    [] t \in ObjectTypes -> l.prim = "REF" /\ l.typ = t
    [] OTHER ->
         /\ l.prim # "REF" /\ l.typ \in {"none", t}
         /\ t \in IntTypes => builtin_anyint_constraints(t, l)
         /\ t \in RealTypes => builtin_anyfloat_constraints(t, l)
         /\ t \in IdSegTypes => l.prim \in {"TSTR", "INT64"}
         /\ t \in {"NULL", "BOOL"} => l.prim = t
         /\ t = "TEXTSTR" => l.prim = "TSTR"
         /\ t = "BYTESTR" => l.prim = "BSTR"

(* The conversions of the built-in types.  The setter of a type fixes the   *)
(* primitive: set_uint and set_uvast store a UINT64, the others an INT64.   *)
IntPrim(t) == IF t \in {"UINT", "UVAST"} THEN "UINT64" ELSE "INT64"

builtin_anyint_convert(t, l) ==
  IF builtin_anyint_constraints(t, l)
    THEN Lit(t, IntPrim(t), IF l.prim = "FLOAT64" THEN l.num \div 2 ELSE l.num)
    ELSE Bad

builtin_anyfloat_convert(t, l) ==
  IF ~builtin_anyfloat_constraints(t, l) THEN Bad
  ELSE IF t = "REAL32" /\ Finite(DoubleOf(l)) THEN Lit(t, "FLOAT64", ToSingle[DoubleOf(l)])
  ELSE Lit(t, "FLOAT64", DoubleOf(l))

(* A number is seconds; a double gives its fraction, of its sign, as         *)
(* nanoseconds.  A double of INT64_MAX + 1 passes the limit, which is a      *)
(* double itself, and its cast wraps.                                       *)
builtin_time_convert(t, l) ==
  CASE l.typ \in TimeTypes \ {t} -> Bad
    [] l.prim = "TIMESPEC" -> [l EXCEPT !.typ = t]
    [] l.prim \in {"UINT64", "INT64"} -> Time(t, int64(l.num), 0)
    [] /\ l.prim = "FLOAT64" /\ Finite(l.num)
       /\ ToDouble[INT64_MIN] <= l.num /\ l.num <= ToDouble[INT64_MAX] ->
         Time(t, int64(Quot(l.num, 2)), Rem(l.num, 2) * (NANOS_IN_SEC \div 2))
    [] OTHER -> Bad

(* A label or the name of a type: a typed literal must be one already.      *)
builtin_idseg_convert(t, l) ==
  CASE l.prim = "REF" -> Bad
    [] l.typ = t -> l
    [] l.typ = "none" /\ l.prim \in {"TSTR", "INT64"} -> [l EXCEPT !.typ = t]
    [] OTHER -> Bad

cace_amm_ari_is_truthy(l) ==
  CASE l.prim \in {"UNDEFINED", "NULL"} -> FALSE
    [] l.prim \in {"BOOL", "UINT64", "INT64", "TSTR", "BSTR"} -> l.num # 0
    [] l.prim = "FLOAT64" -> l.num \notin {0, NaN}
    [] l.prim = "TIMESPEC" -> l.num # 0 \/ l.nano # 0
    [] OTHER -> TRUE

(* Undefined is converted to itself; a type without a conversion of its own  *)
(* copies what it matches.                                                  *)
builtin_convert(t, l) ==
  CASE l.prim = "UNDEFINED" -> Undefined
    [] t \in IntTypes -> builtin_anyint_convert(t, l)
    [] t \in RealTypes -> builtin_anyfloat_convert(t, l)
    [] t \in TimeTypes -> builtin_time_convert(t, l)
    [] t \in IdSegTypes -> builtin_idseg_convert(t, l)
    [] t = "NULL" -> Lit("NULL", "NULL", 0)
    [] t = "BOOL" -> Bool(cace_amm_ari_is_truthy(l))
    [] OTHER -> IF builtin_match(t, l) THEN l ELSE Bad

(* The typedefs numeric and numeric-or-time of the operands: the built-in    *)
(* types that are the leaves of their unions, in the order of the choices.  *)
numeric_choices == <<"BYTE", "INT", "UINT", "VAST", "UVAST", "REAL32", "REAL64">>
numeric_or_time_choices == numeric_choices \o <<"TP", "TD">>

(* An operand is kept when a choice matches it and otherwise becomes the    *)
(* first choice it converts to.                                             *)
first_good(rs) ==
  IF \A i \in DOMAIN rs : rs[i] = Bad THEN Bad
  ELSE rs[CHOOSE i \in DOMAIN rs : rs[i] # Bad /\ \A j \in 1..(i - 1) : rs[j] = Bad]

union_convert(choices, l) ==
  IF \E i \in 1..Len(choices) : builtin_match(choices[i], l) THEN l
  ELSE first_good([i \in 1..Len(choices) |-> builtin_convert(choices[i], l)])

-----------------------------------------------------------------------------
(* Promotion of two literals to their least common type.                   *)

cace_amm_promote_eqiv_lit_type(l) ==
  CASE l.typ # "none" -> l.typ
    [] l.prim = "BOOL" -> "BOOL"
    [] l.prim = "TSTR" -> "TEXTSTR"
    [] l.prim = "UINT64" -> (IF l.num <= UINT8_MAX THEN "BYTE"
                             ELSE IF l.num <= UINT32_MAX THEN "UINT" ELSE "UVAST")
    [] l.prim = "INT64" -> (IF INT32_MIN <= l.num /\ l.num <= INT32_MAX THEN "INT" ELSE "VAST")
    [] l.prim = "FLOAT64" -> "REAL64"
    [] OTHER -> "NULL"

cace_amm_promote_is_numeric(t) == t \in IntTypes \cup RealTypes

cace_amm_promote_numeric_rank ==
  [BYTE |-> 0, UINT |-> 1, INT |-> 2, UVAST |-> 3, VAST |-> 4, REAL32 |-> 5, REAL64 |-> 6]

(* The common type, or "none" when the two have none. *)
common_type(lt, rt, l, r) ==
  LET rank == cace_amm_promote_numeric_rank
  IN CASE (lt.prim = "REF") # (rt.prim = "REF") -> "none"
       [] lt.prim = "REF" -> (IF lt.typ = "NAMESPACE" THEN "none" ELSE lt.typ)
       [] lt.typ # "none" /\ rt.typ = "none" -> lt.typ
       [] rt.typ # "none" /\ lt.typ = "none" -> rt.typ
       [] l = r -> l
       [] ~(cace_amm_promote_is_numeric(l) /\ cace_amm_promote_is_numeric(r)) -> "none"
       [] {l, r} = {"INT", "UVAST"} -> "VAST"
       [] OTHER -> (IF rank[l] > rank[r] THEN l ELSE r)

cace_amm_promote_type(lt, rt) ==
  common_type(lt, rt, cace_amm_promote_eqiv_lit_type(lt), cace_amm_promote_eqiv_lit_type(rt))

(* The literal an operator uses in place of l: l itself when it has the      *)
(* common type, its conversion otherwise.                                   *)
promoted(common, l) == IF l.typ = common THEN l ELSE builtin_convert(common, l)

promotion(common, lt, rt) ==
  [common |-> common, lt_use |-> promoted(common, lt), rt_use |-> promoted(common, rt)]

cace_amm_promote_process(lt, rt) == promotion(cace_amm_promote_type(lt, rt), lt, rt)

PromoteFails(p) == p.common = "none" \/ p.lt_use = Bad \/ p.rt_use = Bad

-----------------------------------------------------------------------------
(* The callbacks of the operators, on the primitive of the left operand: the *)
(* right one is read through the same member of its union.                  *)

as_uint64(l) == uint64(l.num)
as_int64(l) == int64(l.num)

ArithOps == {"add", "sub", "multiply", "divide", "remainder"}
CompareOps == {"eq", "ne", "gt", "ge", "lt", "le"}

(* The exact result of an integer operation. *)
IntResult(op, l, r) == CASE op = "add" -> l + r
                         [] op = "sub" -> l - r
                         [] op = "multiply" -> l * r
                         [] op = "divide" -> Quot(l, r)
                         [] op = "remainder" -> Rem(l, r)

numeric_uvast(op, l, r) == uint64(IntResult(op, l, r))
numeric_vast(op, l, r) == int64(IntResult(op, l, r))

(* An operation on doubles, in halves.  One on an infinity or a NaN gives one *)
(* of the values that such operations give.                                 *)
numeric_real64(op, l, r) ==
  IF ~Finite(l) \/ ~Finite(r) THEN {Inf, -Inf, NaN, 0, l, r}
  ELSE CASE op = "add" -> {Rounded(l + r, 1)}
         [] op = "sub" -> {Rounded(l - r, 1)}
         [] op = "multiply" -> {Rounded(l * r, 2)}
         [] op = "divide" -> {IF r > 0 THEN Rounded(2 * l, r) ELSE Rounded(-(2 * l), -r)}
         [] op = "remainder" -> {Rem(l, r)}

Holds(op, l, r) == CASE op = "eq" -> l = r
                     [] op = "ne" -> l # r
                     [] op = "gt" -> l > r
                     [] op = "ge" -> l >= r
                     [] op = "lt" -> l < r
                     [] op = "le" -> l <= r

(* A NaN is different from every double and ordered with none. *)
RealHolds(op, l, r) == IF NaN \in {l, r} THEN op = "ne" ELSE Holds(op, l, r)

-----------------------------------------------------------------------------
(* Times.                                                                  *)

Nanos(l) == l.num * NANOS_IN_SEC + l.nano

(* timespec_add and timespec_sub of the timespec library: a time of n        *)
(* nanoseconds, of which no negative number is left in tv_nsec.             *)
timespec_of(t, n) == Time(t, int64(n \div NANOS_IN_SEC), n % NANOS_IN_SEC)

(* Mutant: negative nanoseconds are not made up for by a second. *)
timespec_normalize_no_borrow(t, sec, nsec) ==
  LET adj_sec == Quot(nsec, NANOS_IN_SEC)
  IN Time(t, int64(sec + adj_sec), nsec - adj_sec * NANOS_IN_SEC)

(* The Agent's own normalisation, after a multiplication or a division. *)
timespec_normalize(t, sec, nsec) ==
  LET adj_sec == Quot(nsec, NANOS_IN_SEC)
      rest == nsec - adj_sec * NANOS_IN_SEC
  IN IF rest < 0 THEN Time(t, int64(sec + adj_sec - 1), NANOS_IN_SEC + rest)
                 ELSE Time(t, int64(sec + adj_sec), rest)

numeric_add_timespec(a, b) ==
  CASE a.typ = "TD" /\ b.typ = "TD" -> timespec_of("TD", Nanos(a) + Nanos(b))
    [] {a.typ, b.typ} = TimeTypes -> timespec_of("TP", Nanos(a) + Nanos(b))
    [] OTHER -> Bad

numeric_sub_timespec(a, b) ==
  CASE a.typ \in TimeTypes /\ b.typ = a.typ -> timespec_of("TD", Nanos(a) - Nanos(b))
    [] a.typ = "TP" /\ b.typ = "TD" -> timespec_of("TP", Nanos(a) - Nanos(b))
    [] OTHER -> Bad

(* Operations on doubles, and the cast of one to an integer. *)
dmul(x, y) == Rounded(x * y, 2)
ddiv(x, y) == CASE ~Finite(y) -> 0
                [] y > 0 -> Rounded(2 * x, y)
                [] OTHER -> Rounded(-(2 * x), -y)
dcast(x) == IF Finite(x) THEN int64(Quot(x, 2)) ELSE INT64_MIN

(* A duration times a number, in either order. *)
numeric_mul_timespec(lt, rt) ==
  LET a == IF lt.typ = "TD" THEN lt ELSE rt
      b == IF lt.typ = "TD" THEN rt ELSE lt
      sec == dmul(ToDouble[a.num], b.num)
  IN CASE ~(a.typ = "TD" /\ HasNumericPrim(b)) -> Bad
       [] b.prim \in {"UINT64", "INT64"} ->
            timespec_normalize("TD", int64(a.num * b.num), int64(a.nano * b.num))
       [] ~Finite(b.num) -> Bad
       [] OTHER -> timespec_normalize("TD", dcast(sec),
                     dcast(dmul(ToDouble[a.nano], b.num))
                       + (IF Finite(sec) THEN Rem(sec, 2) * (NANOS_IN_SEC \div 2) ELSE 0))

(* A duration divided by a number: the seconds that remain add nanoseconds.  *)
(* An unsigned divisor makes the seconds unsigned.                          *)
numeric_div_timespec(a, b) ==
  LET usec == uint64(a.num)
      dsec == dcast(ddiv(ToDouble[a.num], b.num))
      left == Rounded(ToDouble[a.num] - dmul(ToDouble[dsec], b.num), 1)
  IN CASE ~(a.typ = "TD" /\ HasNumericPrim(b)) -> Bad
       [] b.num = 0 \/ (b.prim = "FLOAT64" /\ b.num = NaN) -> Bad
       [] b.prim = "UINT64" ->
            timespec_normalize("TD", int64(usec \div b.num),
              (a.nano \div b.num) + uint64((usec % b.num) * NANOS_IN_SEC) \div b.num)
       [] b.prim = "INT64" ->
            timespec_normalize("TD", Quot(a.num, b.num),
              Quot(a.nano, b.num) + Quot(int64(Rem(a.num, b.num) * NANOS_IN_SEC), b.num))
       [] OTHER ->
            timespec_normalize("TD", dsec,
              dcast(ddiv(ToDouble[a.nano], b.num))
                + (IF Finite(b.num) THEN dcast(ddiv(dmul(left, 2 * NANOS_IN_SEC), b.num)) ELSE 0))

numeric_timespec(op, lt, rt) ==
  CASE op = "add" -> numeric_add_timespec(lt, rt)
    [] op = "sub" -> numeric_sub_timespec(lt, rt)
    [] op = "multiply" -> numeric_mul_timespec(lt, rt)
    [] op = "divide" -> numeric_div_timespec(lt, rt)
    [] OTHER -> Bad

-----------------------------------------------------------------------------
(* The operators: the values that may result, Bad when there is none.      *)

numeric_result(op, p) ==
  CASE PromoteFails(p) -> {Bad}
    [] p.lt_use.prim = "UINT64" ->
         {Lit(p.common, "UINT64", numeric_uvast(op, as_uint64(p.lt_use), as_uint64(p.rt_use)))}
    [] p.lt_use.prim = "INT64" ->
         {Lit(p.common, "INT64", numeric_vast(op, as_int64(p.lt_use), as_int64(p.rt_use)))}
    [] p.lt_use.prim = "FLOAT64" ->
         {Lit(p.common, "FLOAT64", v) : v \in numeric_real64(op, p.lt_use.num, p.rt_use.num)}
    [] OTHER -> {Bad}

cace_numeric_binary_operator(op, lt, rt) ==
  CASE "UNDEFINED" \in {lt.prim, rt.prim} -> {Bad}
    [] {cace_amm_promote_eqiv_lit_type(lt), cace_amm_promote_eqiv_lit_type(rt)}
         \cap TimeTypes # {} -> {numeric_timespec(op, lt, rt)}
    [] OTHER -> numeric_result(op, cace_amm_promote_process(lt, rt))

(* A right operand of a common type that is not numeric (the AC of a number  *)
(* compared with an AC) is read as a number all the same, and a reference as *)
(* a literal: any answer may come of it.                                    *)
compare_result(op, p) ==
  CASE PromoteFails(p) -> {Bad}
    [] p.lt_use.prim = "REF" -> {Bad, Bool(TRUE), Bool(FALSE)}
    [] ~HasNumericPrim(p.lt_use) /\ p.lt_use.prim # "TIMESPEC" -> {Bad}
    [] p.rt_use.prim \notin {"UNDEFINED", "UINT64", "INT64", "FLOAT64", "TIMESPEC"} ->
         {Bool(TRUE), Bool(FALSE)}
    [] p.lt_use.prim = "UINT64" -> {Bool(Holds(op, as_uint64(p.lt_use), as_uint64(p.rt_use)))}
    [] p.lt_use.prim = "INT64" -> {Bool(Holds(op, as_int64(p.lt_use), as_int64(p.rt_use)))}
    [] p.lt_use.prim = "FLOAT64" -> {Bool(RealHolds(op, p.lt_use.num, p.rt_use.num))}
    [] OTHER -> {Bool(Holds(op, Nanos(p.lt_use), Nanos(p.rt_use)))}

(* Mutant: two UINT64 are compared as INT64. *)
numeric_compare_signed(op, lt, rt) ==
  LET p == cace_amm_promote_process(lt, rt)
  IN IF p.lt_use.prim = "UINT64" /\ p.rt_use.prim = "UINT64"
       THEN {Bool(Holds(op, as_int64(p.lt_use), as_int64(p.rt_use)))}
       ELSE compare_result(op, p)

cace_numeric_compare_operator(op, lt, rt) == compare_result(op, cace_amm_promote_process(lt, rt))

cace_numeric_is_zero(l) == HasNumericPrim(l) /\ l.num = 0

-----------------------------------------------------------------------------
(* One evaluation of an OPER: its operands and its result, which is          *)
(* undefined when the callback leaves none.                                 *)

VARIABLE call

NoCall == [op |-> "none", lt |-> Undefined, rt |-> Undefined, res |-> Undefined]

Result(r) == IF r = Bad THEN Undefined ELSE r

(* The operand an OPER gets for a literal, Bad when the literal is refused.  *)
operand(op, l) ==
  IF op \in CompareOps THEN l
  ELSE union_convert(IF op = "remainder" THEN numeric_choices ELSE numeric_or_time_choices, l)

(* add, sub, multiply, divide and remainder. *)
oper_arith(op, lt, rt) ==
  IF op \in {"divide", "remainder"} /\ cace_numeric_is_zero(rt) THEN {Bad}
  ELSE cace_numeric_binary_operator(op, lt, rt)

(* No conversion of operands records that one of them is undefined, so the   *)
(* test the comparisons begin with never holds.                             *)
has_operand_undefined(lt, rt) == FALSE

oper_compare(op, lt, rt) ==
  IF has_operand_undefined(lt, rt) THEN {Bad} ELSE cace_numeric_compare_operator(op, lt, rt)

ArithCall(op, lt, rt) ==
  /\ lt # Bad /\ rt # Bad
  /\ \E res \in oper_arith(op, lt, rt) :
       call' = [op |-> op, lt |-> lt, rt |-> rt, res |-> Result(res)]

Arith(op, l, r) == ArithCall(op, operand(op, l), operand(op, r))

Compare(op, l, r) ==
  \E res \in oper_compare(op, l, r) :
    call' = [op |-> op, lt |-> l, rt |-> r, res |-> Result(res)]

Return == call # NoCall /\ call' = NoCall

Init == call = NoCall

Next == \/ /\ call = NoCall
           /\ \/ \E op \in ArithOps, l, r \in Operands : Arith(op, l, r)
              \/ \E op \in CompareOps, l, r \in Operands : Compare(op, l, r)
        \/ Return

Spec == Init /\ [][Next]_call

-----------------------------------------------------------------------------
(* Properties.                                                             *)

(* The literals a decoder or a conversion gives a numeric type or none. *)
WellFormed(l) ==
  /\ l.prim \in {"UINT64", "INT64", "FLOAT64", "TIMESPEC"}
  /\ l.prim = "UINT64" => /\ l.num \in 0..UINT64_MAX
                          /\ l.typ \in {"none", "UINT", "UVAST"}
  /\ l.prim = "INT64" => /\ l.num \in INT64_MIN..INT64_MAX
                         /\ l.typ \in {"none"} \cup IntTypes
                         /\ l.typ \in {"BYTE", "UINT", "UVAST"} => l.num >= 0
  /\ l.prim = "FLOAT64" => /\ l.num \in Doubles \cup {Inf, -Inf, NaN}
                           /\ l.typ \in {"none"} \cup RealTypes
  /\ l.prim = "TIMESPEC" => /\ l.num \in INT64_MIN..INT64_MAX /\ l.nano \in Int
                            /\ l.typ \in TimeTypes

IsInt(l) == l.prim \in {"UINT64", "INT64"}

(* What a literal measures, in half nanoseconds when it is a time or taken   *)
(* for one.                                                                 *)
Measure(l) == CASE l.prim = "TIMESPEC" -> 2 * Nanos(l)
                [] l.prim = "FLOAT64" -> l.num * NANOS_IN_SEC
                [] OTHER -> 2 * l.num * NANOS_IN_SEC

(* A UINT64 that no INT64 holds, met by a left operand that makes the        *)
(* comparison or the arithmetic signed, or by a time.                       *)
Exceeds(l) == l.prim = "UINT64" /\ l.num > INT64_MAX
ReadAsSigned(lt, rt) ==
  \/ lt.typ = "UVAST" /\ lt.prim = "INT64" /\ Exceeds(rt)
  \/ "TIMESPEC" \in {lt.prim, rt.prim} /\ (Exceeds(lt) \/ Exceeds(rt))

(* A comparison of numbers or times that gives a value never reverses their  *)
(* order, whatever types they have and whatever the promotion rounds, and    *)
(* is exact between integers.                                               *)
OrderSound ==
  LET l == Measure(call.lt)
      r == Measure(call.rt)
      t == call.res = Bool(TRUE)
  IN (/\ call.op \in CompareOps /\ call.res # Undefined
      /\ WellFormed(call.lt) /\ WellFormed(call.rt)
      /\ NaN \notin {call.lt.num, call.rt.num}
      /\ ~ReadAsSigned(call.lt, call.rt))
     => /\ call.op \in {"lt", "gt", "ne"} /\ t => Holds(call.op, l, r)
        /\ call.op \in {"le", "ge", "eq"} /\ ~t => ~Holds(call.op, l, r)
        /\ IsInt(call.lt) /\ IsInt(call.rt) => t = Holds(call.op, l, r)

Fits(p, n) == n \in (IF p = "UINT64" THEN 0..UINT64_MAX ELSE INT64_MIN..INT64_MAX)

ExactTime(op, a, b, n) ==
  CASE op = "add" -> n = Nanos(a) + Nanos(b)
    [] op = "sub" -> n = Nanos(a) - Nanos(b)
    [] op = "multiply" -> n = IF a.typ = "TD" THEN Nanos(a) * b.num ELSE Nanos(b) * a.num
    [] op = "divide" -> Abs(n * b.num - Nanos(a)) < 2 * Abs(b.num)

(* The products of a multiplication or a division that fit an INT64, and     *)
(* seconds an unsigned divisor does not change.                             *)
TimeFits(op, a, b) ==
  /\ op \in {"add", "sub"} => Fits("INT64", Nanos(a) + Nanos(b)) /\ Fits("INT64", Nanos(a) - Nanos(b))
  /\ op = "multiply" => Fits("INT64", Nanos(a) * b.num) /\ Fits("INT64", Nanos(b) * a.num)
                          /\ Fits("INT64", a.nano * b.num) /\ Fits("INT64", b.nano * a.num)
  /\ op = "divide" => /\ Fits("INT64", b.num * NANOS_IN_SEC)
                      /\ b.prim = "UINT64" => a.num >= 0

(* A division of integers that C defines.                                   *)
Divides(lt, rt) ==
  LET p == cace_amm_promote_process(lt, rt)
  IN IF p.lt_use.prim = "UINT64" THEN as_uint64(p.rt_use) # 0
     ELSE /\ as_int64(p.rt_use) # 0
          /\ ~(as_int64(p.lt_use) = INT64_MIN /\ as_int64(p.rt_use) = -1)

(* An integer result is the exact one, unless the primitive it is stored in  *)
(* cannot hold that; a sum, difference or product of times is exact, and a   *)
(* quotient less than two nanoseconds off; tv_nsec is left normalised.       *)
(* Neither divide nor remainder divides integers by zero, or the least INT64 *)
(* by -1: the test of the right operand is made before it is promoted, and   *)
(* no operand is a VAST that is negative.                                   *)
ArithmeticExact ==
  (/\ call.op \in ArithOps /\ call.res # Undefined
   /\ WellFormed(call.lt) /\ WellFormed(call.rt))
  => /\ /\ IsInt(call.lt) /\ IsInt(call.rt) /\ IsInt(call.res)
        /\ ~ReadAsSigned(call.lt, call.rt)
        /\ Fits(call.res.prim, IntResult(call.op, call.lt.num, call.rt.num))
        => call.res.num = IntResult(call.op, call.lt.num, call.rt.num)
     /\ call.res.prim = "TIMESPEC" =>
          /\ call.res.nano \in 0..(NANOS_IN_SEC - 1)
          /\ "FLOAT64" \notin {call.lt.prim, call.rt.prim} /\ TimeFits(call.op, call.lt, call.rt)
             => ExactTime(call.op, call.lt, call.rt, Nanos(call.res))
     /\ call.op \in {"divide", "remainder"} /\ IsInt(call.res) => Divides(call.lt, call.rt)
=============================================================================
