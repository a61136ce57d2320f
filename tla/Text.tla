-------------------------------- MODULE Text --------------------------------
(***************************************************************************)
(* The text form of a value: text_enc.c writes it, text_str.lex and         *)
(* text_str.yac read its structure, text_val.lex and text_val.yac the value  *)
(* of one segment.  A text is the sequence of the tokens that text_str.lex    *)
(* finds in it:                                                            *)
(*   ARI_PREFIX ("ari:"), LPAREN, RPAREN, COMMA, EQ, SC (";"), SLASH,         *)
(*   REF_ABS ("//"), REF_REL_DOT ("."), REF_REL_DOTDOT ("..")                 *)
(*   LITTYPE and IDSEG       with the segment that is a type or an id         *)
(*   VALSEG                  with the kind of value that is spelled by it     *)
(* A word is a text that is an identifier; some of them are keywords.  The    *)
(* spelling of a number, of a quoted text and of bytes is that of TextUtil.   *)
(***************************************************************************)
EXTENDS Cbor, TextUtil

CONSTANTS identity(_),         \* the texts that are identifiers
          Keyword,             \* the texts of null, undefined, true, false, Infinity and NaN
          Shown,               \* the doubles that their six digits in text are
          cace_ari_dtn_epoch, TIMEPERIOD_DAY, TIMEPERIOD_HOUR, TIMEPERIOD_MINUTE

ASSUME TextAssumption ==
  /\ DOMAIN Keyword = {"null", "undefined", "yes", "no", "Infinity", "NaN"}
  /\ Shown \subseteq Doubles /\ Shown # {}
  /\ 1 < TIMEPERIOD_MINUTE /\ TIMEPERIOD_MINUTE < TIMEPERIOD_HOUR /\ TIMEPERIOD_HOUR < TIMEPERIOD_DAY

T(name) == <<[tok |-> name]>>
Seg(name, seg) == <<[tok |-> name, seg |-> seg]>>
V(kind, n) == <<[tok |-> "VALSEG", kind |-> kind, num |-> n]>>

-----------------------------------------------------------------------------
(* Times.                                                                   *)

(* The digits of a fraction, without the zeros at its end, and back.          *)
RECURSIVE subsec_digits(_, _)
subsec_digits(subsec, digits) ==
  IF subsec # 0 /\ subsec % 10 = 0 THEN subsec_digits(subsec \div 10, digits - 1)
  ELSE [digits |-> digits, num |-> subsec]

cace_subsec_encode(subsec) == subsec_digits(subsec, SUBSEC_DIGITS)

(* Mutant: the digits are a number of the last digit of a nanosecond. *)
subsec_decode_unscaled(sub) == sub.num

subsec_decode(sub) == sub.num * 10 ^ (SUBSEC_DIGITS - sub.digits)

(* The whole seconds and the fraction that a time is written with, both of   *)
(* its sign, and the time that they are.                                    *)
toward_zero(ts) ==
  IF ts.num < 0 /\ ts.nano > 0 THEN [sec |-> ts.num + 1, sub |-> cace_subsec_encode(SUBSEC_SCALE - ts.nano)]
  ELSE [sec |-> ts.num, sub |-> cace_subsec_encode(ts.nano)]

from_zero(t, neg, sec, subsec) ==
  IF neg /\ subsec > 0 THEN Time(t, sec - 1, SUBSEC_SCALE - subsec) ELSE Time(t, sec, subsec)

cace_decfrac_encode(ts) ==
  <<[tok |-> "VALSEG", kind |-> "decfrac", sec |-> toward_zero(ts).sec, sub |-> toward_zero(ts).sub]>>
cace_decfrac_decode(t, val) == from_zero(t, val.sec < 0, val.sec, subsec_decode(val.sub))

cace_utctime_encode(ts) ==
  <<[tok |-> "VALSEG", kind |-> "utc", sec |-> cace_ari_dtn_epoch + ts.num, sub |-> cace_subsec_encode(ts.nano)]>>
cace_utctime_decode(t, val) == Time(t, val.sec - cace_ari_dtn_epoch, subsec_decode(val.sub))

cace_timeperiod_encode(ts) ==
  LET abs == Abs(toward_zero(ts).sec)
      of_day == abs % TIMEPERIOD_DAY
      of_hour == of_day % TIMEPERIOD_HOUR
  IN <<[tok |-> "VALSEG", kind |-> "period", neg |-> ts.num < 0,
        D |-> abs \div TIMEPERIOD_DAY, H |-> of_day \div TIMEPERIOD_HOUR,
        M |-> of_hour \div TIMEPERIOD_MINUTE, S |-> of_hour % TIMEPERIOD_MINUTE, sub |-> toward_zero(ts).sub]>>

cace_timeperiod_decode(t, val) ==
  LET sec == val.D * TIMEPERIOD_DAY + val.H * TIMEPERIOD_HOUR + val.M * TIMEPERIOD_MINUTE + val.S
  IN from_zero(t, val.neg, IF val.neg THEN -sec ELSE sec, subsec_decode(val.sub))

-----------------------------------------------------------------------------
(* Encoding, with options                                                   *)
(*   scheme_prefix    where "ari:" is written: none, first or all            *)
(*   show_ari_type    types by their name, "text", or their number, "int"     *)
(*   text_identity    identifiers are not quoted                             *)
(*   time_text        times are dates and periods, not decimal fractions      *)
(* and the depth of the value in others.                                    *)

Joined(parts) == FlattenSeq([i \in 1..Len(parts) |-> IF i = 1 THEN parts[i] ELSE T("COMMA") \o parts[i]])
Bracket(parts) == T("LPAREN") \o Joined(parts) \o T("RPAREN")
LitParam(key, value) == <<[tok |-> "VALSEG", kind |-> "key", key |-> key]>> \o T("EQ") \o value \o T("SC")
NoPrefix(opts) == [opts EXCEPT !.scheme_prefix = "none"]

cace_ari_text_encode_prefix(opts, depth) ==
  IF opts.scheme_prefix = "all" \/ (opts.scheme_prefix = "first" /\ depth = 0) THEN T("ARI_PREFIX") ELSE <<>>

cace_ari_text_encode_aritype(opts, t) ==
  IF opts.show_ari_type = "text" THEN TextId(TypeText(t)) ELSE IntId(cace_ari_type_t[t])

cace_ari_float64_encode(d) ==
  CASE d = NaN -> V("word", Keyword.NaN)
    [] d = Inf -> V("word", Keyword.Infinity)
    [] d = -Inf -> V("minus word", Keyword.Infinity)
    [] OTHER -> V("float", Nearest(Shown, d, 1))

encode_interval(intvl) ==
  CASE intvl.has_min /\ intvl.has_max /\ intvl.i_min = intvl.i_max -> V("int", intvl.i_min)
    [] intvl = Infinite -> T("REF_REL_DOTDOT")
    [] OTHER -> <<[tok |-> "VALSEG", kind |-> "interval", intvl |-> intvl]>>

cace_ari_text_encode_objpat_part(part) ==
  CASE part.kind = "special" -> Bracket(<<V("star", 0)>>)
    [] part.kind = "range" ->
         Bracket([i \in 1..Cardinality(part.range) |-> encode_interval(intervals(part.range)[i])])
    [] part.kind = "text" -> Bracket(<<V("word", part.text)>>)
    [] part.kind = "empty" -> Bracket(<<>>)

encode_prim(v, opts) ==
  CASE v.prim = "UNDEFINED" -> V("word", Keyword.undefined)
    [] v.prim = "NULL" -> V("word", Keyword.null)
    [] v.prim = "BOOL" -> V("word", IF v.num = 1 THEN Keyword.yes ELSE Keyword.no)
    [] v.prim \in {"UINT64", "INT64"} -> V("int", v.num)
    [] v.prim = "FLOAT64" -> cace_ari_float64_encode(v.num)
    [] v.prim = "TSTR" -> IF opts.text_identity /\ identity(v.num) THEN V("word", v.num) ELSE V("quoted", v.num)
    [] v.prim = "BSTR" -> V("bytes", v.num)
    [] OTHER -> <<>>

RECURSIVE cace_ari_text_encode_stream(_, _, _)

text_each(vs, opts, depth) == [i \in 1..Len(vs) |-> cace_ari_text_encode_stream(vs[i], opts, depth)]

cace_ari_text_encode_ac(items, opts, depth) == Bracket(text_each(items, opts, depth + 1))

cace_ari_text_encode_am(pairs, opts, depth) ==
  LET tree == in_tree(pairs)
  IN Bracket([i \in 1..Len(tree) |-> cace_ari_text_encode_stream(tree[i][1], opts, depth + 1) \o T("EQ")
                                     \o cace_ari_text_encode_stream(tree[i][2], opts, depth + 1)])

cace_ari_text_encode_tbl(v, opts, depth) ==
  LET nrows == IF v.ncols = 0 THEN 0 ELSE Len(v.items) \div v.ncols
      row(r) == SubSeq(v.items, (r - 1) * v.ncols + 1, r * v.ncols)
  IN LitParam("c", V("int", v.ncols))
     \o FlattenSeq([r \in 1..nrows |-> Bracket(text_each(row(r), opts, depth + 1))])

cace_ari_text_encode_execset(v, opts, depth) ==
  LitParam("n", cace_ari_text_encode_stream(v.nonce, NoPrefix(opts), depth))
  \o Bracket(text_each(v.targets, opts, depth + 1))

cace_ari_text_encode_report(rpt, opts, depth) ==
  LitParam("t", cace_ari_text_encode_stream(rpt.reltime, NoPrefix(opts), depth))
  \o LitParam("s", cace_ari_text_encode_stream(rpt.source, NoPrefix(opts), depth))
  \o Bracket(text_each(rpt.items, opts, depth))

cace_ari_text_encode_rptset(v, opts, depth) ==
  LitParam("n", cace_ari_text_encode_stream(v.nonce, NoPrefix(opts), depth + 1))
  \o LitParam("r", cace_ari_text_encode_stream(v.reftime, NoPrefix(opts), depth + 1))
  \o Bracket([i \in 1..Len(v.reports) |-> cace_ari_text_encode_report(v.reports[i], opts, depth + 1)])

encode_value(v, opts, depth) ==
  CASE v.typ \in TimeTypes /\ ~opts.time_text -> cace_decfrac_encode(v)
    [] v.typ = "TP" -> cace_utctime_encode(v)
    [] v.typ = "TD" -> cace_timeperiod_encode(v)
    [] v.typ = "AC" -> cace_ari_text_encode_ac(v.items, opts, depth)
    [] v.typ = "AM" -> cace_ari_text_encode_am(v.pairs, opts, depth)
    [] v.typ = "TBL" -> cace_ari_text_encode_tbl(v, opts, depth)
    [] v.typ = "EXECSET" -> cace_ari_text_encode_execset(v, opts, depth)
    [] v.typ = "RPTSET" -> cace_ari_text_encode_rptset(v, opts, depth)
    [] v.typ = "OBJPAT" -> FlattenSeq([i \in 1..4 |-> cace_ari_text_encode_objpat_part(v.parts[i])])
    [] OTHER -> encode_prim(v, opts)

cace_ari_text_encode_lit(v, opts, depth) ==
  cace_ari_text_encode_prefix(opts, depth)
  \o (IF v.typ = "none" THEN <<>> ELSE Seg("LITTYPE", cace_ari_text_encode_aritype(opts, v.typ)))
  \o encode_value(v, opts, depth)

(* A segment of a path, the revision of a model in the same one, or nothing. *)
cace_ari_text_encode_idseg(seg) == IF seg.form = "none" THEN <<>> ELSE Seg("IDSEG", seg)

encode_model(ref) ==
  IF HasRev(ref) THEN <<[tok |-> "IDSEG", seg |-> ref.model, rev |-> ref.rev]>>
  ELSE cace_ari_text_encode_idseg(ref.model)

(* Every segment is followed by a slash, which is read with the next one.     *)
cace_ari_text_encode_objpath(ref, opts) ==
  (CASE ref.org.form # "none" -> T("REF_ABS") \o cace_ari_text_encode_idseg(ref.org)
     [] ref.model.form # "none" -> T("REF_REL_DOTDOT")
     [] OTHER -> T("REF_REL_DOT"))
  \o encode_model(ref)
  \o (IF ref.typ = "NAMESPACE" THEN <<>> ELSE Seg("IDSEG", cace_ari_text_encode_aritype(opts, ref.typ)))
  \o (IF ref.obj.form = "none" THEN T("SLASH") ELSE cace_ari_text_encode_idseg(ref.obj))

cace_ari_text_encode_objref(ref, opts, depth) ==
  (IF ref.org.form # "none" THEN cace_ari_text_encode_prefix(opts, depth) ELSE <<>>)
  \o cace_ari_text_encode_objpath(ref, opts)
  \o (CASE ref.params = NoParams -> <<>>
        [] IsAC(ref.params) -> cace_ari_text_encode_ac(ref.params.items, opts, depth)
        [] IsAM(ref.params) -> cace_ari_text_encode_am(ref.params.pairs, opts, depth))

cace_ari_text_encode_stream(v, opts, depth) ==
  IF v.prim = "REF" THEN cace_ari_text_encode_objref(v, opts, depth) ELSE cace_ari_text_encode_lit(v, opts, depth)

-----------------------------------------------------------------------------
(* Reading.  A rule of the grammar gives whether it holds of the front of    *)
(* some tokens, what is made of it and the tokens after it.                  *)

Fail == [ok |-> FALSE]
Ok(val, rest) == [ok |-> TRUE, val |-> val, rest |-> rest]
tok(s) == IF s = <<>> THEN "YYEOF" ELSE Head(s).tok

IsWord(text, key) == tolower(text) = tolower(Keyword[key])

(* A number by its sign and size, and the words that are values.             *)
int_of(n) == [prim |-> IF n <= INT64_MAX THEN "INT64" ELSE "UINT64", num |-> n]

word_of(text) ==
  CASE IsWord(text, "undefined") -> [prim |-> "UNDEFINED", num |-> 0]
    [] IsWord(text, "null") -> [prim |-> "NULL", num |-> 0]
    [] IsWord(text, "yes") -> [prim |-> "BOOL", num |-> 1]
    [] IsWord(text, "no") -> [prim |-> "BOOL", num |-> 0]
    [] IsWord(text, "Infinity") -> [prim |-> "FLOAT64", num |-> Inf]
    [] IsWord(text, "NaN") -> [prim |-> "FLOAT64", num |-> NaN]
    [] OTHER -> [prim |-> "TSTR", num |-> text]

value_of(val) ==
  CASE val.kind = "word" -> word_of(val.num)
    [] val.kind = "minus word" -> [prim |-> "FLOAT64", num |-> -Inf]
    [] val.kind = "int" -> int_of(val.num)
    [] val.kind = "float" -> [prim |-> "FLOAT64", num |-> val.num]
    [] val.kind = "quoted" -> [prim |-> "TSTR", num |-> val.num]
    [] val.kind = "bytes" -> [prim |-> "BSTR", num |-> val.num]
    [] OTHER -> [prim |-> "BAD", num |-> 0]

lit_of(t, v, prims) == IF v.prim \in prims THEN Lit(t, v.prim, v.num) ELSE Bad

(* The value of a segment for a type, by the start condition of the type: the *)
(* keywords of one are plain words for others.                              *)
cace_ari_text_val_startcond(t, val) ==
  CASE t = "none" -> lit_of(t, value_of(val), {"UNDEFINED", "NULL", "BOOL", "INT64", "UINT64", "FLOAT64", "TSTR", "BSTR"})
    [] t = "NULL" -> lit_of(t, value_of(val), {"NULL"})
    [] t = "BOOL" -> lit_of(t, value_of(val), {"BOOL"})
    [] t \in IntTypes -> lit_of(t, value_of(val), {"INT64", "UINT64"})
    [] t \in RealTypes -> IF val.kind = "int" THEN Lit(t, "FLOAT64", ToDouble[val.num])
                          ELSE lit_of(t, value_of(val), {"FLOAT64"})
    [] t = "TEXTSTR" -> IF val.kind \in {"word", "quoted"} THEN Lit(t, "TSTR", val.num) ELSE Bad
    [] t \in {"BYTESTR", "CBOR"} -> lit_of(t, value_of(val), {"BSTR"})
    [] t \in TimeTypes /\ val.kind = "decfrac" -> cace_decfrac_decode(t, val)
    [] t = "TP" /\ val.kind = "utc" -> cace_utctime_decode(t, val)
    [] t = "TD" /\ val.kind = "period" -> cace_timeperiod_decode(t, val)
    [] t \in IdSegTypes /\ val.kind = "int" -> lit_of(t, int_of(val.num), {"INT64"})
    [] t \in IdSegTypes /\ (val.kind = "word" \/ (t = "LABEL" /\ val.kind = "quoted")) -> Lit(t, "TSTR", val.num)
    [] OTHER -> Bad

value_read(v, rest) == IF v = Bad THEN Fail ELSE Ok(v, rest)
cace_ari_lit_from_text(t, s) ==
  IF tok(s) = "VALSEG" THEN value_read(cace_ari_text_val_startcond(t, Head(s)), Tail(s)) ELSE Fail

(* What follows the last item of a list in brackets.                        *)
closed(r) == IF r.ok /\ tok(r.rest) = "RPAREN" THEN Ok(r.val, Tail(r.rest)) ELSE Fail

-----------------------------------------------------------------------------
RECURSIVE ari(_)

(* The list goes on after a comma.                                          *)
RECURSIVE aclist(_, _)
aclist_on(items, rest) == IF tok(rest) = "COMMA" THEN aclist(Tail(rest), items) ELSE Ok(items, rest)
aclist_item(item, items) == IF item.ok THEN aclist_on(Append(items, item.val), item.rest) ELSE Fail
aclist(s, items) == aclist_item(ari(s), items)

Empty(s) == Len(s) >= 2 /\ s[1].tok = "LPAREN" /\ s[2].tok = "RPAREN"

acbracket(s) ==
  CASE Empty(s) -> Ok(<<>>, SubSeq(s, 3, Len(s)))
    [] ~Empty(s) /\ tok(s) = "LPAREN" -> closed(aclist(Tail(s), <<>>))
    [] OTHER -> Fail

RECURSIVE amlist(_, _)
amlist_on(pairs, rest) == IF tok(rest) = "COMMA" THEN amlist(Tail(rest), pairs) ELSE Ok(pairs, rest)
amlist_value(key, val, pairs) == IF val.ok THEN amlist_on(set_at(pairs, key, val.val), val.rest) ELSE Fail
amlist_key(key, pairs) ==
  IF ~key.ok THEN Fail
  ELSE IF tok(key.rest) # "EQ" THEN Fail
  ELSE amlist_value(key.val, ari(Tail(key.rest)), pairs)
amlist(s, pairs) == amlist_key(ari(s), pairs)

ambracket(s) ==
  CASE Empty(s) -> Ok(<<>>, SubSeq(s, 3, Len(s)))
    [] ~Empty(s) /\ tok(s) = "LPAREN" -> closed(amlist(Tail(s), <<>>))
    [] OTHER -> Fail

(* The parameters before a container: a function of their keys.              *)
RECURSIVE litparamlist(_, _)
litparam(key, val, named) ==
  IF ~val.ok THEN Fail
  ELSE IF tok(val.rest) # "SC" \/ key \in DOMAIN named THEN Fail
  ELSE litparamlist(Tail(val.rest), (key :> val.val) @@ named)
litparamlist(s, named) ==
  IF tok(s) # "VALSEG" THEN Ok(named, s)
  ELSE IF tok(Tail(s)) # "EQ" \/ s[1].kind # "key" THEN Fail
  ELSE litparam(s[1].key, ari(SubSeq(s, 3, Len(s))), named)

RECURSIVE tblrowlist(_, _, _)
tblrow(row, ncols, items) ==
  IF ~row.ok THEN Fail
  ELSE IF Len(row.val) # ncols THEN Fail
  ELSE tblrowlist(row.rest, ncols, items \o row.val)
tblrowlist(s, ncols, items) ==
  IF tok(s) = "LPAREN" THEN tblrow(acbracket(s), ncols, items) ELSE Ok(TBL(ncols, items), s)

literal_tbl(named) ==
  IF ~named.ok THEN Fail
  ELSE IF "c" \notin DOMAIN named.val THEN Fail
  ELSE IF named.val.c.prim \notin {"INT64", "UINT64"} \/ named.val.c.num < 0 THEN Fail
  ELSE tblrowlist(named.rest, named.val.c.num, <<>>)

HasNonce(named) == "n" \in DOMAIN named /\ NonceOk(named.n)

execset_with(n, targets) == IF targets.ok THEN Ok(EXECSET(n, targets.val), targets.rest) ELSE Fail
literal_execset(named) ==
  IF ~named.ok THEN Fail
  ELSE IF ~HasNonce(named.val) THEN Fail
  ELSE execset_with(named.val.n, acbracket(named.rest))

(* A time among the parameters, as a literal of a type.                     *)
time_param(named, key, t) ==
  IF key \in DOMAIN named /\ named[key].prim # "REF" THEN builtin_convert(t, named[key]) ELSE Bad

report_with(t, source, items) == IF t # Bad /\ items.ok THEN Ok(Report(t, source, items.val), items.rest) ELSE Fail
report_after(named) ==
  IF ~named.ok THEN Fail
  ELSE IF "s" \notin DOMAIN named.val THEN Fail
  ELSE IF named.val.s.prim # "REF" \/ named.val.s.typ = "NAMESPACE" THEN Fail
  ELSE report_with(time_param(named.val, "t", "TD"), named.val.s, acbracket(named.rest))

report(s) == report_after(litparamlist(s, <<>>))

RECURSIVE reportslist(_, _)
reportslist_on(reports, rest) ==
  IF tok(rest) = "COMMA" THEN reportslist(Tail(rest), reports) ELSE Ok(reports, rest)
reportslist_item(r, reports) == IF r.ok THEN reportslist_on(Append(reports, r.val), r.rest) ELSE Fail
reportslist(s, reports) == reportslist_item(report(s), reports)

reportsbracket(s) ==
  CASE Empty(s) -> Ok(<<>>, SubSeq(s, 3, Len(s)))
    [] ~Empty(s) /\ tok(s) = "LPAREN" -> closed(reportslist(Tail(s), <<>>))
    [] OTHER -> Fail

rptset_with(n, r, reports) == IF r # Bad /\ reports.ok THEN Ok(RPTSET(n, r, reports.val), reports.rest) ELSE Fail
literal_rptset(named) ==
  IF ~named.ok THEN Fail
  ELSE IF ~HasNonce(named.val) THEN Fail
  ELSE rptset_with(named.val.n, time_param(named.val, "r", "TP"), reportsbracket(named.rest))

-----------------------------------------------------------------------------
(* Object patterns.                                                         *)

cace_ari_objpat_part_tryint(val) ==
  CASE val.kind = "int" /\ val.num <= INT64_MAX -> {Between(val.num, val.num)}
    [] val.kind = "interval" -> {val.intvl}
    [] OTHER -> {}

objpat_part(s) ==
  IF tok(s) # "VALSEG" THEN Fail
  ELSE CASE s[1].kind = "star" -> Ok(SpecialPart, Tail(s))
         [] s[1].kind = "word" -> Ok(TextPart(s[1].num), Tail(s))
         [] cace_ari_objpat_part_tryint(s[1]) # {} -> Ok(RangePart(cace_ari_objpat_part_tryint(s[1])), Tail(s))
         [] OTHER -> Fail

RECURSIVE more_intervals(_)
more_intervals(part) ==
  IF ~part.ok THEN Fail
  ELSE IF tok(part.rest) # "COMMA" THEN part
  ELSE LET s == Tail(part.rest)
       IN IF part.val.kind # "range" \/ tok(s) # "VALSEG" THEN Fail
          ELSE IF cace_ari_objpat_part_tryint(s[1]) = {} THEN Fail
          ELSE more_intervals(Ok(RangePart(part.val.range \cup cace_ari_objpat_part_tryint(s[1])), Tail(s)))

objpat_partbracket(s) == IF tok(s) = "LPAREN" THEN closed(more_intervals(objpat_part(Tail(s)))) ELSE Fail

RECURSIVE literal_objpat(_, _)
objpat_next(part, parts) == IF part.ok THEN literal_objpat(part.rest, Append(parts, part.val)) ELSE Fail
literal_objpat(s, parts) ==
  IF Len(parts) = 4 THEN Ok(OBJPAT(parts), s)
  ELSE objpat_next(objpat_partbracket(s), parts)

-----------------------------------------------------------------------------
(* Literals, by the type that is named before them.                         *)

ac_literal(r) == IF r.ok THEN Ok(AC(r.val), r.rest) ELSE Fail
am_literal(r) == IF r.ok THEN Ok(AM(r.val), r.rest) ELSE Fail

typed_literal(t, s) ==
  CASE t = "AC" -> ac_literal(acbracket(s))
    [] t = "AM" -> am_literal(ambracket(s))
    [] t = "TBL" -> literal_tbl(litparamlist(s, <<>>))
    [] t = "EXECSET" -> literal_execset(litparamlist(s, <<>>))
    [] t = "RPTSET" -> literal_rptset(litparamlist(s, <<>>))
    [] t = "OBJPAT" -> literal_objpat(s, <<>>)
    [] OTHER -> cace_ari_lit_from_text(t, s)

types_of_seg(seg) == IF seg.form = "int" THEN TypesOf(seg.int) ELSE {t \in TypeNames : TypeText(t) = seg.text}

ssp_literal(s) ==
  IF tok(s) # "LITTYPE" THEN cace_ari_lit_from_text("none", s)
  ELSE IF types_of_seg(s[1].seg) = {} THEN Fail
  ELSE typed_literal(CHOOSE t \in types_of_seg(s[1].seg) : TRUE, Tail(s))

-----------------------------------------------------------------------------
(* References.                                                              *)

params_read(as_ac, s) == IF as_ac.ok THEN ac_literal(as_ac) ELSE am_literal(ambracket(s))
ref_params(s) ==
  CASE Empty(s) -> Ok(NoParams, SubSeq(s, 3, Len(s)))
    [] ~Empty(s) /\ tok(s) = "LPAREN" ->
         params_read(acbracket(s), s)
    [] OTHER -> Ok(NoParams, s)

(* How many segments are in front.                                          *)
RECURSIVE segs(_)
segs(s) == IF tok(s) = "IDSEG" THEN 1 + segs(Tail(s)) ELSE 0

rev_of(seg_tok) == IF "rev" \in DOMAIN seg_tok THEN <<Item("date", seg_tok.rev)>> ELSE <<>>
NoSegTok == [tok |-> "IDSEG", seg |-> NoId]

(* After n segments of a namespace, which may be those of an organisation and  *)
(* a model, come the type and the object if there are two more.               *)
objpath(types, org, model, obj, ps) ==
  IF types = {} \/ ~ps.ok THEN Fail
  ELSE Ok(WithRev(Ref(CHOOSE t \in types : TRUE, org.seg, model.seg, obj.seg, ps.val), rev_of(model)), ps.rest)

nspath(org, model, rest) ==
  Ok(WithRev(Ref("NAMESPACE", org.seg, model.seg, NoId, NoParams), rev_of(model)),
     IF tok(rest) = "SLASH" THEN Tail(rest) ELSE rest)

path_of(org, model, s, n) ==
  CASE segs(s) = n + 2 ->
         objpath(cace_ari_objpath_derive_type(s[n + 1].seg), org, model, s[n + 2], ref_params(SubSeq(s, n + 3, Len(s))))
    [] segs(s) = n -> nspath(org, model, SubSeq(s, n + 1, Len(s)))
    [] OTHER -> Fail

ssp_ref(n, s) ==
  IF segs(s) < n THEN Fail
  ELSE path_of(IF n = 2 THEN s[1] ELSE NoSegTok, IF n = 0 THEN NoSegTok ELSE s[n], s, n)

RefForm == [REF_REL_DOT |-> 0, REF_REL_DOTDOT |-> 1, REF_ABS |-> 2]

ssp(s) == IF tok(s) \in DOMAIN RefForm THEN ssp_ref(RefForm[tok(s)], Tail(s)) ELSE ssp_literal(s)

ari(s) == ssp(IF tok(s) = "ARI_PREFIX" THEN Tail(s) ELSE s)

whole(r) == IF r.ok /\ r.rest = <<>> THEN r.val ELSE Bad
cace_ari_text_decode(s) == whole(ari(s))
=============================================================================
