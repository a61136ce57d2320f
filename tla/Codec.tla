------------------------------- MODULE Codec -------------------------------
(* What is promised of the order of values, of their CBOR and text forms and  *)
(* of the codings they are spelled with: each call writes and reads back.     *)
EXTENDS Text

CONSTANTS Portables,      \* values that are written and read
          Received,       \* CBOR items that are read
          Options,        \* options of the text form
          Comparables,    \* values that are compared
          Texts, Bytes,   \* what the codings are applied to
          Ranges          \* ranges of integers, of intervals that are apart

Bases == {2, 10, 16}

Cbor(v) == call' = [op |-> "cbor", lt |-> v, rt |-> Undefined,
                    res |-> cace_ari_cbor_decode_stream(cace_ari_cbor_encode_stream(v))]

Receive(i) == call' = [op |-> "receive", lt |-> i, rt |-> Undefined, res |-> cace_ari_cbor_decode_stream(i)]

TextForm(v, opts) == call' = [op |-> "text", lt |-> v, rt |-> opts,
                              res |-> cace_ari_text_decode(cace_ari_text_encode_stream(v, opts, 0))]

CompareValues(l, r) == call' = [op |-> "compare", lt |-> l, rt |-> r, res |-> cace_ari_cmp(l, r)]

InRange(range, v) == call' = [op |-> "contains", lt |-> range, rt |-> v, res |-> range_contains(range, v)]

(* A coding is written and read back; the segment of the text form that it is *)
(* in has what was written.                                                 *)
Coded(name, input, written, read) ==
  call' = [op |-> name, lt |-> input, rt |-> Undefined, res |-> [written |-> written, read |-> read]]

Quote == 34
Apostrophe == 39
uri_safe == {Apostrophe}
cace_ari_text_percent_helper(text) == cace_uri_percent_encode(text, uri_safe)

(* The value between the quotes of a segment.                                *)
unquoted(segment) == LET text == cace_uri_percent_decode(segment).out
                     IN cace_slash_unescape(SubSeq(text, 2, Len(text) - 1))

CodeQuoted(t) ==
  \E segment \in {cace_ari_text_percent_helper(<<Quote>> \o cace_slash_escape(t, Quote) \o <<Quote>>)} :
    Coded("quoted", t, segment, unquoted(segment))

CodeRaw(t) ==
  \E segment \in {<<Apostrophe>> \o cace_ari_text_percent_helper(cace_slash_escape(t, Apostrophe)) \o <<Apostrophe>>} :
    Coded("raw", t, segment, unquoted(segment))

CodeBase16(b) ==
  \E segment \in {cace_base16_encode(b)} : Coded("base16", b, segment, cace_base16_decode(cace_strip_space(segment)))

CodeBase64(b, useurl, usepad) ==
  \E segment \in {cace_base64_encode(b, useurl, usepad)} :
    Coded(IF useurl /\ ~usepad THEN "base64url" ELSE "base64", b, segment,
          cace_base64_decode(cace_strip_space(segment)))

CodeInt(n, base, errno) ==
  \E segment \in {cace_ari_int64_encode(n, base)} : Coded("int", n, segment, cace_ari_int64_decode(segment, errno))

CodeUint(n, base, errno) ==
  \E segment \in {cace_ari_uint64_encode(n, base)} :
    Coded(IF n = UINT64_MAX /\ errno = "ERANGE" THEN "stale" ELSE "uint", n, segment,
          cace_ari_uint64_decode(segment, errno))

CodecNext ==
  \/ \E v \in Portables : Cbor(v)
  \/ \E i \in Received : Receive(i)
  \/ \E v \in Portables, opts \in Options : TextForm(v, opts)
  \/ \E l, r \in Comparables : CompareValues(l, r)
  \/ \E range \in Ranges, v \in INT64_MIN..INT64_MAX : InRange(range, v)
  \/ \E t \in Texts : CodeQuoted(t) \/ CodeRaw(t)
  \/ \E b \in Bytes : CodeBase16(b) \/ \E useurl, usepad \in BOOLEAN : CodeBase64(b, useurl, usepad)
  \/ \E base \in Bases, errno \in {"none", "ERANGE"} :
       \/ \E n \in INT64_MIN..INT64_MAX : CodeInt(n, base, errno)
       \/ \E n \in 0..UINT64_MAX : CodeUint(n, base, errno)

-----------------------------------------------------------------------------
(* Properties.                                                              *)

(* A value and all the values in it.                                        *)
RECURSIVE Within(_)
WithinAll(vs) == UNION {Within(vs[i]) : i \in DOMAIN vs}
Within(v) ==
  {v} \cup
  CASE v.prim = "REF" -> IF v.params = NoParams THEN {} ELSE Within(v.params)
    [] v.prim # "REF" /\ v.typ \in {"AC", "TBL"} -> WithinAll(v.items)
    [] v.prim # "REF" /\ v.typ = "AM" -> WithinAll(FlattenSeq(v.pairs))
    [] v.prim # "REF" /\ v.typ = "EXECSET" -> WithinAll(<<v.nonce>> \o v.targets)
    [] v.prim # "REF" /\ v.typ = "RPTSET" ->
         WithinAll(<<v.nonce, v.reftime>>)
         \cup UNION {WithinAll(<<v.reports[i].reltime, v.reports[i].source>> \o v.reports[i].items) :
                       i \in DOMAIN v.reports}
    [] OTHER -> {}

(* A value with each literal, and the parameters of each reference, in the    *)
(* form that reading gives them.                                            *)
RECURSIVE AsRead(_, _)
EachIn(form, vs) == [i \in DOMAIN vs |-> AsRead(form, vs[i])]

Signed(l) == IF l.prim = "UINT64" /\ l.num <= INT64_MAX THEN [l EXCEPT !.prim = "INT64"] ELSE l

ShownAs(l) ==
  CASE l.prim = "FLOAT64" /\ Finite(l.num) -> [l EXCEPT !.num = Nearest(Shown, @, 1)]
    [] l.prim \in {"INT64", "UINT64"} /\ l.typ \in RealTypes -> Lit(l.typ, "FLOAT64", ToDouble[l.num])
    [] OTHER -> Signed(l)

NoneIfEmpty(form, ps) ==
  IF form = "text" /\ (IF IsAC(ps) THEN ps.items = <<>> ELSE ps.pairs = <<>>) THEN NoParams ELSE ps

AsRead(form, v) ==
  CASE v.prim = "REF" ->
         IF v.params = NoParams THEN v ELSE [v EXCEPT !.params = NoneIfEmpty(form, AsRead(form, @))]
    [] v.prim # "REF" /\ v.typ \in {"AC", "TBL"} -> [v EXCEPT !.items = EachIn(form, @)]
    [] v.prim # "REF" /\ v.typ = "AM" -> AM(set_pairs(EachIn(form, flat(v.pairs)), <<>>))
    [] v.prim # "REF" /\ v.typ = "EXECSET" -> EXECSET(AsRead(form, v.nonce), EachIn(form, v.targets))
    [] v.prim # "REF" /\ v.typ = "RPTSET" ->
         RPTSET(AsRead(form, v.nonce), v.reftime,
                [i \in DOMAIN v.reports |-> [v.reports[i] EXCEPT !.source = AsRead(form, @),
                                                                 !.items = EachIn(form, @)]])
    [] v.prim = "OTHER" -> v
    [] OTHER -> IF form = "text" THEN ShownAs(v) ELSE Signed(v)

(* The times between -1 s and 0, the sign of which a decimal fraction loses,   *)
(* and the patterns with a part that is not written.                         *)
JustBelowZero(v) == v.prim = "TIMESPEC" /\ v.num = -1 /\ v.nano > 0
HasPart(v, kinds) == v.prim = "OTHER" /\ v.typ = "OBJPAT" /\ \E i \in 1..4 : v.parts[i].kind \in kinds

(* The seconds of a time that was read, the width of which decode_timespec     *)
(* does not check.                                                         *)
InWidth(v) == v.prim = "TIMESPEC" => v.num \in INT64_MIN..INT64_MAX

CborKeeps(v) == \A w \in Within(v) : InWidth(w) /\ ~JustBelowZero(w) /\ ~HasPart(w, {"empty"})

(* What cbor.c writes of a value it reads back as that value, an unsigned      *)
(* integer that fits as a signed one: references with and without a revision,  *)
(* and parameters, containers in containers, gaps in the ranges of a pattern,   *)
(* fractions of negative times.  What it accepts of items that another sender   *)
(* wrote survives being written again.                                        *)
CborRoundTrip ==
  /\ call.op = "cbor" /\ CborKeeps(call.lt) => call.res = AsRead("cbor", call.lt)
  /\ call.op = "receive" /\ call.res # Bad /\ CborKeeps(call.res) =>
       cace_ari_cbor_decode_stream(cace_ari_cbor_encode_stream(call.res)) = AsRead("cbor", call.res)

(* An untyped text that is written without quotes and is a keyword, an         *)
(* interval without ends, and the name of a type in quotes: these are not read  *)
(* as what they were.                                                       *)
ReadAsKeyword(v, opts) == v.prim = "TSTR" /\ v.typ = "none" /\ opts.text_identity /\ word_of(v.num).prim # "TSTR"
QuotedName(v, opts) == v.prim = "TSTR" /\ v.typ = "ARITYPE" /\ ~(opts.text_identity /\ identity(v.num))
HasInfinite(v) == HasPart(v, {"range"}) /\ \E i \in 1..4 : v.parts[i].kind = "range" /\ Infinite \in v.parts[i].range

TextKeeps(v, opts) ==
  \A w \in Within(v) : /\ JustBelowZero(w) => opts.time_text
                       /\ ~HasPart(w, {"empty"}) /\ ~HasInfinite(w)
                       /\ ~ReadAsKeyword(w, opts) /\ ~QuotedName(w, opts)

(* The characters that text_str.lex takes into one segment.                  *)
VALSEG == id_text_rest \cup {126, 33, 34, 39, 42, 43, 58, 64, Percent}

(* The text form of a value, in each of the options, parses to the value:      *)
(* the tokens of one part are not taken for those of the next, whatever is in  *)
(* it, and the parameters that a container has before it are found again.     *)
(* Reading makes a double of the six digits that were shown, and no            *)
(* parameters of an empty list of them.                                      *)
(* Texts, bytes and integers are read back from the segment that they are      *)
(* written to, the least integer and characters past the first plane included, *)
(* and no character ends the segment before they do.  The decoder takes a       *)
(* backslash that was in the text for an escape, and refuses the greatest       *)
(* unsigned integer after errno was set by another.                           *)
TextRoundTrip ==
  /\ call.op = "text" /\ TextKeeps(call.lt, call.rt) => call.res = AsRead("text", call.lt)
  /\ /\ call.op \in {"quoted", "raw", "base16", "base64url", "base64", "int", "uint"}
     /\ (call.op \in {"quoted", "raw"} => Backslash \notin Range(call.lt))
     => /\ call.res.read = Outcome(0, call.lt)
        /\ call.op # "base64" => Range(call.res.written) \subseteq VALSEG

(* cace_ari_cmp is an order that the maps, which are trees of keys, can rely    *)
(* on: turned around for its arguments turned around, zero for just those that  *)
(* cace_ari_equal finds equal, and transitive.                                *)
CmpOrder ==
  call.op = "compare" =>
    /\ call.res = -cace_ari_cmp(call.rt, call.lt)
    /\ call.res = 0 <=> cace_ari_equal(call.lt, call.rt)
    /\ call.res < 0 => \A m \in Comparables : cace_ari_cmp(call.rt, m) <= 0 => cace_ari_cmp(call.lt, m) < 0

(* A range contains a value exactly if one of its intervals does, though only   *)
(* one of them is looked at, and whichever of them have no end.               *)
RangeContains ==
  call.op = "contains" => (call.res <=> \E i \in call.lt : intvl_contains(i, call.rt))
=============================================================================
