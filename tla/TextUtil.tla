------------------------------ MODULE TextUtil ------------------------------
(***************************************************************************)
(* The codings that the text form of a value is spelled with: text_util.c.   *)
(* A text is the sequence of its characters, an escaped one of its Unicode    *)
(* scalar values, bytes are the sequence of their values.  A decoder gives    *)
(* a code, zero for success, and what it has put into its output.            *)
(***************************************************************************)
EXTENDS Typing

Digit == 48..57
UpperCase == 65..90
LowerCase == 97..122
Backslash == 92
Percent == 37
Pad == 61

Outcome(code, out) == [code |-> code, out |-> out]

Space == {32, 8, 12, 10, 13, 9}
cace_strip_space(text) == SelectSeq(text, LAMBDA c : c \notin Space)

id_text_rest == UpperCase \cup LowerCase \cup Digit \cup {95, 46, 45}

-----------------------------------------------------------------------------
(* Hexadecimal digits.                                                      *)

HexDigit(n) == IF n < 10 THEN 48 + n ELSE 55 + n
HexValue(c) == CASE c \in Digit -> c - 48 [] c \in 65..70 -> c - 55 [] c \in 97..102 -> c - 87 [] OTHER -> -1
IsHex(text) == text # <<>> /\ \A i \in DOMAIN text : HexValue(text[i]) >= 0

Hex2(n) == <<HexDigit(n \div 16), HexDigit(n % 16)>>
Hex4(n) == Hex2(n \div 256) \o Hex2(n % 256)
HexNumber(text) == FoldLeft(LAMBDA n, c : 16 * n + HexValue(c), 0, text)

(* strtoul in base 16, of a short text that it takes whole: spaces, a sign    *)
(* and a prefix come before the digits.  -1 where some of it is left.        *)
RECURSIVE strtoul(_)
strtoul(text) ==
  LET unsigned(t) == CASE IsHex(t) -> HexNumber(t)
                       [] Len(t) > 2 /\ t[1] = 48 /\ t[2] \in {88, 120} /\ IsHex(SubSeq(t, 3, Len(t))) ->
                            HexNumber(SubSeq(t, 3, Len(t)))
                       [] OTHER -> -1
  IN CASE text = <<>> -> -1
       [] text # <<>> /\ text[1] \in {32} \cup 9..13 -> strtoul(Tail(text))
       [] text # <<>> /\ text[1] = 43 -> unsigned(Tail(text))
       [] text # <<>> /\ text[1] = 45 /\ unsigned(Tail(text)) >= 0 -> 65536 - unsigned(Tail(text))
       [] OTHER -> unsigned(text)

(* The number in the first n characters, modulo the type it is stored to.    *)
take_hex(text, n) ==
  IF Len(text) < n THEN -1
  ELSE LET val == strtoul(SubSeq(text, 1, n)) IN IF val < 0 THEN -1 ELSE val % 16 ^ n
take_hex_1byte(text) == take_hex(text, 2)
take_hex_2byte(text) == take_hex(text, 4)

-----------------------------------------------------------------------------
(* Percent coding.                                                          *)

unreserved == id_text_rest \cup {126}

cace_uri_percent_encode(text, safe) ==
  FlattenSeq([i \in DOMAIN text |-> IF text[i] \in unreserved \cup safe THEN <<text[i]>> ELSE <<Percent>> \o Hex2(text[i])])

RECURSIVE percent_decode_onto(_, _)
percent_decode_onto(text, out) ==
  CASE text = <<>> -> Outcome(0, out)
    [] text # <<>> /\ text[1] # Percent -> percent_decode_onto(Tail(text), Append(out, text[1]))
    [] OTHER -> IF take_hex_1byte(Tail(text)) < 0 THEN Outcome(2, out)
                ELSE percent_decode_onto(SubSeq(text, 4, Len(text)), Append(out, take_hex_1byte(Tail(text))))
cace_uri_percent_decode(text) == percent_decode_onto(text, <<>>)

-----------------------------------------------------------------------------
(* Backslash escapes, with a short one for a few characters.                *)

Escapes == {<<8, 98>>, <<12, 102>>, <<10, 110>>, <<13, 114>>, <<9, 116>>}
Printable == 32..126

(* The two halves that a scalar value past the first 65536 is written with.   *)
surrogates(u) == <<55296 + (u \div 1024), 56320 + (u % 1024)>>

slash_escape_char(c, quote) ==
  CASE c = quote -> <<Backslash, quote>>
    [] c # quote /\ \E e \in Escapes : e[1] = c -> <<Backslash, (CHOOSE e \in Escapes : e[1] = c)[2]>>
    [] c # quote /\ c \in Printable -> <<c>>
    [] c # quote /\ c < 65536 /\ c \notin Printable /\ ~\E e \in Escapes : e[1] = c -> <<Backslash, 117>> \o Hex4(c)
    [] OTHER -> <<Backslash, 117>> \o Hex4(surrogates(c - 65536)[1]) \o <<Backslash, 117>> \o Hex4(surrogates(c - 65536)[2])

cace_slash_escape(text, quote) == FlattenSeq([i \in DOMAIN text |-> slash_escape_char(text[i], quote)])

(* The character that \u and four digits are, with a second \u and four for   *)
(* one half of a pair, and how much of the text after the \u they are.       *)
unescape_u(text) ==
  LET val == take_hex_2byte(text)
      low == take_hex_2byte(SubSeq(text, 7, Len(text)))
  IN CASE val < 0 -> Outcome(5, <<>>)
       [] val >= 0 /\ val \notin 55296..57343 -> [code |-> 0, out |-> <<val>>, used |-> 4]
       [] OTHER -> IF Len(text) <= 6 \/ SubSeq(text, 5, 6) # <<Backslash, 117>> \/ low < 0 THEN Outcome(5, <<>>)
                   ELSE [code |-> 0, out |-> <<(val - 55296) * 1024 + (low - 56320) + 65536>>, used |-> 10]

RECURSIVE slash_unescape_onto(_, _)
slash_unescape_onto(text, out) ==
  CASE text = <<>> -> Outcome(0, out)
    [] text # <<>> /\ text[1] # Backslash -> slash_unescape_onto(Tail(text), Append(out, text[1]))
    [] text = <<Backslash>> -> Outcome(3, out)
    [] OTHER ->
         LET c == text[2]
             rest == SubSeq(text, 3, Len(text))
             u == unescape_u(rest)
         IN CASE \E e \in Escapes : e[2] = c -> slash_unescape_onto(rest, Append(out, (CHOOSE e \in Escapes : e[2] = c)[1]))
              [] c = 117 -> IF u.code # 0 THEN Outcome(u.code, out)
                            ELSE slash_unescape_onto(SubSeq(rest, u.used + 1, Len(rest)), out \o u.out)
              [] OTHER -> slash_unescape_onto(rest, Append(out, c))
cace_slash_unescape(text) == slash_unescape_onto(text, <<>>)

-----------------------------------------------------------------------------
(* Bytes in base 16 and base 64.                                            *)

cace_base16_encode(bytes) == FlattenSeq([i \in DOMAIN bytes |-> Hex2(bytes[i])])

cace_base16_decode(text) ==
  CASE Len(text) % 2 # 0 -> Outcome(1, <<>>)
    [] Len(text) % 2 = 0 /\ \E i \in DOMAIN text : HexValue(text[i]) < 0 -> Outcome(3, <<>>)
    [] OTHER -> Outcome(0, [i \in 1..(Len(text) \div 2) |-> 16 * HexValue(text[2 * i - 1]) + HexValue(text[2 * i])])

base64_alphabet(useurl) ==
  [i \in 1..26 |-> 64 + i] \o [i \in 1..26 |-> 96 + i] \o [i \in 1..10 |-> 47 + i]
  \o (IF useurl THEN <<45, 95>> ELSE <<43, 47>>)

base64_decode_char(c) ==
  CASE c \in UpperCase -> c - 65 [] c \in LowerCase -> c - 71 [] c \in Digit -> c + 4
    [] c \in {43, 45} -> 62 [] c \in {47, 95} -> 63 [] OTHER -> -1

(* Three bytes are four digits; one and two bytes are two and three of them,  *)
(* and padding if that is asked for.                                        *)
RECURSIVE cace_base64_encode(_, _, _)
cace_base64_encode(bytes, useurl, usepad) ==
  IF bytes = <<>> THEN <<>>
  ELSE LET at(i) == IF i <= Len(bytes) THEN bytes[i] ELSE 0
           abet(n) == base64_alphabet(useurl)[n + 1]
           pad == IF usepad THEN <<Pad>> ELSE <<>>
       IN <<abet(at(1) \div 4), abet((at(1) % 4) * 16 + (at(2) \div 16))>>
          \o (IF Len(bytes) >= 2 THEN <<abet((at(2) % 16) * 4 + (at(3) \div 64))>> ELSE pad)
          \o (IF Len(bytes) >= 3 THEN <<abet(at(3) % 64)>> ELSE pad)
          \o cace_base64_encode(SubSeq(bytes, 4, Len(bytes)), useurl, usepad)

(* Padding that is left over is skipped; anything else is an error.          *)
padding(text, out) == Outcome(IF \A i \in DOMAIN text : text[i] = Pad THEN 0 ELSE 4, out)

RECURSIVE base64_decode_onto(_, _)
base64_decode_onto(text, out) ==
  IF Len(text) < 2 \/ text[1] = Pad THEN padding(text, out)
  ELSE LET seg(i) == base64_decode_char(text[i])
           rest == SubSeq(text, 5, Len(text))
           out1 == Append(out, seg(1) * 4 + (seg(2) \div 16))
           out2 == Append(out1, (seg(2) % 16) * 16 + (seg(3) \div 4))
           out3 == Append(out2, (seg(3) % 4) * 64 + seg(4))
       IN IF seg(1) < 0 \/ seg(2) < 0 THEN Outcome(3, out)
          ELSE IF Len(text) = 2 THEN Outcome(0, out1)
          ELSE IF text[3] = Pad THEN (IF Len(text) = 4 /\ text[4] = Pad THEN Outcome(0, out1) ELSE padding(text, out1))
          ELSE IF seg(3) < 0 THEN Outcome(3, out1)
          ELSE IF Len(text) = 3 THEN Outcome(0, out2)
          ELSE IF text[4] = Pad THEN (IF Len(text) = 4 THEN Outcome(0, out2) ELSE padding(text, out2))
          ELSE IF seg(4) < 0 THEN Outcome(3, out2)
          ELSE base64_decode_onto(rest, out3)
cace_base64_decode(text) == base64_decode_onto(text, <<>>)

-----------------------------------------------------------------------------
(* Integers, in base 2, 10 or 16.                                           *)

RECURSIVE digits_of(_, _)
digits_of(n, base) == (IF n < base THEN <<>> ELSE digits_of(n \div base, base)) \o <<HexDigit(n % base)>>

cace_ari_uint64_encode(value, base) ==
  (CASE base = 2 -> <<48, 98>> [] base = 16 -> <<48, 120>> [] OTHER -> <<>>) \o digits_of(value, base)

(* The absolute value of the least integer is not one itself.               *)
cace_ari_int64_encode(value, base) ==
  IF value < 0 THEN <<45>> \o cace_ari_uint64_encode(uint64(int64(-(value + 1))) + 1, base)
  ELSE cace_ari_uint64_encode(value, base)

Number(text, base) == FoldLeft(LAMBDA n, c : base * n + HexValue(c), 0, text)
Numeral(text, base) == text # <<>> /\ \A i \in DOMAIN text : HexValue(text[i]) \in 0..(base - 1)

(* The most that the whole of a text is as a number, by its prefix.  Past the *)
(* greatest unsigned it is that one, and errno is set; errno is never reset.  *)
numeral(text) ==
  CASE Len(text) > 2 /\ text[1] = 48 /\ text[2] \in {88, 120} -> [digits |-> SubSeq(text, 3, Len(text)), base |-> 16]
    [] Len(text) > 1 /\ text[1] = 48 /\ text[2] \notin {88, 120} -> [digits |-> Tail(text), base |-> 8]
    [] OTHER -> [digits |-> text, base |-> 10]

strtoull(num, errno) ==
  LET n == Number(num.digits, num.base)
  IN IF ~Numeral(num.digits, num.base) THEN Outcome(2, 0)
     ELSE IF n > UINT64_MAX \/ (n = UINT64_MAX /\ errno = "ERANGE") THEN Outcome(3, 0)
     ELSE Outcome(0, n)

cace_ari_uint64_decode(text, errno) ==
  CASE text = <<>> -> Outcome(2, 0)
    [] text # <<>> /\ text[1] \notin Digit -> Outcome(3, 0)
    [] Len(text) >= 2 /\ text[1] = 48 /\ text[2] \in {66, 98} ->
         (IF Numeral(SubSeq(text, 3, Len(text)), 2) THEN Outcome(0, uint64(Number(SubSeq(text, 3, Len(text)), 2)))
          ELSE Outcome(2, 0))
    [] OTHER -> strtoull(numeral(text), errno)

negative(abs) ==
  IF abs.code # 0 THEN abs
  ELSE IF abs.out > uint64(int64(-(INT64_MIN + 1))) + 1 THEN Outcome(3, 0)
  ELSE Outcome(0, IF abs.out = 0 THEN 0 ELSE -1 - int64(abs.out - 1))

positive(num) == IF num.code = 0 /\ num.out > INT64_MAX THEN Outcome(3, 0) ELSE num

cace_ari_int64_decode(text, errno) ==
  CASE text[1] = 45 -> negative(cace_ari_uint64_decode(Tail(text), errno))
    [] text[1] = 43 -> positive(cace_ari_uint64_decode(Tail(text), errno))
    [] OTHER -> positive(cace_ari_uint64_decode(text, errno))
=============================================================================
