------------------------------ MODULE MCValues ------------------------------
(* The instance of Expressions for TLC.  Widths are scaled down: a BYTE has  *)
(* one bit, an INT three, a VAST five, and a second four nanoseconds.        *)
EXTENDS Expressions

MirrorOf(S) == S \cup {-n : n \in S}

MCDoubles == MirrorOf({0, 1, 2, 3, 4, 5, 6, 7, 8, 10, 12, 14, 16, 20, 24, 28, 32, 40, 48, 56, 64, 80, 96})
MCSingles == MirrorOf({0, 1, 2, 3, 4, 6, 8, 12, 16, 24, 32, 48, 64})

Ints == {-16, -5, -4, -1, 0, 1, 3, 4, 7, 9, 15}
Uints == {0, 1, 7, 9, 15, 16, 30, 31}
Halves == {-8, -1, 0, 1, 2, 3, 20, 32, 64, 80}
MCOperands ==
  {Lit("none", "INT64", n) : n \in Ints} \cup {Lit("none", "UINT64", n) : n \in Uints}
  \cup {Lit("BYTE", "INT64", n) : n \in {0, 1}}
  \cup {Lit("INT", "INT64", n) : n \in {-4, -1, 0, 3}}
  \cup {Lit("UINT", "INT64", n) : n \in {0, 4, 7}} \cup {Lit("UINT", "UINT64", n) : n \in {0, 1, 7}}
  \cup {Lit("VAST", "INT64", n) : n \in {-16, -5, -1, 0, 9, 15}}
  \cup {Lit("UVAST", "INT64", n) : n \in {0, 1, 9, 15}}
  \cup {Lit("UVAST", "UINT64", n) : n \in {0, 9, 15, 16, 31}}
  \cup {Lit("none", "FLOAT64", n) : n \in Halves \cup {97, -97, 98}}
  \cup {Lit("REAL64", "FLOAT64", n) : n \in Halves}
  \cup {Lit("REAL32", "FLOAT64", n) : n \in Halves \cap MCSingles}
  \cup {Time(t, s, n) : t \in TimeTypes, s \in {-2, -1, 0, 3}, n \in {0, 1, 3}}
  \cup {Undefined, Bool(TRUE), Lit("none", "TSTR", 1), Lit("LABEL", "INT64", 3)}

-----------------------------------------------------------------------------
(* Texts: even ones are in lower case, and the pattern of identifiers        *)
(* matches those below 100 that have no bang.                               *)
MCTolower(n) == IF n > 0 /\ n < 100 /\ n % 2 = 1 THEN n + 1 ELSE n
MCStrlen(n) == IF n < 0 THEN -n ELSE n
MCPatternTexts(pattern) == 2..99
MCMatch(pattern, n) == pattern # 3 /\ (n = pattern \/ pattern = 2)

Text(n) == Lit("none", "TSTR", n)
U(n) == Lit("none", "UINT64", n)
I(n) == Lit("none", "INT64", n)
Obj(t, id, fparams, value) ==
  [typ |-> t, id |-> id, fparams |-> fparams, value |-> value, permitted |-> TRUE]

InTest(t, n, params) == Ref(t, IntId(1), IntId(2), IntId(n), params)

Row(a, b) == <<a, b>>
Table == TBL(2, Row(U(0), U(1)) \o Row(U(2), Bool(TRUE)) \o Row(I(-1), Undefined))
Sum == AC(<<U(1), U(2), OPER(1, NoParams)>>)

HeldParts == <<Part(InTest("VAR", 2, NoParams), Undefined), Part(Sum, Lit("UINT", "UINT64", 3)),
               Part(InTest("EDD", 0, NoParams), U(2))>>

TestObjects ==
  {Obj("CONST", Id(0, 30), <<>>, U(3)),
   Obj("VAR", Id(0, 30), <<>>, Sum),
   Obj("VAR", Id(1, 32), <<Param(501, integer), [name |-> 504, type |-> Builtin("BOOL"), defval |-> Bool(TRUE)]>>,
       AC(<<Label(0), Lit("LABEL", "TSTR", 504), OPER(1, NoParams)>>)),
   [Obj("VAR", Id(2, 34), <<>>, U(1)) EXCEPT !.permitted = FALSE],
   Obj("VAR", Id(3, 36), <<>>, Table),
   Obj("CTRL", Id(0, 30), <<>>, Undefined), Obj("CTRL", Id(1, 32), <<Param(501, UseAri("BOOL"))>>, Undefined),
   [Obj("CTRL", Id(2, 34), <<>>, Undefined) EXCEPT !.permitted = FALSE],
   Obj("VAR", Id(4, 38), <<>>, AC(<<InTest("CTRL", 0, NoParams), InTest("VAR", 5, AC(<<Bool(TRUE)>>)),
                                    InTest("CTRL", 0, NoParams)>>)),
   Obj("VAR", Id(5, 40), <<Param(501, UseAri("BOOL"))>>,
       AC(<<InTest("CTRL", 1, AC(<<Label(0)>>)), InTest("CTRL", 2, NoParams)>>)),
   Obj("VAR", Id(8, 46), <<>>, AriOf(HeldParts)),
   Obj("CONST", Id(6, 42), <<>>, AC(<<InTest("CTRL", 1, AC(<<Bool(FALSE)>>)), InTest("CTRL", 0, NoParams)>>)),
   [typ |-> "EDD", id |-> Id(0, 30), fparams |-> <<>>, value |-> U(2), permitted |-> TRUE,
    prod_type |-> UseAri("UINT")],
   [typ |-> "EDD", id |-> Id(1, 32), fparams |-> <<>>, value |-> Text(30), permitted |-> TRUE,
    prod_type |-> UseAri("UINT")],
   [typ |-> "TYPEDEF", id |-> Id(0, 30), fparams |-> <<>>, type |-> UList(UseAri("UINT"), AnySize)],
   [typ |-> "IDENT", id |-> NameOnly(38), fparams |-> <<>>]}

MCNamespaces ==
  {[org |-> Id(1, 11), model |-> Id(1, 21), objs |-> AgentOpers],
   [org |-> Id(1, 11), model |-> Id(2, 22), objs |-> TestObjects],
   [org |-> Id(-1, -12), model |-> Id(-2, -24),
    objs |-> {Obj("CONST", Id(-3, -34), <<>>, Bool(TRUE)), Obj("VAR", NameOnly(30), <<>>, U(0))}]}

-----------------------------------------------------------------------------
(* Expressions.                                                            *)

Op(n) == OPER(n, NoParams)
OpWith(n, params) == OPER(n, AC(params))
Giving(ref) == Apply(OpWith(43, <<ref>>), <<>>)

Private == Ref("CONST", IntId(-1), IntId(-2), IntId(-3), NoParams)
PrivateNs == Ref("NAMESPACE", IntId(-1), IntId(-2), NoId, NoParams)
TestNs == Ref("NAMESPACE", IntId(1), IntId(2), NoId, NoParams)
Refs == {InTest("CONST", 0, NoParams), InTest("VAR", 1, AC(<<U(1)>>)), InTest("VAR", 9, NoParams),
         InTest("IDENT", 0, NoParams), Private, PrivateNs, TestNs,
         Ref("CONST", IntId(7), IntId(7), IntId(7), NoParams)}

Scalars == {U(0), U(1), U(3), I(-1), Lit("UVAST", "UINT64", 9), Lit("none", "FLOAT64", 1), Time("TD", 1, 2),
            Bool(TRUE), Bool(FALSE), Text(2), Undefined}
Containers == {AC(<<U(1), Text(2)>>), AM(<< <<U(0), U(1)>>, <<Text(2), Bool(TRUE)>> >>), Table}
Leaves == {Leaf(v) : v \in Scalars}
Objects == {Object(InTest("CONST", 0, NoParams)), Object(InTest("VAR", 1, AC(<<U(1), U(0)>>))),
            Object(InTest("VAR", 1, AC(<<U(2)>>))), Object(InTest("VAR", 1, AC(<<Text(2)>>))),
            Object(InTest("VAR", 2, NoParams)), Object(InTest("EDD", 0, NoParams)),
            Object(InTest("EDD", 1, NoParams)), Object(InTest("CTRL", 0, NoParams)),
            Object(InTest("VAR", 9, NoParams)), Object(InTest("VAR", 1, AC(<<U(1), U(1), U(1)>>)))}

Unary == {Op(n) : n \in {0, 6, 10, 29, 30, 35}}
Binary == {Op(n) : n \in 1..5 \cup 7..9 \cup 11..19 \cup {33, 34}}
TypeName(t) == Lit("ARITYPE", "INT64", cace_ari_type_t[t])
WithParams ==
  {OpWith(45, <<TypeName(t)>>) : t \in {"INT", "BOOL", "TEXTSTR", "AC", "OBJECT"}}
  \cup {OpWith(46, <<TypeName(t)>>) : t \in {"INT", "BOOL", "TP", "REAL32"}}
  \cup {OpWith(46, <<InTest("TYPEDEF", 0, NoParams)>>), OpWith(45, <<Lit("ARITYPE", "TSTR", TypeText("UVAST"))>>),
        OpWith(45, <<Undefined>>), OpWith(45, <<Lit("ARITYPE", "INT64", 3)>>), OpWith(45, <<>>)}
  \cup {OpWith(23, <<Text(n)>>) : n \in {2, 3, 4}}
  \cup {OpWith(32, <<U(r), U(c)>>) : r \in {0, 2, 3}, c \in {1, 2}}
  \cup {OpWith(21, <<U(n)>>) : n \in {0, 2}} \cup {OpWith(22, <<k>>) : k \in {U(0), Text(2), Bool(TRUE), Undefined}}
OnRefs ==
  {Op(36), Op(38), Op(33)}
  \cup {OpWith(n, <<I(lo), U(hi)>>) : n \in {37, 39, 44}, lo \in {-1, 1}, hi \in {0, 3}}
  \cup {OpWith(40, <<ns>>) : ns \in {TestNs, PrivateNs, Ref("NAMESPACE", IntId(7), IntId(7), NoId, NoParams)}}
  \cup {OpWith(41, <<r>>) : r \in {InTest("CONST", 0, NoParams), InTest("VAR", 9, NoParams)}}
  \cup {OpWith(42, <<TypeName(t)>>) : t \in {"CONST", "VAR", "INT"}}

L(i) == Leaf(Label(i))
Bodies == {L(0), Apply(Op(2), <<L(0), L(1)>>), Apply(Op(2), <<L(1), L(0)>>), Apply(Op(18), <<L(0), Leaf(U(2))>>),
           Apply(Op(1), <<Object(InTest("CONST", 0, NoParams)), L(0)>>), Apply(Op(35), <<L(0)>>),
           EvalOf(Apply(Op(1), <<L(0), Leaf(U(1))>>), <<>>),
           EvalOf(Apply(Op(2), <<L(0), Leaf(U(1))>>), <<Leaf(U(3))>>),
           Apply(OpWith(32, <<Label(0), U(1)>>), <<Object(InTest("VAR", 3, NoParams))>>),
           Apply(Op(10), <<Leaf(AC(<<>>))>>), Apply(Op(1), <<L(0)>>)}
PredicateLists == {<<>>, <<Op(35)>>, <<Op(29), Op(35)>>, <<Op(35), Op(30)>>, <<Op(10), Op(29)>>,
                   <<OpWith(45, <<TypeName("UVAST")>>), Op(1), Op(35)>>, <<Op(1)>>}

MCTrees ==
  Leaves \cup Objects
  \cup {Apply(op, <<k>>) : op \in Unary, k \in Leaves \cup Objects}
  \cup {Apply(op, <<k, l>>) : op \in Binary, k, l \in Leaves}
  \cup {Apply(op, <<Leaf(v)>>) : op \in WithParams, v \in Scalars \cup Containers}
  \cup {Apply(op, <<Giving(r)>>) : op \in OnRefs, r \in Refs}
  \cup {Apply(op, <<Giving(InTest("CONST", 0, NoParams)), Giving(r)>>) : op \in {Op(33), Op(34)}, r \in Refs}
  \cup {Apply(op1, <<Apply(op2, <<Leaf(U(3)), k>>), l>>) :
          op1 \in {Op(2), Op(4), Op(18)}, op2 \in {Op(1), Op(2)}, k \in Leaves \cup Objects, l \in {Leaf(U(1)), Leaf(I(-1))}}
  \cup {Apply(op1, <<l, Apply(op2, <<Leaf(U(3)), k>>)>>) :
          op1 \in {Op(2), Op(18)}, op2 \in {Op(2), Op(5)}, k \in Leaves \cup Objects, l \in {Leaf(U(1)), Leaf(I(-1))}}
  \cup {EvalOf(b, <<>>) : b \in Objects \cup {Apply(Op(1), <<Leaf(U(1)), k>>) : k \in Objects \cup Leaves}}
  \cup {Apply(Op(2), <<Leaf(U(3)), EvalOf(b, <<k>>)>>) : b \in Bodies, k \in Leaves}
  \cup {EvalOf(b, <<k, l>>) : b \in Bodies, k, l \in Leaves}
  \cup {Short(b, kids) : b \in Bodies, kids \in {<<>>, <<Leaf(U(1)), Leaf(U(3))>>}}
  \cup {EvalOf(b, <<Giving(r)>>) : b \in {L(0), Apply(Op(36), <<L(0)>>)}, r \in Refs}
  \cup {Apply(Op(29), <<Predicate(mode, ops, k)>>) :
          mode \in {"all", "any", "none"}, ops \in PredicateLists, k \in Leaves}
  \cup {Predicate(mode, ops, k) : mode \in {"all", "any", "none"}, ops \in PredicateLists, k \in Leaves}
  \cup {Filter(b, columns, k) : b \in Bodies, columns \in {<<0>>, <<1, 0>>, <<2>>},
                                k \in {Leaf(Table), Leaf(Undefined), Leaf(U(1)), Object(InTest("VAR", 3, NoParams))}}

-----------------------------------------------------------------------------
(* Execution targets.                                                      *)

ExecItems == {InTest("CTRL", 0, NoParams), InTest("CTRL", 1, AC(<<Bool(TRUE)>>)), InTest("CTRL", 1, AC(<<Text(2)>>)),
              InTest("CTRL", 2, NoParams), InTest("CTRL", 9, NoParams), InTest("VAR", 2, NoParams),
              InTest("VAR", 0, NoParams), InTest("VAR", 4, NoParams), InTest("CONST", 6, NoParams),
              InTest("EDD", 0, NoParams), Undefined, U(1), OPER(1, NoParams)}
MCExecs == ExecItems \cup {AC(<<>>), AC(<<AC(<<>>)>>)} \cup {AC(<<a>>) : a \in ExecItems}
           \cup {AC(<<a, b>>) : a, b \in ExecItems} \cup {AC(<<a, b, c>>) : a, b, c \in ExecItems}

-----------------------------------------------------------------------------
(* Templates: as they are, and held by a VAR.                               *)

Parts == {Part(InTest("CONST", 0, NoParams), U(3)), Part(InTest("VAR", 2, NoParams), Undefined),
          Part(InTest("VAR", 1, AC(<<U(1)>>)), AC(<<U(1), Bool(TRUE), OPER(1, NoParams)>>)),
          Part(InTest("EDD", 1, NoParams), Undefined), Part(InTest("VAR", 9, NoParams), Undefined),
          Part(Undefined, Undefined), Part(AC(<<U(1)>>), U(1)), Part(AC(<<U(1), U(2)>>), Undefined),
          Part(AC(<<U(1), InTest("CONST", 0, NoParams), OPER(1, NoParams)>>), Lit("UINT", "UINT64", 4)),
          Part(AC(<<U(1), OPER(1, NoParams)>>), Undefined), Part(AC(<<OPER(28, AC(<<Sum>>))>>), Lit("UINT", "UINT64", 3))}
PartLists == {<<>>} \cup {<<a>> : a \in Parts} \cup {<<a, b>> : a, b \in Parts}
             \cup {<<a, Part(AC(<<U(2)>>), U(2)), b>> : a, b \in Parts}
MCTemplates ==
  {TemplateAt(AriOf(ps), ps) : ps \in PartLists} \cup {TemplateAt(InTest("VAR", 8, NoParams), HeldParts)}
  \cup {NoTemplate(t) :
          t \in {InTest("VAR", 2, NoParams), InTest("CONST", 0, NoParams), InTest("CTRL", 0, NoParams),
                 InTest("VAR", 9, NoParams), U(1), AC(<<U(1)>>), AC(<<InTest("CTRL", 0, NoParams)>>)}}
MCDestinations == {Undefined, AC(<<>>), AC(<<Text(2)>>), AC(<<Text(2), Undefined, Text(4)>>)}
MCManagers == {Undefined, Text(6)}

-----------------------------------------------------------------------------
(* Types and the values converted to them.                                 *)

Size(lo, hi) == [min |-> lo, max |-> hi]
ShortText == Use(Builtin("TEXTSTR"), ARITYPE("TEXTSTR"), {Strlen({Between(1, 4)})})
SmallInt == Use(Builtin("INT"), ARITYPE("INT"), {RangeInt64({Between(-1, 1)})})
MCTypes ==
  {Builtin(t) : t \in IntTypes \cup RealTypes \cup TimeTypes \cup
                      {"NULL", "BOOL", "TEXTSTR", "LABEL", "ARITYPE", "AC", "LITERAL", "OBJECT", "CONST"}}
  \cup {type_ref, integer, float, numeric, numeric_or_time, primitive, simple, nested, any, value_obj, nonce,
        id_text, id_int, counter32, counter64, gauge32, gauge64, timestamp, expr, eval_tgt, exec_tgt, mac,
        rptt, rpt_tgt, time, tbl_row_filter, Invalid, ShortText, SmallInt, UseTypedef(integer, 1)}
  \cup {UList(t, s) : t \in {UseAri("INT"), numeric_or_time, ShortText}, s \in {AnySize, Size(1, 2)}}
  \cup {UMap(UseAri("TEXTSTR"), UseAri("BOOL")), UMap(UseTypedef(primitive, 4), SmallInt)}
  \cup {TblT(<<[name |-> 2, type |-> UseAri("UINT")], [name |-> 4, type |-> t]>>) : t \in {UseAri("BOOL"), SmallInt}}
  \cup {DList(<<UseAri("INT"), t>>) : t \in {UseAri("BOOL"), Sequence(UseAri("UINT"), AnySize)}}
  \cup {Union(<<UList(UseAri("UINT"), AnySize), SmallInt, UseAri("TEXTSTR")>>)}

Items == {U(0), I(-1), I(3), Text(2), Bool(TRUE), Undefined, Lit("none", "FLOAT64", 2)}
MCValueSet ==
  MCOperands \cup {AC(<<>>), AC(<<InTest("CONST", 0, NoParams)>>), AC(<<AC(<<U(1), OPER(0, NoParams)>>)>>)}
  \cup {AC(<<a>>) : a \in Items} \cup {AC(<<a, b>>) : a, b \in Items}
  \cup {AC(<<a, U(1), b>>) : a, b \in Items}
  \cup {AM(<< <<k, v>> >>) : k, v \in Items}
  \cup {AM(<< <<U(0), v>>, <<Text(2), w>> >>) : v, w \in Items}
  \cup {TBL(2, <<a, b, U(1), a>>) : a, b \in Items} \cup {TBL(1, <<U(0)>>)}
  \cup Refs \cup {Text(n) : n \in {0, 2, 5, 200, -4}} \cup {Lit("NULL", "NULL", 0), Lit("none", "BSTR", 2)}

-----------------------------------------------------------------------------
(* Values that are written and read.  A second has one hundred units here,    *)
(* and the words 79 to 90 are keywords.                                      *)

MCKeyword == [null |-> 80, undefined |-> 82, yes |-> 84, no |-> 86, Infinity |-> 88, NaN |-> 90]
MCShown == MCDoubles \ {5, 7, -5, -7}
MCIdentity(n) == n > 1 /\ n < 100
MCOptions ==
  {[scheme_prefix |-> p, show_ari_type |-> t, text_identity |-> id, time_text |-> tt] :
     p \in {"none", "first", "all"}, t \in {"text", "int"}, id \in BOOLEAN, tt \in BOOLEAN}

Times == {Time(t, s, n) : t \in TimeTypes, s \in {-3, -2, -1, 0, 1, 13}, n \in {0, 5, 50}}
Literals ==
  {Undefined, Lit("none", "NULL", 0), Lit("NULL", "NULL", 0), Bool(TRUE), Lit("none", "BOOL", 0), U(0), U(15), U(16), I(-16),
   Lit("UVAST", "UINT64", 31), Lit("INT", "INT64", -3), Lit("REAL64", "INT64", 9), Lit("REAL32", "FLOAT64", 5),
   Lit("none", "FLOAT64", 3), Lit("none", "FLOAT64", 97), Lit("none", "FLOAT64", -97), Lit("REAL64", "FLOAT64", 98),
   Text(1), Text(2), Text(79), Text(88), Lit("TEXTSTR", "TSTR", 84), Lit("BYTESTR", "BSTR", 3), Lit("CBOR", "BSTR", 1),
   Lit("LABEL", "INT64", 2), Lit("LABEL", "TSTR", 82), Lit("LABEL", "TSTR", 1), Lit("ARITYPE", "TSTR", 8)}

Apart == {{Between(2, 2)}, {Between(0, 4)}, {FromOn(3)}, {UpTo(-2)}, {Between(-4, -2), Between(0, 0)},
          {UpTo(-3), Between(0, 2), FromOn(4)}, {Between(-2, 1), Between(3, 3), Between(5, 9)}, {Infinite}, {}}
Pattern(p) == OBJPAT(<<SpecialPart, p, TextPart(4), RangePart({Between(1, 1)})>>)
Patterns == {Pattern(RangePart(r)) : r \in Apart \ {{}}} \cup {Pattern(TextPart(6)), Pattern(EmptyPart)}

Dated(ref) == WithRev(ref, <<Item("date", 20)>>)
PathValues == {TestNs, Ref("NAMESPACE", NoId, TextId(4), NoId, NoParams), Ref("NAMESPACE", NoId, NoId, NoId, NoParams),
           Ref("CTRL", NoId, NoId, TextId(6), NoParams), Ref("VAR", NoId, IntId(2), IntId(-1), NoParams),
           Dated(InTest("EDD", 3, NoParams)), Dated(TestNs)}
ParamsOf == {AC(<<>>), AM(<<>>), AC(<<U(1), InTest("CONST", 0, AC(<<Bool(TRUE)>>))>>),
             AM(<< <<U(1), Text(2)>>, <<I(-1), AC(<<U(0)>>)>> >>), AM(<< <<U(1), Text(2)>>, <<I(1), Text(4)>> >>)}
RefValues == PathValues \cup {Dated(InTest("VAR", 1, ps)) : ps \in ParamsOf} \cup {Ref("CTRL", NoId, TextId(4), IntId(1), ps) : ps \in ParamsOf}

Inner == {U(1), Text(2), Time("TD", -2, 50), InTest("VAR", 1, AC(<<U(2)>>)), TestNs, AC(<<>>), TBL(2, <<U(1), Text(4)>>),
          AM(<< <<Text(2), U(16)>>, <<U(3), AC(<<I(-1)>>)>> >>)}
Rpt(t, items) == Report(Time("TD", 0, t), InTest("CTRL", 0, AC(<<U(1)>>)), items)
ContainerValues ==
  {AC(<<a, b>>) : a, b \in Inner} \cup {AM(<< <<Text(4), a>>, <<U(1), b>> >>) : a, b \in Inner}
  \cup {TBL(2, <<a, U(1), U(2), b>>) : a, b \in Inner} \cup {TBL(0, <<>>), TBL(1, <<>>)}
  \cup {EXECSET(n, <<a>>) : n \in {Lit("none", "NULL", 0), U(4), I(3), Lit("none", "BSTR", 2)}, a \in Inner}
  \cup {EXECSET(U(1), <<>>), RPTSET(U(1), Time("TP", 3, 0), <<>>)}
  \cup {RPTSET(U(1), Time("TP", -2, 5), <<Rpt(0, <<a>>), Rpt(50, <<b, U(1)>>)>>) : a, b \in Inner}

MCPortables == Times \cup Literals \cup Patterns \cup RefValues \cup ContainerValues

-----------------------------------------------------------------------------
(* CBOR items that are received.                                            *)

IntItem(n) == Item("int", n)
SmallItems == {Simple("null"), Simple("true"), Simple("undef"), IntItem(-8), IntItem(0), IntItem(2), IntItem(16),
               Item("text", 4), Item("bytes", 2), Item("date", 20), Array(<<>>), Map(<<>>)}
Typed(t, i) == Array(<<IntItem(cace_ari_type_t[t]), i>>)
ReceivedIn == {Array(<<a>>) : a \in SmallItems} \cup {Array(<<a, b>>) : a, b \in SmallItems}
              \cup {Map(<<a, b>>) : a, b \in SmallItems} \cup {Array(<<IntItem(2), a, b, IntItem(0)>>) : a, b \in SmallItems}
              \cup {Array(<<a, IntItem(0), Array(<<IntItem(1), b>>)>>) : a, b \in SmallItems}
MCReceived ==
  SmallItems \cup ReceivedIn
  \cup {Typed(t, i) : t \in {"AC", "AM", "TBL", "EXECSET", "RPTSET", "TP", "TD", "LABEL", "ARITYPE", "UINT"},
                      i \in SmallItems \cup ReceivedIn}
  \cup {Typed("TD", Array(<<IntItem(e), IntItem(m)>>)) : e \in -3..3, m \in {-201, -150, -10, -1, 0, 7, 150}}
  \cup {Typed("OBJPAT", Array(<<a, Simple("true"), Simple("true"), b>>)) :
          a \in {Simple("true"), Item("text", 4), IntItem(3), Simple("undef")} \cup
                {Array(<<x, IntItem(1), IntItem(0), y>>) : x, y \in {Simple("null"), IntItem(-2), IntItem(0), IntItem(2)}},
          b \in {IntItem(1), Simple("null")}}
  \cup {Array(<<o, IntItem(2), d, IntItem(t), Item("text", 4)>> \o ps) :
          o \in {IntItem(1), Simple("null"), Simple("true")}, d \in {Item("date", 20), IntItem(0)}, t \in {-8, -3, 4},
          ps \in {<<>>, <<Array(<<IntItem(1)>>)>>, <<Map(<<IntItem(1), IntItem(2)>>)>>, <<IntItem(1)>>}}

-----------------------------------------------------------------------------
MCComparables ==
  {U(1), I(1), I(-1), Undefined, Bool(TRUE), Text(2), Text(4), Lit("UINT", "UINT64", 1), Lit("UINT", "INT64", 1),
   Lit("REAL32", "FLOAT64", 98), Lit("none", "FLOAT64", 98), Lit("none", "FLOAT64", -97), Lit("LABEL", "INT64", 1),
   Time("TD", 0, 5), Time("TP", -1, 0), Time("TD", -1, 5),
   AC(<<U(1)>>), AC(<<U(0), U(1)>>), AC(<<I(1)>>), TBL(1, <<U(1)>>), TBL(2, <<U(1), U(1)>>), TBL(1, <<U(1), U(1)>>),
   AM(<< <<U(1), U(2)>>, <<Text(2), U(3)>> >>), AM(<< <<Text(2), U(3)>>, <<U(1), U(2)>> >>), AM(<< <<U(1), U(3)>> >>),
   EXECSET(U(1), <<TestNs>>), EXECSET(U(1), <<U(1)>>), EXECSET(U(0), <<TestNs, TestNs>>),
   RPTSET(U(1), Time("TP", 3, 0), <<Rpt(0, <<U(1)>>)>>), RPTSET(U(1), Time("TP", 3, 0), <<Rpt(5, <<>>)>>),
   Pattern(SpecialPart), Pattern(TextPart(6)), Pattern(RangePart({Between(0, 4)})), Pattern(RangePart({Between(2, 2)})),
   TestNs, Dated(TestNs), InTest("VAR", 1, NoParams), InTest("VAR", 1, AC(<<>>)), InTest("VAR", 1, AM(<<>>)),
   InTest("CTRL", 1, NoParams), Ref("VAR", IntId(1), TextId(4), IntId(0), NoParams), Ref("VAR", NoId, IntId(2), NoId, NoParams)}

Chars == {0, 9, 34, 37, 39, 61, 65, 92, 98, 233, 55295, 65535, 65536, 1114111}
MCTexts == {<<>>} \cup {<<a>> : a \in Chars \ {0}} \cup {<<a, b>> : a, b \in Chars \ {0}} \cup {<<a, 117, b>> : a, b \in Chars \ {0}}
Octets == {0, 1, 15, 16, 63, 64, 128, 250, 255}
MCBytes == {<<>>} \cup {<<a>> : a \in Octets} \cup {<<a, b>> : a, b \in Octets} \cup {<<a, b, 3>> : a, b \in Octets}
           \cup {<<a, 7, 9, b>> : a, b \in Octets} \cup {<<1, 2, a, b, 5>> : a, b \in Octets}
MCRanges == Apart
=============================================================================
