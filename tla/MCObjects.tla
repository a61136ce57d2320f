----------------------------- MODULE MCObjects -----------------------------
(* The instance of Objects for TLC.  Nothing is computed with numbers here, so *)
(* that the widths need only be wide enough for the enumerations.            *)
EXTENDS Objects

MCReals == {-256, -64, 0, 64, 256, 510}
MCNames(pattern) == {"ietf", "x", "a", "b", "c", "p", "q"}
MCStrlen(text) == 1

x == Id(1, "x")
MCOdmIds == {[org |-> ietf, model |-> Id(-1, "a")], [org |-> x, model |-> Id(-1, "a")],
             [org |-> ietf, model |-> Id(-1, "b")], [org |-> ietf, model |-> Id(3, "c")]}
MCOrgIds == {ietf, iana, x}
MCModelIds == {Adms.adms[i].model : i \in DOMAIN Adms.adms} \cup {id.model : id \in MCOdmIds}
MCNsRefs == {<<IntId(1), IntId(-1)>>, <<TextId("ietf"), TextId("a")>>}
MCObjIds == {Id(1, "p"), Id(2, "q"), Id(2, "p")}
MCMaxObjs == [IDENT |-> 2, CONST |-> 1, VAR |-> 1, SBR |-> 1, TBR |-> 1]
MCObjTypes == {"IDENT", "CONST", "VAR", "SBR", "TBR"}

UseOf(name) == [semtype |-> "type-use", params |-> [name |-> name]]
Value(type, value, params) == [type |-> type, value |-> value, params |-> params]
One1 == Lit("INT", "INT64", 1)
Unknown == UseOf([typedef |-> <<25, 77>>])
MCValueArgs == {Value(UseOf([aritype |-> "INT"]), One1, <<>>), Value(UseOf([aritype |-> "INT"]), Bool(TRUE), <<>>),
                Value(Unknown, One1, <<>>), Value([ident |-> "display-hint"], One1, <<>>),
                Value(UseOf([aritype |-> "INT"]), Undefined, <<Unknown>>)}
InA(seg) == Ref("IDENT", IntId(1), IntId(-1), seg, NoParams)
Idents(abstract, bases, params) == [abstract |-> abstract, bases |-> bases, params |-> params]
MCIdentArgs == {Idents(FALSE, <<ietf_ref("IDENT", 2, 10)>>, <<>>),
                Idents(FALSE, <<InA(TextId("p"))>>, <<>>),
                Idents(FALSE, <<InA(IntId(2)), ietf_ref("IDENT", 2, 99)>>, <<Unknown>>)}

Sbr(action, interval, count) ==
  [action |-> action, condition |-> AC(<<Bool(TRUE)>>), min_interval |-> interval, init_enabled |-> TRUE,
   max_count |-> count]
MCSbrArgs == {Sbr(AC(<<ietf_ref("CTRL", 1, 1)>>), Time("TD", 1, 0), 0), Sbr(AC(<<>>), Undefined, 1),
              Sbr(ietf_ref("CTRL", 1, 1), Undefined, 1)}

Tbr(action, start, period) ==
  [action |-> action, start_time |-> start, period |-> period, init_enabled |-> FALSE, max_count |-> 1]
MCTbrArgs == {Tbr(AC(<<>>), Time("TP", 1, 0), Time("TD", 1, 0)), Tbr(AC(<<>>), Undefined, Time("TD", 1, 0)),
              Tbr(AC(<<ietf_ref("CTRL", 1, 1)>>), Time("TD", 0, 0), Undefined)}
=============================================================================
