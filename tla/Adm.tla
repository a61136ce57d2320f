-------------------------------- MODULE Adm --------------------------------
(***************************************************************************)
(* What the ADMs register (refda/adm/*.c): each is a list of objects, in a  *)
(* namespace with an organisation and a model.  An object has its type,     *)
(* its enumeration and name, its formal parameters and                      *)
(*   an IDENT    abstract, and bases, the idents it derives from,           *)
(*   a TYPEDEF, VAR, EDD or CONST   type (a CONST's is never set),          *)
(*   a CTRL      result, the type of its result or NoResult,                *)
(*   an OPER     operands and type.                                         *)
(* The types are those of Typing.  One is used by a reference Td(model, id) *)
(* to a TYPEDEF of the ietf organisation; such a use is not bound yet.      *)
(* Texts are strings.                                                       *)
(***************************************************************************)
EXTENDS AmmBase, Paths

Ari(t) == UseAri(t)
Td(model, id) == Use(Invalid, [typedef |-> <<model, id>>], {})
With(t, cnst) == [t EXCEPT !.cnst = cnst]
Optional(t) == Union(<<t, Ari("NULL")>>)
ListOf(t) == UList(t, AnySize)
Table(cols) == TblT(cols)
Col(name, t) == [name |-> name, type |-> t]

(* A use of IDENT whose constraint to one base is not filled in.             *)
identity == With(Ari("IDENT"), {Unset})
any_rule == Union(<<Ari("SBR"), Ari("TBR")>>)

NullLit == Lit("none", "NULL", 0)
(* cace_ari_tbl_reset(tblinit, 0, 3): no columns, so none of the three rows.  *)
EmptyTbl == TBL(0, <<>>)
ietf_ref(t, model, id) == Ref(t, IntId(1), IntId(model), IntId(id), NoParams)
EddRef(i) == ietf_ref("EDD", 1, i)

P(name, t) == [name |-> name, type |-> t, defval |-> Undefined]
D(name, t, default) == [name |-> name, type |-> t, defval |-> default]

(* Parameters that several objects have. *)
elements == <<D("min-elements", Optional(Ari("UVAST")), NullLit),
              D("max-elements", Optional(Ari("UVAST")), NullLit)>>
new_object == <<P("namespace", Ari("NAMESPACE")), P("obj-name", Td(25, 25)), P("obj-enum", Td(25, 26))>>
include_adm == D("include-adm", Ari("BOOL"), Bool(FALSE))
formal_params == D("formal-params", Td(1, 1), EmptyTbl)

NoResult == Invalid

Ident(enum, name, bases, params) ==
  [typ |-> "IDENT", id |-> Id(enum, name), params |-> params, abstract |-> FALSE,
   bases |-> [i \in DOMAIN bases |-> ietf_ref("IDENT", bases[i][1], bases[i][2])]]
Abstract(enum, name, bases, params) == [Ident(enum, name, bases, params) EXCEPT !.abstract = TRUE]
Typed(typ, enum, name, params, type) ==
  [typ |-> typ, id |-> Id(enum, name), params |-> params, type |-> type]
Typedef(enum, name, type) == Typed("TYPEDEF", enum, name, <<>>, type)
Const(enum, name, value) ==
  [typ |-> "CONST", id |-> Id(enum, name), params |-> <<>>, type |-> Invalid, value |-> value]
Var(enum, name, type) == Typed("VAR", enum, name, <<>>, type)
Edd(enum, name, params, type) == Typed("EDD", enum, name, params, type)
Ctrl(enum, name, params, result) == Typed("CTRL", enum, name, params, result)
Oper(enum, name, params, operands, result) ==
  [typ |-> "OPER", id |-> Id(enum, name), params |-> params, operands |-> operands, type |-> result]

-----------------------------------------------------------------------------
(* ietf_amm_base.c: its typedefs are the types of AmmBase.                  *)

amm_base_idents ==
  <<Abstract(0, "display-hint", <<>>, <<>>),
    Abstract(1, "display-hint-integer", << <<25, 0>> >>, <<>>),
    Abstract(2, "display-hint-float", << <<25, 0>> >>, <<>>),
    Abstract(3, "display-hint-bstr", << <<25, 0>> >>, <<>>),
    Abstract(4, "display-hint-time", << <<25, 0>> >>, <<>>)>>

amm_base_typedefs ==
  <<Typedef(0, "type-ref", type_ref), Typedef(1, "integer", integer), Typedef(2, "float", float),
    Typedef(3, "numeric", numeric), Typedef(27, "numeric-or-time", numeric_or_time),
    Typedef(4, "primitive", primitive), Typedef(5, "time", time), Typedef(6, "simple", simple),
    Typedef(7, "nested", nested), Typedef(8, "any", any), Typedef(9, "value-obj", value_obj),
    Typedef(10, "nonce", nonce), Typedef(25, "id-text", id_text), Typedef(26, "id-int", id_int),
    Typedef(11, "counter32", counter32), Typedef(12, "counter64", counter64),
    Typedef(13, "gauge32", gauge32), Typedef(14, "gauge64", gauge64), Typedef(15, "timestamp", timestamp),
    Typedef(16, "eval-tgt", eval_tgt), Typedef(17, "expr-item", expr_item), Typedef(18, "expr", expr),
    Typedef(19, "exec-tgt", exec_tgt), Typedef(20, "exec-item", exec_item), Typedef(21, "mac", mac),
    Typedef(22, "rpt-tgt", rpt_tgt), Typedef(23, "rptt-item", rptt_item), Typedef(24, "rptt", rptt)>>

amm_base == amm_base_idents \o amm_base_typedefs

-----------------------------------------------------------------------------
(* ietf_amm_semtype.c: the identities that name semantic types. *)

semtype_uses ==
  <<Abstract(1, "semtype", <<>>, <<>>),
    Ident(2, "type-use", << <<24, 1>> >>, <<P("name", Td(25, 0))>>),
    Ident(3, "ulist", << <<24, 1>> >>, <<P("item-type", Td(24, 25))>> \o elements)>>

semtype_maps ==
  <<Ident(4, "dlist", << <<24, 1>> >>, <<P("item-types", ListOf(Td(24, 25)))>>),
    Ident(5, "umap", << <<24, 1>> >>, <<P("key-type", Td(24, 25)), P("value-type", Td(24, 25))>>)>>

semtype_tables ==
  <<Ident(6, "tblt", << <<24, 1>> >>, <<P("columns", Table(<<Col("name", Td(25, 25)),
        Col("datatype", Td(24, 25))>>))>> \o elements \o <<D("key", Optional(Ari("TEXTSTR")), NullLit),
        D("unique", ListOf(Ari("TEXTSTR")), AC(<<>>))>>)>>

semtype_unions ==
  <<Ident(8, "union", << <<24, 1>> >>, <<P("choices", ListOf(Td(24, 25)))>>),
    Ident(9, "seq", << <<24, 1>> >>, <<P("item-type", Td(24, 25))>> \o elements),
    Typedef(25, "semtype", identity)>>

amm_semtype == semtype_uses \o semtype_maps \o semtype_tables \o semtype_unions

-----------------------------------------------------------------------------
(* ietf_network_base.c. *)

network_idents ==
  <<Ident(17, "display-bstr-uuid", << <<25, 3>> >>, <<>>),
    Ident(18, "display-bstr-oid", << <<25, 3>> >>, <<>>),
    Abstract(0, "abstract-endpoint", <<>>, <<>>)>>

network_typedefs ==
  <<Typedef(0, "uri", With(Ari("TEXTSTR"), {Textpat("uri")})),
    Typedef(5, "uuid", With(Ari("BYTESTR"), {Strlen({Between(16, 16)})})),
    Typedef(4, "oid", With(Ari("BYTESTR"), {Strlen({FromOn(2)})})),
    Typedef(1, "endpoint", identity),
    Typedef(3, "endpoint-or-uri", Union(<<Td(26, 1), Td(26, 0)>>))>>

network_base == network_idents \o network_typedefs

-----------------------------------------------------------------------------
(* ietf_dtnma_agent.c, without its OPERs, whose types are in Opers. *)

agent_typedefs ==
  <<Typedef(1, "formal-params-tbl", Table(<<Col("name", Td(25, 25)), Col("type", Td(24, 25)),
        Col("default", Td(25, 8))>>)),
    Typedef(0, "tbl-row-filter", Td(25, 18)),
    Const(0, "hello", AC([i \in 1..3 |-> EddRef(i - 1)]))>>

agent_versions ==
  <<Edd(0, "sw-vendor", <<>>, Ari("TEXTSTR")),
    Edd(1, "sw-version", <<>>, Ari("TEXTSTR")),
    Edd(2, "capability", <<>>, Table(<<Col("org-name", Ari("TEXTSTR")),
        Col("org-enum", Ari("VAST")), Col("model-name", Ari("TEXTSTR")),
        Col("model-enum", Ari("VAST")), Col("revision", Ari("TEXTSTR")),
        Col("features", ListOf(Ari("TEXTSTR")))>>))>>

agent_message_edds ==
  <<Edd(3, "num-msg-rx", <<>>, Td(25, 12)),
    Edd(4, "num-msg-rx-failed", <<>>, Td(25, 12)),
    Edd(5, "num-msg-tx", <<>>, Td(25, 12)),
    Edd(15, "num-msg-tx-failed", <<>>, Td(25, 12)),
    Edd(17, "last-msg-rx-time", <<>>, Ari("TP"))>>

agent_exec_edds ==
  <<Edd(6, "num-exec-started", <<>>, Td(25, 12)),
    Edd(7, "num-exec-succeeded", <<>>, Td(25, 12)),
    Edd(8, "num-exec-failed", <<>>, Td(25, 12)),
    Edd(9, "exec-running", <<>>, Table(<<Col("pid", Ari("UVAST")), Col("target", Td(25, 19)),
        Col("state", With(Ari("BYTE"), {RangeInt64({Between(0, 1)})}))>>))>>

agent_ns_lists ==
  <<Edd(16, "odm-list", <<>>, Table(<<Col("org-name", Td(25, 25)), Col("org-enum", Td(25, 26)),
        Col("model-name", Td(25, 25)), Col("model-enum", Td(25, 26)), Col("revision", Ari("TEXTSTR"))>>)),
    Edd(18, "ident-list", <<include_adm, D("include-abstract", Ari("BOOL"), Bool(FALSE)),
        D("base", Optional(Ari("IDENT")), NullLit)>>, Table(<<Col("obj", Ari("IDENT")),
        Col("is-abstract", Ari("BOOL"))>>))>>

agent_object_lists ==
  <<Edd(10, "typedef-list", <<include_adm>>, Table(<<Col("obj", Ari("TYPEDEF"))>>)),
    Edd(14, "const-list", <<include_adm>>, Table(<<Col("obj", Ari("CONST")), Col("type", Td(24, 25))>>)),
    Edd(11, "var-list", <<include_adm>>, Table(<<Col("obj", Ari("VAR")), Col("type", Td(24, 25))>>))>>

agent_sbr_list ==
  <<Edd(12, "sbr-list", <<include_adm>>, Table(<<Col("obj", Ari("SBR")), Col("action", Td(25, 19)),
        Col("condition", Td(25, 16)), Col("min-interval", Ari("TD")),
        Col("max-count", Ari("UVAST")), Col("init-enabled", Ari("BOOL")), Col("enabled", Ari("BOOL"))>>))>>

agent_tbr_list ==
  <<Edd(13, "tbr-list", <<include_adm>>, Table(<<Col("obj", Ari("TBR")), Col("action", Td(25, 19)),
        Col("start-time", Td(25, 5)), Col("period", Ari("TD")), Col("max-count", Ari("UVAST")),
        Col("init-enabled", Ari("BOOL")), Col("enabled", Ari("BOOL"))>>))>>

agent_flow_ctrls ==
  <<Ctrl(0, "if-then-else", <<P("condition", Td(25, 16)),
        D("on-truthy", Optional(Td(25, 19)), NullLit), D("on-falsy", Optional(Td(25, 19)), NullLit)>>,
        Ari("BOOL")),
    Ctrl(1, "catch", <<P("try", Td(25, 19)), D("on-failure", Optional(Td(25, 19)), NullLit)>>,
        Ari("BOOL"))>>

agent_exec_deadline ==
  <<Ctrl(22, "exec-deadline", <<P("target", Td(25, 19)), P("deadline", Ari("TD")),
        D("on-timeout", Optional(Td(25, 19)), NullLit)>>, Ari("BOOL"))>>

agent_wait_ctrls ==
  <<Ctrl(2, "wait-for", <<P("duration", Ari("TD"))>>, NoResult),
    Ctrl(3, "wait-until", <<P("time", Ari("TP"))>>, NoResult),
    Ctrl(4, "wait-cond", <<P("condition", Td(25, 16)),
        D("min-interval", Optional(Ari("TD")), NullLit)>>, NoResult)>>

agent_report_ctrls ==
  <<Ctrl(5, "inspect", <<P("ref", Td(25, 9))>>, Td(25, 8)),
    Ctrl(6, "report-on", <<P("template", Td(25, 22)), D("destinations", ListOf(Td(26, 3)), AC(<<>>))>>,
        NoResult)>>

agent_odm_ctrls ==
  <<Ctrl(18, "ensure-odm", <<P("org-name", Td(25, 25)), P("org-id", Td(25, 26)),
        P("model-name", With(Td(25, 25), {Textpat("private")})),
        P("model-id", With(Td(25, 26), {RangeInt64({UpTo(-1)})}))>>, NoResult),
    Ctrl(19, "obsolete-odm", <<P("odm-ns", Ari("NAMESPACE"))>>, NoResult),
    Ctrl(7, "var-reset", <<P("target", Ari("VAR"))>>, NoResult),
    Ctrl(8, "var-store", <<P("target", Ari("VAR")), P("value", Td(25, 8))>>, NoResult)>>

agent_ident_ctrls ==
  <<Ctrl(20, "ensure-ident", new_object \o <<P("abstract", Ari("BOOL")),
        P("bases", ListOf(Ari("IDENT"))), formal_params>>, NoResult),
    Ctrl(21, "obsolete-ident", <<P("obj", Ari("IDENT"))>>, NoResult)>>

agent_const_ctrls ==
  <<Ctrl(11, "ensure-const", new_object \o <<P("type", Td(24, 25)),
        P("value", Td(25, 8)), formal_params>>, NoResult),
    Ctrl(12, "obsolete-const", <<P("obj", Ari("CONST"))>>, NoResult)>>

agent_var_ctrls ==
  <<Ctrl(9, "ensure-var", new_object \o <<P("type", Td(24, 25)),
        P("init-value", Td(25, 8)), formal_params>>, NoResult),
    Ctrl(10, "obsolete-var", <<P("obj", Ari("VAR"))>>, NoResult)>>

agent_ensure_sbr ==
  <<Ctrl(13, "ensure-sbr", new_object \o <<P("action", Td(25, 19)), P("condition", Td(25, 16)),
        P("min-interval", Ari("TD")), P("max-count", Ari("UVAST")), P("init-enabled", Ari("BOOL"))>>,
        NoResult)>>

agent_ensure_tbr ==
  <<Ctrl(14, "ensure-tbr", new_object \o <<P("action", Td(25, 19)), P("start-time", Td(25, 5)),
        P("period", Ari("TD")), P("max-count", Ari("UVAST")), P("init-enabled", Ari("BOOL"))>>, NoResult)>>

agent_rule_ctrls ==
  <<Ctrl(15, "ensure-rule-enabled", <<P("obj-id", any_rule), P("enabled", Ari("BOOL"))>>, NoResult),
    Ctrl(16, "reset-rule-enabled", <<P("obj-id", any_rule)>>, NoResult),
    Ctrl(17, "obsolete-rule", <<P("obj-id", any_rule)>>, Ari("BOOL"))>>

dtnma_agent ==
  agent_typedefs \o agent_versions \o agent_message_edds \o agent_exec_edds
  \o agent_ns_lists \o agent_object_lists \o agent_sbr_list \o agent_tbr_list
  \o agent_flow_ctrls \o agent_exec_deadline \o agent_wait_ctrls \o agent_report_ctrls
  \o agent_odm_ctrls \o agent_ident_ctrls \o agent_const_ctrls \o agent_var_ctrls
  \o agent_ensure_sbr \o agent_ensure_tbr \o agent_rule_ctrls

-----------------------------------------------------------------------------
(* ietf_dtnma_agent_acl.c. *)

acl_permissions ==
  <<Abstract(0, "permission", <<>>, <<>>),
    Ident(10, "execute", << <<2, 0>> >>, <<>>),
    Ident(11, "produce", << <<2, 0>> >>, <<>>),
    Ident(12, "modify-var", << <<2, 0>> >>, <<>>),
    Ident(17, "modify-rule-enabled", << <<2, 0>> >>, <<>>),
    Ident(13, "ensure-odm", << <<2, 0>> >>, <<>>),
    Ident(14, "obsolete-odm", << <<2, 0>> >>, <<>>),
    Ident(15, "ensure-object", << <<2, 0>> >>, <<>>),
    Ident(16, "obsolete-object", << <<2, 0>> >>, <<>>)>>

acl_typedefs ==
  <<Typedef(2, "entry-id", Ari("UINT")),
    Typedef(3, "optional-entry-id", Optional(Td(2, 2))),
    Typedef(0, "permission-list", ListOf(identity)),
    Typedef(5, "access-target-filter", Td(25, 18)),
    Typedef(4, "group-member-filter", Td(25, 18)),
    Var(1, "default-access", Td(2, 0))>>

acl_edds ==
  <<Edd(2, "access-list", <<>>, Table(<<Col("access-id", Td(2, 2)),
        Col("group-ids", ListOf(Td(2, 2))), Col("objects", Td(2, 5)), Col("permissions", Td(2, 0)),
        Col("added-at", Td(25, 15)), Col("updated-at", Td(25, 15))>>)),
    Edd(3, "current-groups", <<>>, ListOf(Td(2, 2)))>>

acl_group_list ==
  <<Edd(4, "group-list", <<>>, Table(<<Col("group-id", Td(2, 2)), Col("name", Td(25, 25)),
        Col("members", Td(2, 4)), Col("added-at", Td(25, 15)), Col("updated-at", Td(25, 15))>>))>>

acl_access_ctrls ==
  <<Ctrl(3, "ensure-access", <<P("access-id", Td(2, 2)), P("group-ids", ListOf(Td(2, 2))),
        P("objects", Td(2, 5)), P("permissions", Td(2, 0))>>, NoResult),
    Ctrl(4, "discard-access", <<P("access-id", Td(2, 2))>>, NoResult)>>

acl_group_ctrls ==
  <<Ctrl(5, "ensure-group", <<P("group-id", Td(2, 2)), P("name", Td(25, 25))>>, NoResult),
    Ctrl(7, "ensure-group-members", <<P("group-id", Td(2, 2)), P("members", Td(2, 4))>>, NoResult),
    Ctrl(6, "discard-group", <<P("group-id", Td(2, 2))>>, NoResult)>>

dtnma_agent_acl ==
  acl_permissions \o acl_typedefs \o acl_edds \o acl_group_list \o acl_access_ctrls
  \o acl_group_ctrls

-----------------------------------------------------------------------------
(* ietf_alarms.c. *)

alarms_typedefs ==
  <<Abstract(0, "resource", <<>>, <<>>),
    Abstract(1, "category", <<>>, <<>>),
    Typedef(0, "severity", With(Ari("UINT"), {RangeInt64({Between(0, 5)})})),
    Typedef(1, "manager-state", With(Ari("UINT"), {RangeInt64({Between(0, 3)})})),
    Typedef(4, "alarm-filter", Td(25, 18)),
    Typedef(3, "shelf-tblt", Table(<<Col("resources", ListOf(Ari("OBJPAT"))),
        Col("categories", ListOf(Ari("OBJPAT")))>>))>>

alarms_alarm_list ==
  <<Edd(0, "alarm-list", <<>>, Table(<<Col("resource", identity),
        Col("category", Union(<<Ari("NULL"), identity>>)), Col("severity", Td(4, 0)),
        Col("time-created", Td(25, 15)), Col("time-updated", Td(25, 15)),
        Col("history", Table(<<Col("time", Td(25, 15)), Col("severity", Td(4, 0))>>)),
        Col("manager-state", Td(4, 1)), Col("manager-identity", Optional(Td(26, 1))),
        Col("manager-time", Optional(Td(25, 15)))>>))>>

alarms_inventories ==
  <<Edd(1, "resource-inventory", <<>>, Table(<<Col("resource", identity)>>)),
    Edd(2, "category-inventory", <<>>, Table(<<Col("category", identity)>>)),
    Edd(3, "shelf-list", <<>>, Td(4, 3))>>

alarms_ctrls ==
  <<Ctrl(2, "purge-alarms", <<P("filter", Td(4, 4))>>, Ari("UVAST")),
    Ctrl(3, "compress-alarms", <<P("filter", Td(4, 4))>>, Ari("UVAST")),
    Ctrl(4, "set-alarms-manager-state", <<P("filter", Td(4, 4)), P("manager-state", Td(4, 1))>>,
        Ari("UVAST")),
    Ctrl(0, "ensure-shelf", <<P("rows", Td(4, 3))>>, NoResult),
    Ctrl(1, "discard-shelf", <<P("rows", Td(4, 3))>>, NoResult)>>

alarms == alarms_typedefs \o alarms_alarm_list \o alarms_inventories \o alarms_ctrls

-----------------------------------------------------------------------------
(* iana_display_hints.c. *)

display_numbers ==
  <<Ident(2, "display-int-dec", << <<25, 1>> >>, <<>>),
    Ident(3, "display-int-bin", << <<25, 1>> >>, <<>>),
    Ident(4, "display-int-hex", << <<25, 1>> >>, <<>>),
    Ident(6, "display-float-dec", << <<25, 2>> >>, <<>>),
    Ident(7, "display-float-exp", << <<25, 2>> >>, <<>>),
    Ident(8, "display-float-hex", << <<25, 2>> >>, <<>>)>>

display_others ==
  <<Ident(10, "display-bstr-text", << <<25, 3>> >>, <<>>),
    Ident(11, "display-bstr-base16", << <<25, 3>> >>, <<>>),
    Ident(12, "display-bstr-base64", << <<25, 3>> >>, <<>>),
    Ident(14, "display-time-text", << <<25, 4>> >>, <<>>),
    Ident(15, "display-time-dec", << <<25, 4>> >>, <<>>)>>

display_hints == display_numbers \o display_others

-----------------------------------------------------------------------------
(* ietf_inet_base.c. *)

inet_endpoints ==
  <<Ident(2, "display-bstr-ipaddress", << <<25, 3>> >>, <<>>),
    Ident(0, "ip-endpoint", << <<26, 0>> >>, <<P("address", Td(4, 2)),
        D("zone", Optional(Td(4, 4)), NullLit)>>),
    Ident(1, "ip-transport", << <<26, 0>> >>, <<P("address", Td(4, 2)), P("port", Td(4, 3)),
        D("zone", Optional(Td(4, 4)), NullLit)>>)>>

inet_addresses ==
  <<Typedef(0, "ipv4-address", With(Ari("BYTESTR"), {Strlen({Between(4, 4)})})),
    Typedef(1, "ipv6-address", With(Ari("BYTESTR"), {Strlen({Between(16, 16)})})),
    Typedef(2, "ip-address", Union(<<Td(4, 0), Td(4, 1)>>)),
    Typedef(4, "zone", Union(<<Ari("UINT"), Ari("TEXTSTR")>>))>>

inet_names ==
  <<Typedef(3, "port-number", With(Ari("UINT"), {Strlen({Between(0, 65535)})})),
    Typedef(5, "domain-name", With(Ari("TEXTSTR"), {Strlen({Between(1, 253)}), Textpat("domain-name")}))>>

inet_opers ==
  <<Oper(0, "match-ip-vlsm", <<P("base", Td(4, 2)),
        P("prefix", With(Ari("UINT"), {RangeInt64({Between(0, 128)})}))>>,
        <<Union(<<Td(4, 2), identity, identity>>)>>, Ari("BOOL"))>>

inet_base == inet_endpoints \o inet_addresses \o inet_names \o inet_opers

-----------------------------------------------------------------------------
(* ietf_bp_base.c. *)

bp_endpoints ==
  <<Ident(1, "display-bstr-eid", << <<25, 3>> >>, <<>>),
    Ident(3, "display-bstr-eid-pattern", << <<25, 3>> >>, <<>>),
    Ident(0, "bp-endpoint", << <<26, 0>> >>, <<P("eid", Td(5, 1))>>),
    Typedef(0, "eid-text", Td(26, 0)),
    Typedef(1, "eid-cbor", Ari("CBOR")),
    Typedef(2, "eid-pattern-cbor", Ari("CBOR"))>>

bp_opers ==
  <<Oper(0, "match-eid-pattern", <<P("pattern", Td(5, 2))>>, <<Union(<<Td(26, 0), identity>>)>>,
        Ari("BOOL"))>>

bp_base == bp_endpoints \o bp_opers

-----------------------------------------------------------------------------
(* The namespaces that refda_loader_basemods adds, in its order, and those of *)
(* the library that an application may add after them.  The amm ADM is empty. *)

Adm(org, model, objs) == [org |-> org, model |-> model, objs |-> objs]
ietf == Id(1, "ietf")
iana == Id(2, "iana")

(* Mutant: the module that the endpoints of reports are defined in is not     *)
(* loaded.                                                                   *)
basemods_without_network ==
  <<Adm(ietf, Id(0, "amm"), <<>>), Adm(ietf, Id(25, "amm-base"), amm_base),
    Adm(ietf, Id(24, "amm-semtype"), amm_semtype),
    Adm(ietf, Id(1, "dtnma-agent"), dtnma_agent),
    Adm(ietf, Id(2, "dtnma-agent-acl"), dtnma_agent_acl),
    Adm(ietf, Id(4, "alarms"), alarms)>>

refda_loader_basemods ==
  <<Adm(ietf, Id(0, "amm"), <<>>), Adm(ietf, Id(25, "amm-base"), amm_base),
    Adm(ietf, Id(24, "amm-semtype"), amm_semtype),
    Adm(ietf, Id(26, "network-base"), network_base),
    Adm(ietf, Id(1, "dtnma-agent"), dtnma_agent),
    Adm(ietf, Id(2, "dtnma-agent-acl"), dtnma_agent_acl),
    Adm(ietf, Id(4, "alarms"), alarms)>>

library_adms ==
  <<Adm(iana, Id(0, "display-hints"), display_hints),
    Adm(ietf, Id(4, "inet-base"), inet_base),
    Adm(ietf, Id(5, "bp-base"), bp_base)>>
=============================================================================
