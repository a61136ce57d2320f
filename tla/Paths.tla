------------------------------- MODULE Paths -------------------------------
(***************************************************************************)
(* Identities: the segments of the path of a reference (cace/ari/idseg.c),  *)
(* and what an organisation, a model or an object is registered under       *)
(* (cace/amm/idseg_val.c): a name, and an enumeration unless has_intenum    *)
(* is FALSE.                                                                *)
(***************************************************************************)

IntId(n) == [form |-> "int", int |-> n]
TextId(n) == [form |-> "text", text |-> n]
NoId == [form |-> "none"]

Id(n, name) == [has_intenum |-> TRUE, intenum |-> n, name |-> name]
NameOnly(name) == [has_intenum |-> FALSE, intenum |-> 0, name |-> name]

cace_amm_idseg_val_match_int(id, n) == id.has_intenum /\ id.intenum = n

Names(seg, id) == \/ seg.form = "int" /\ cace_amm_idseg_val_match_int(id, seg.int)
                  \/ seg.form = "text" /\ seg.text = id.name

(* The segment that names an identity: its enumeration if it has one.        *)
cace_ari_idseg_set_from_val(id) == IF id.has_intenum THEN IntId(id.intenum) ELSE TextId(id.name)

(* Names and enumerations are unique where add_ns and add_obj refuse a        *)
(* duplicate: the models of an organisation and the objects of one type.     *)
Distinct(a, b) == a.name # b.name /\ ~(a.has_intenum /\ b.has_intenum /\ a.intenum = b.intenum)
=============================================================================
