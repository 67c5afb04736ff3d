----------------------------- MODULE TableLayout -----------------------------
(***************************************************************************)
(* lib/static-config/tables: where every field of every table entry sits   *)
(* in the packed entry.  One definition per *_entry_access function, with  *)
(* the calls of pack_or_unpack in their order; pack and unpack walk the    *)
(* same list, which is what makes an entry survive a save and a load.      *)
(*                                                                         *)
(* A field is identified by its name and its index in its array (0 for a   *)
(* scalar).  An integer is the set of the numbers of its 1 bits, a packed  *)
(* entry the set of its bit numbers that are 1 (module Gtable shows that   *)
(* the byte order of the buffer implements this numbering).                *)
(***************************************************************************)
EXTENDS Integers, Sequences

Scalar(name, start, end) == <<[id |-> <<name, 0>>, start |-> start, end |-> end]>>

(***************************************************************************)
(* The loops: element i of an array occupies hi..lo above offset, and      *)
(* offset advances by step.                                                *)
(***************************************************************************)
Array(name, n, offset, step, hi, lo) ==
    [i \in 1..n |-> [id    |-> <<name, i - 1>>,
                     start |-> offset + (i - 1) * step + hi,
                     end   |-> offset + (i - 1) * step + lo]]

\* A layout by its fields, each at the bits end..start.
Parts(layout) == {layout[i] : i \in DOMAIN layout}

IsLayout(layout) ==
    /\ layout \in Seq(Parts(layout))
    /\ \A f \in Parts(layout) : f.start \in Nat /\ f.end \in Nat /\ f.end <= f.start

Width(f) == f.start - f.end + 1

Ids(layout) == {layout[i].id : i \in DOMAIN layout}

schedule ==
    Scalar("winstindex", 63, 54) \o Scalar("winend", 53, 53) \o Scalar("winst", 52, 52)
    \o Scalar("destports", 51, 47) \o Scalar("setvalid", 46, 46) \o Scalar("txen", 45, 45)
    \o Scalar("resmedia_en", 44, 44) \o Scalar("resmedia", 43, 36)
    \o Scalar("vlindex", 35, 26) \o Scalar("delta", 25, 8)

schedule_params == Array("subscheind", 8, 16, 10, 9, 0)

schedule_entry_points ==
    Scalar("subschindx", 31, 29) \o Scalar("delta", 28, 11) \o Scalar("address", 10, 1)

schedule_entry_points_params == Scalar("clksrc", 31, 30) \o Scalar("actsubsch", 29, 27)

(***************************************************************************)
(* The fields of the two VL lookup formats share their memory (the union   *)
(* of sja1105_vl_lookup_entry): egrmirr is destports, ingrmirr iscritical  *)
(* and vlid macaddr.                                                       *)
(***************************************************************************)
\* Mutant: vlid is not where the end of macaddr is.
vl_lookup_Shifted(format) ==
    IF format = 0
    THEN Scalar("destports", 95, 91) \o Scalar("iscritical", 90, 90)
         \o Scalar("macaddr", 89, 42) \o Scalar("vlanid", 41, 30)
         \o Scalar("port", 29, 27) \o Scalar("vlanprior", 26, 24)
    ELSE Scalar("destports", 95, 91) \o Scalar("iscritical", 90, 90)
         \o Scalar("macaddr", 58, 43) \o Scalar("port", 29, 27)

vl_lookup(format) ==
    IF format = 0
    THEN Scalar("destports", 95, 91) \o Scalar("iscritical", 90, 90)
         \o Scalar("macaddr", 89, 42) \o Scalar("vlanid", 41, 30)
         \o Scalar("port", 29, 27) \o Scalar("vlanprior", 26, 24)
    ELSE Scalar("destports", 95, 91) \o Scalar("iscritical", 90, 90)
         \o Scalar("macaddr", 57, 42) \o Scalar("port", 29, 27)

(***************************************************************************)
(* bag and jitter exist in an entry of type 0 (rate-constrained) only.     *)
(***************************************************************************)
vl_policing(type) ==
    Scalar("type", 63, 63) \o Scalar("maxlen", 62, 52) \o Scalar("sharindx", 51, 42)
    \o IF type = {} THEN Scalar("bag", 41, 28) \o Scalar("jitter", 27, 18) ELSE << >>

vl_forwarding ==
    Scalar("type", 31, 31) \o Scalar("priority", 30, 28)
    \o Scalar("partition", 27, 25) \o Scalar("destports", 24, 20)

vl_forwarding_params == Array("partspc", 8, 16, 10, 9, 0) \o Scalar("debugen", 15, 15)

l2_policing ==
    Scalar("sharindx", 63, 58) \o Scalar("smax", 57, 42) \o Scalar("rate", 41, 26)
    \o Scalar("maxlen", 25, 15) \o Scalar("partition", 14, 12)

l2_lookup_et ==
    Scalar("vlanid", 95, 84) \o Scalar("macaddr", 83, 36) \o Scalar("destports", 35, 31)
    \o Scalar("enfport", 30, 30) \o Scalar("index", 29, 20)

l2_lookup_pqrs ==
    Scalar("tsreg", 159, 159) \o Scalar("mirrvlan", 158, 147) \o Scalar("takets", 146, 146)
    \o Scalar("mirr", 145, 145) \o Scalar("retag", 144, 144)
    \o Scalar("mask_iotag", 143, 143) \o Scalar("mask_vlanid", 142, 131)
    \o Scalar("mask_macaddr", 130, 83) \o Scalar("iotag", 82, 82)
    \o Scalar("vlanid", 81, 70) \o Scalar("macaddr", 69, 22)
    \o Scalar("destports", 21, 17) \o Scalar("enfport", 16, 16) \o Scalar("index", 15, 6)

vlan_lookup ==
    Scalar("ving_mirr", 63, 59) \o Scalar("vegr_mirr", 58, 54) \o Scalar("vmemb_port", 53, 49)
    \o Scalar("vlan_bc", 48, 44) \o Scalar("tag_port", 43, 39) \o Scalar("vlanid", 38, 27)

l2_forwarding ==
    Scalar("bc_domain", 63, 59) \o Scalar("reach_port", 58, 54)
    \o Scalar("fl_domain", 53, 49) \o Array("vlan_pmap", 8, 25, 3, 2, 0)

l2_forwarding_params == Scalar("max_dynp", 95, 93) \o Array("part_spc", 8, 13, 10, 9, 0)

l2_lookup_params_et ==
    Scalar("maxage", 31, 17) \o Scalar("dyn_tbsz", 16, 14) \o Scalar("poly", 13, 6)
    \o Scalar("shared_learn", 5, 5) \o Scalar("no_enf_hostprt", 4, 4)
    \o Scalar("no_mgmt_learn", 3, 3)

l2_lookup_params_pqrs ==
    Scalar("drpbc", 127, 123) \o Scalar("drpmc", 122, 118) \o Scalar("drpuni", 117, 113)
    \o Array("maxaddrp", 5, 58, 11, 10, 0) \o Scalar("maxage", 57, 43)
    \o Scalar("start_dynspc", 42, 33) \o Scalar("drpnolearn", 32, 28)
    \o Scalar("shared_learn", 27, 27) \o Scalar("no_enf_hostprt", 26, 26)
    \o Scalar("no_mgmt_learn", 25, 25) \o Scalar("use_static", 24, 24)
    \o Scalar("owr_dyn", 23, 23) \o Scalar("learn_once", 22, 22)

avb_params_et == Scalar("destmeta", 95, 48) \o Scalar("srcmeta", 47, 0)

avb_params_pqrs ==
    Scalar("l2cbs", 127, 127) \o Scalar("cas_master", 126, 126)
    \o Scalar("destmeta", 125, 78) \o Scalar("srcmeta", 77, 33)

general_params_et ==
    Scalar("vllupformat", 319, 319) \o Scalar("mirr_ptacu", 318, 318)
    \o Scalar("switchid", 317, 315) \o Scalar("hostprio", 314, 312)
    \o Scalar("mac_fltres1", 311, 264) \o Scalar("mac_fltres0", 263, 216)
    \o Scalar("mac_flt1", 215, 168) \o Scalar("mac_flt0", 167, 120)
    \o Scalar("incl_srcpt1", 119, 119) \o Scalar("incl_srcpt0", 118, 118)
    \o Scalar("send_meta1", 117, 117) \o Scalar("send_meta0", 116, 116)
    \o Scalar("casc_port", 115, 113) \o Scalar("host_port", 112, 110)
    \o Scalar("mirr_port", 109, 107) \o Scalar("vlmarker", 106, 75)
    \o Scalar("vlmask", 74, 43) \o Scalar("tpid", 42, 27)
    \o Scalar("ignore2stf", 26, 26) \o Scalar("tpid2", 25, 10)

general_params_pqrs ==
    Scalar("vllupformat", 351, 351) \o Scalar("mirr_ptacu", 350, 350)
    \o Scalar("switchid", 349, 347) \o Scalar("hostprio", 346, 344)
    \o Scalar("mac_fltres1", 343, 296) \o Scalar("mac_fltres0", 295, 248)
    \o Scalar("mac_flt1", 247, 200) \o Scalar("mac_flt0", 199, 152)
    \o Scalar("incl_srcpt1", 151, 151) \o Scalar("incl_srcpt0", 150, 150)
    \o Scalar("send_meta1", 149, 149) \o Scalar("send_meta0", 148, 148)
    \o Scalar("casc_port", 147, 145) \o Scalar("host_port", 144, 142)
    \o Scalar("mirr_port", 141, 139) \o Scalar("vlmarker", 138, 107)
    \o Scalar("vlmask", 106, 75) \o Scalar("tpid", 74, 59)
    \o Scalar("ignore2stf", 58, 58) \o Scalar("tpid2", 57, 42)
    \o Scalar("queue_ts", 41, 41) \o Scalar("egrmirrvid", 40, 29)
    \o Scalar("egrmirrpcp", 28, 26) \o Scalar("egrmirrdei", 25, 25)
    \o Scalar("replay_port", 24, 22)

xmii_params == Array("xmii_mode", 5, 17, 3, 1, 0) \o Array("phy_mac", 5, 17, 3, 2, 2)

mac_config_et ==
    Array("enabled", 8, 72, 19, 0, 0) \o Array("base", 8, 72, 19, 9, 1)
    \o Array("top", 8, 72, 19, 18, 10) \o Scalar("ifg", 71, 67) \o Scalar("speed", 66, 65)
    \o Scalar("tp_delin", 64, 49) \o Scalar("tp_delout", 48, 33) \o Scalar("maxage", 32, 25)
    \o Scalar("vlanprio", 24, 22) \o Scalar("vlanid", 21, 10) \o Scalar("ing_mirr", 9, 9)
    \o Scalar("egr_mirr", 8, 8) \o Scalar("drpnona664", 7, 7) \o Scalar("drpdtag", 6, 6)
    \o Scalar("drpuntag", 5, 5) \o Scalar("retag", 4, 4) \o Scalar("dyn_learn", 3, 3)
    \o Scalar("egress", 2, 2) \o Scalar("ingress", 1, 1)

mac_config_pqrs ==
    Array("enabled", 8, 104, 19, 0, 0) \o Array("base", 8, 104, 19, 9, 1)
    \o Array("top", 8, 104, 19, 18, 10) \o Scalar("ifg", 103, 99) \o Scalar("speed", 98, 97)
    \o Scalar("tp_delin", 96, 81) \o Scalar("tp_delout", 80, 65) \o Scalar("maxage", 64, 57)
    \o Scalar("vlanprio", 56, 54) \o Scalar("vlanid", 53, 42) \o Scalar("ing_mirr", 41, 41)
    \o Scalar("egr_mirr", 40, 40) \o Scalar("drpnona664", 39, 39) \o Scalar("drpdtag", 38, 38)
    \o Scalar("drpsotag", 37, 37) \o Scalar("drpsitag", 36, 36) \o Scalar("drpuntag", 35, 35)
    \o Scalar("retag", 34, 34) \o Scalar("dyn_learn", 33, 33) \o Scalar("egress", 32, 32)
    \o Scalar("ingress", 31, 31) \o Scalar("mirrcie", 30, 30) \o Scalar("mirrcetag", 29, 29)
    \o Scalar("ingmirrvid", 28, 17) \o Scalar("ingmirrpcp", 16, 14)
    \o Scalar("ingmirrdei", 13, 13)

sgmii ==
    Scalar("digital_error_cnt", 1151, 1120) \o Scalar("digital_control_2", 1119, 1088)
    \o Scalar("debug_control", 383, 352) \o Scalar("test_control", 351, 320)
    \o Scalar("autoneg_control", 287, 256) \o Scalar("digital_control_1", 255, 224)
    \o Scalar("autoneg_adv", 223, 192) \o Scalar("basic_control", 191, 160)

(***************************************************************************)
(* The 1 bits of the reserved words that packing an SGMII entry writes:    *)
(* the end of each non-zero word, with the bits of its constant.           *)
(***************************************************************************)
SgmiiReserved ==
    LET At(end, bits) == {end + b : b \in bits}
    IN  UNION {At(960, {8}), At(928, {0, 1, 2, 3, 4, 5, 9}), At(896, {1, 3}),
               At(864, {1, 5, 10, 11, 12}), At(832, {0}), At(800, {0, 1}), At(736, {0}),
               At(704, {0, 2}), At(672, {0, 8}), At(608, {0}), At(544, {1, 3}),
               At(384, {2, 3, 4, 7, 8, 11, 15}), At(288, {1, 3}), At(128, {2})}

(***************************************************************************)
(* The tables, and which access functions serve them: the switch of        *)
(* sja1105_static_config_add_entry.  The format of a VL lookup entry and   *)
(* the type of a VL policing entry select among their fields.              *)
(***************************************************************************)
TableNames ==
    {"schedule", "schedule_entry_points", "vl_lookup", "vl_policing", "vl_forwarding",
     "l2_lookup", "l2_policing", "vlan_lookup", "l2_forwarding", "mac_config",
     "schedule_params", "schedule_entry_points_params", "vl_forwarding_params",
     "l2_lookup_params", "l2_forwarding_params", "avb_params", "general_params",
     "xmii_params", "sgmii"}

Layout(t, p, fmt, type) ==
    CASE t = "schedule" -> schedule
      [] t = "schedule_entry_points" -> schedule_entry_points
      [] t = "vl_lookup" -> vl_lookup(fmt)
      [] t = "vl_policing" -> vl_policing(type)
      [] t = "vl_forwarding" -> vl_forwarding
      [] t = "l2_lookup" -> IF p THEN l2_lookup_pqrs ELSE l2_lookup_et
      [] t = "l2_policing" -> l2_policing
      [] t = "vlan_lookup" -> vlan_lookup
      [] t = "l2_forwarding" -> l2_forwarding
      [] t = "mac_config" -> IF p THEN mac_config_pqrs ELSE mac_config_et
      [] t = "schedule_params" -> schedule_params
      [] t = "schedule_entry_points_params" -> schedule_entry_points_params
      [] t = "vl_forwarding_params" -> vl_forwarding_params
      [] t = "l2_lookup_params" -> IF p THEN l2_lookup_params_pqrs ELSE l2_lookup_params_et
      [] t = "l2_forwarding_params" -> l2_forwarding_params
      [] t = "avb_params" -> IF p THEN avb_params_pqrs ELSE avb_params_et
      [] t = "general_params" -> IF p THEN general_params_pqrs ELSE general_params_et
      [] t = "xmii_params" -> xmii_params
      [] t = "sgmii" -> sgmii

(***************************************************************************)
(* SIZE_*_ENTRY of static-config.h, in bytes.                              *)
(***************************************************************************)
Size(t, p) ==
    CASE t \in {"schedule_entry_points", "vl_forwarding", "xmii_params",
                "schedule_entry_points_params"} -> 4
      [] t \in {"schedule", "vl_policing", "l2_policing", "vlan_lookup", "l2_forwarding"} -> 8
      [] t \in {"vl_lookup", "schedule_params", "vl_forwarding_params",
                "l2_forwarding_params"} -> 12
      [] t = "l2_lookup" -> IF p THEN 20 ELSE 12
      [] t = "mac_config" -> IF p THEN 32 ELSE 28
      [] t = "l2_lookup_params" -> IF p THEN 16 ELSE 4
      [] t = "avb_params" -> IF p THEN 16 ELSE 12
      [] t = "general_params" -> IF p THEN 44 ELSE 40
      [] t = "sgmii" -> 144

(***************************************************************************)
(* The fields of struct sja1105_*_entry: those of both devices.            *)
(***************************************************************************)
Fields(t) ==
    Ids(Layout(t, TRUE, 0, {})) \cup Ids(Layout(t, FALSE, 0, {}))

-----------------------------------------------------------------------------
(***************************************************************************)
(* Packing: the buffer is cleared and the fields are stored one after the  *)
(* other, so a bit belongs to the last field that covers it.  gtable_pack  *)
(* cuts a value that is too wide.                                          *)
(***************************************************************************)
Bits(f) == f.end..f.start

\* Mutant: a value that is too wide is not cut.
Pack_Uncut(layout, entry) ==
    LET Later(i) == UNION {Bits(layout[j]) : j \in i + 1..Len(layout)}
    IN  UNION {{layout[i].end + v : v \in entry[layout[i].id]} \ Later(i) : i \in DOMAIN layout}

Pack(layout, entry) ==
    LET Later(i) == UNION {Bits(layout[j]) : j \in i + 1..Len(layout)}
    IN  UNION {({layout[i].end + v : v \in entry[layout[i].id]} \cap Bits(layout[i]))
                  \ Later(i) : i \in DOMAIN layout}

(***************************************************************************)
(* Unpacking: the structure is cleared, then every field is read.  A field *)
(* of the structure that the layout does not hold reads as 0.              *)
(***************************************************************************)
Unpack(layout, bits, ids) ==
    [id \in ids |->
        UNION {{b - layout[i].end : b \in bits \cap Bits(layout[i])} :
               i \in {k \in DOMAIN layout : layout[k].id = id}}]

(***************************************************************************)
(* What storing in a layout does to an entry: too wide values are cut,     *)
(* fields that the layout does not hold are lost.                          *)
(***************************************************************************)
Stored(layout, entry) ==
    [id \in DOMAIN entry |->
        UNION {entry[id] \cap 0..Width(layout[i]) - 1 :
               i \in {k \in DOMAIN layout : layout[k].id = id}}]

Disjoint(layout) ==
    \A i, j \in DOMAIN layout :
        i # j => layout[i].id # layout[j].id /\ Bits(layout[i]) \cap Bits(layout[j]) = {}
=============================================================================
