----------------------------- MODULE TableFields -----------------------------
(***************************************************************************)
(* Which fields of a table entry each front end of the tool handles: what  *)
(* "config modify" can set, what exporting to XML writes and what          *)
(* importing from XML reads.  The C code spells every list out by hand,    *)
(* once per table in config-modify.c, in xml/write and in xml/read; none   *)
(* is derived from the layout that decides what reaches the switch.        *)
(*                                                                         *)
(* Lists are given as sets of field identifiers.  Where a C list names     *)
(* exactly the fields of the table's layout, the set says so.              *)
(***************************************************************************)
EXTENDS TableLayout

Index == <<"index", 0>>
Type  == <<"type", 0>>
BagAndJitter == {<<"bag", 0>>, <<"jitter", 0>>}

(***************************************************************************)
(* config-modify.c: the options[] of each *_table_entry_modify.  They do   *)
(* not depend on the device: a P/Q/R/S field can be set on E/T, where it   *)
(* is not stored.  The two union halves of a VL lookup entry are the same  *)
(* memory, so the names of format 1 add nothing to those of format 0.      *)
(***************************************************************************)
schedule_modify == Ids(schedule)
schedule_entry_points_modify == Ids(schedule_entry_points)
l2_lookup_modify == Ids(l2_lookup_pqrs) \ {Index}
l2_policing_modify == Ids(l2_policing)
vlan_lookup_modify == Ids(vlan_lookup)
l2_forwarding_modify == Ids(l2_forwarding)
mac_config_modify == Ids(mac_config_pqrs)
schedule_params_modify == Ids(schedule_params)
schedule_entry_points_params_modify == Ids(schedule_entry_points_params)
l2_lookup_params_modify == Ids(l2_lookup_params_et) \cup Ids(l2_lookup_params_pqrs)
l2_forwarding_params_modify == Ids(l2_forwarding_params)
general_params_modify == Ids(general_params_pqrs)
xmii_params_modify == Ids(xmii_params)
sgmii_modify == Ids(sgmii)
vl_lookup_modify == Ids(vl_lookup(0))
vl_policing_modify == Ids(vl_policing({}))
vl_forwarding_modify == Ids(vl_forwarding)
avb_params_modify == Ids(avb_params_pqrs)
vl_forwarding_params_modify == Ids(vl_forwarding_params)

(***************************************************************************)
(* xml/write: the elements that each *_table_write puts under <entry>.     *)
(***************************************************************************)
schedule_write == Ids(schedule)
schedule_entry_points_write == Ids(schedule_entry_points)
l2_lookup_write(pqrs) == Ids(IF pqrs THEN l2_lookup_pqrs ELSE l2_lookup_et) \ {Index}
l2_policing_write == Ids(l2_policing)
vlan_lookup_write == Ids(vlan_lookup)
l2_forwarding_write == Ids(l2_forwarding)
mac_config_write == Ids(mac_config_pqrs)
schedule_params_write == Ids(schedule_params)
schedule_entry_points_params_write == Ids(schedule_entry_points_params)
l2_lookup_params_write == Ids(l2_lookup_params_et)
l2_forwarding_params_write == Ids(l2_forwarding_params)
general_params_write == Ids(general_params_pqrs)
xmii_params_write == Ids(xmii_params)
sgmii_write == Ids(sgmii)
vl_lookup_write(format) == Ids(vl_lookup(format))
vl_policing_write(type) == Ids(vl_policing(type))
vl_forwarding_write == Ids(vl_forwarding)
\* Mutant: a field forgotten in the writer.
avb_params_write_NoCas == Ids(avb_params_pqrs) \ {<<"cas_master", 0>>}
avb_params_write == Ids(avb_params_pqrs)
vl_forwarding_params_write == Ids(vl_forwarding_params)

(***************************************************************************)
(* xml/read: the elements that each entry_get asks for.  A missing one, or *)
(* an array with a missing element, makes the entry, the table and the     *)
(* import fail.                                                            *)
(***************************************************************************)
schedule_read == Ids(schedule)
schedule_entry_points_read == Ids(schedule_entry_points)
l2_lookup_read(pqrs) == Ids(IF pqrs THEN l2_lookup_pqrs ELSE l2_lookup_et) \ {Index}
l2_policing_read == Ids(l2_policing)
vlan_lookup_read == Ids(vlan_lookup)
mac_config_read == Ids(mac_config_pqrs)
schedule_params_read == Ids(schedule_params)
schedule_entry_points_params_read == Ids(schedule_entry_points_params)
l2_lookup_params_read == Ids(l2_lookup_params_et)
l2_forwarding_params_read == Ids(l2_forwarding_params)
\* Mutant: a field forgotten in the reader.
general_params_read_NoTpid2 == Ids(general_params_pqrs) \ {<<"tpid2", 0>>}
general_params_read == Ids(general_params_pqrs)
xmii_params_read == Ids(xmii_params)
sgmii_read == Ids(sgmii)
vl_forwarding_read == Ids(vl_forwarding)
avb_params_read == Ids(avb_params_pqrs)
vl_forwarding_params_read == Ids(vl_forwarding_params)

(***************************************************************************)
(* The reader of the L2 forwarding table reports a vlan_pmap of fewer than *)
(* 8 elements, but its error path returns 0 unless a read itself failed:   *)
(* only the first element is really required.                              *)
(***************************************************************************)
l2_forwarding_read ==
    {id \in Ids(l2_forwarding) : id[2] = 0}

(***************************************************************************)
(* The reader of the VL lookup table looks at entry->format, which it has  *)
(* just cleared: it always asks for the fields of format 0.                *)
(***************************************************************************)
vl_lookup_read == Ids(vl_lookup(0))

(***************************************************************************)
(* The reader of the VL policing table tests the type as the XML gives it, *)
(* before any truncation to its one bit.                                   *)
(***************************************************************************)
vl_policing_read(type) == Ids(vl_policing(type))

-----------------------------------------------------------------------------
(***************************************************************************)
(* The dispatch of each front end on the name of the table.                *)
(***************************************************************************)
Modifiable(t) ==
    CASE t = "schedule" -> schedule_modify
      [] t = "schedule_entry_points" -> schedule_entry_points_modify
      [] t = "vl_lookup" -> vl_lookup_modify
      [] t = "vl_policing" -> vl_policing_modify
      [] t = "vl_forwarding" -> vl_forwarding_modify
      [] t = "l2_lookup" -> l2_lookup_modify
      [] t = "l2_policing" -> l2_policing_modify
      [] t = "vlan_lookup" -> vlan_lookup_modify
      [] t = "l2_forwarding" -> l2_forwarding_modify
      [] t = "mac_config" -> mac_config_modify
      [] t = "schedule_params" -> schedule_params_modify
      [] t = "schedule_entry_points_params" -> schedule_entry_points_params_modify
      [] t = "vl_forwarding_params" -> vl_forwarding_params_modify
      [] t = "l2_lookup_params" -> l2_lookup_params_modify
      [] t = "l2_forwarding_params" -> l2_forwarding_params_modify
      [] t = "avb_params" -> avb_params_modify
      [] t = "general_params" -> general_params_modify
      [] t = "xmii_params" -> xmii_params_modify
      [] t = "sgmii" -> sgmii_modify

(***************************************************************************)
(* The elements that exporting an entry writes.                            *)
(***************************************************************************)
Written(t, p, fmt, type) ==
    CASE t = "schedule" -> schedule_write
      [] t = "schedule_entry_points" -> schedule_entry_points_write
      [] t = "vl_lookup" -> vl_lookup_write(fmt)
      [] t = "vl_policing" -> vl_policing_write(type)
      [] t = "vl_forwarding" -> vl_forwarding_write
      [] t = "l2_lookup" -> l2_lookup_write(p)
      [] t = "l2_policing" -> l2_policing_write
      [] t = "vlan_lookup" -> vlan_lookup_write
      [] t = "l2_forwarding" -> l2_forwarding_write
      [] t = "mac_config" -> mac_config_write
      [] t = "schedule_params" -> schedule_params_write
      [] t = "schedule_entry_points_params" -> schedule_entry_points_params_write
      [] t = "vl_forwarding_params" -> vl_forwarding_params_write
      [] t = "l2_lookup_params" -> l2_lookup_params_write
      [] t = "l2_forwarding_params" -> l2_forwarding_params_write
      [] t = "avb_params" -> avb_params_write
      [] t = "general_params" -> general_params_write
      [] t = "xmii_params" -> xmii_params_write
      [] t = "sgmii" -> sgmii_write

(***************************************************************************)
(* The elements that importing an entry asks for, and those it takes.      *)
(***************************************************************************)
Required(t, p, type) ==
    CASE t = "schedule" -> schedule_read
      [] t = "schedule_entry_points" -> schedule_entry_points_read
      [] t = "vl_lookup" -> vl_lookup_read
      [] t = "vl_policing" -> vl_policing_read(type)
      [] t = "vl_forwarding" -> vl_forwarding_read
      [] t = "l2_lookup" -> l2_lookup_read(p)
      [] t = "l2_policing" -> l2_policing_read
      [] t = "vlan_lookup" -> vlan_lookup_read
      [] t = "l2_forwarding" -> l2_forwarding_read
      [] t = "mac_config" -> mac_config_read
      [] t = "schedule_params" -> schedule_params_read
      [] t = "schedule_entry_points_params" -> schedule_entry_points_params_read
      [] t = "vl_forwarding_params" -> vl_forwarding_params_read
      [] t = "l2_lookup_params" -> l2_lookup_params_read
      [] t = "l2_forwarding_params" -> l2_forwarding_params_read
      [] t = "avb_params" -> avb_params_read
      [] t = "general_params" -> general_params_read
      [] t = "xmii_params" -> xmii_params_read
      [] t = "sgmii" -> sgmii_read

Taken(t, p, type) ==
    IF t = "l2_forwarding" THEN Ids(l2_forwarding) ELSE Required(t, p, type)
=============================================================================
