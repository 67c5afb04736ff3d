---------------------------- MODULE MCTableEntry ----------------------------
(***************************************************************************)
(* Small instances of TableEntry: every table the tool knows, on both      *)
(* device families where its layout depends on the family, and the values  *)
(* 0, all ones (too wide for every field) and every odd bit (0 in a field  *)
(* of one bit, and different at any shift by one).  The tables whose       *)
(* fields depend on one another get more edits than the rest.              *)
(***************************************************************************)
EXTENDS TableEntry

MCByDevice ==
    {"l2_lookup", "mac_config", "l2_lookup_params", "avb_params", "general_params"}
MCFollowed == (TableNames \X {FALSE}) \cup (MCByDevice \X {TRUE})

MCOdd == {b \in 0..63 : b % 2 = 1}
MCValues == {{}, 0..63, MCOdd}
MCFdbIndices == {{}, {0}}
MCMaxEdits(t) == IF t \in {"vl_policing", "vl_lookup"} THEN 2 ELSE 1
=============================================================================
