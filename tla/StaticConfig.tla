--------------------------- MODULE StaticConfig ---------------------------
(***************************************************************************)
(* struct sja1105_static_config, its packed binary form, and the checks    *)
(* made on both (lib/static-config/static-config.c).                       *)
(*                                                                         *)
(* A configuration is a device id and, for every table, the sequence of    *)
(* its entries.  An entry is the tuple of those fields a property can tell *)
(* apart: the speed of a MAC entry, the xMII mode of every port and then   *)
(* whether it is a PHY, the frame memory a parameters entry hands out;     *)
(* every other table keeps one field.                                      *)
(*                                                                         *)
(* The packed form is a sequence of units, one for the device id, each     *)
(* table header, each entry, each data CRC and the final header.  A CRC is *)
(* the data it covers: a CRC unit matches no other data.                   *)
(***************************************************************************)
EXTENDS Integers, Sequences, SequencesExt

CONSTANTS
    NumPorts,       \* ports of the switch: 5 on every SJA1105
    MaxCount,       \* table -> the MAX_..._COUNT of static-config.h
    MaxFrameMemory  \* MAX_FRAME_MEMORY, in 128-byte blocks

DeviceIds == {"E", "T", "PR", "QS"}
NoDevice == "none"

\* Mutant: the xMII table is packed before the AVB and general parameters.
PackOrder_XmiiEarly ==
    << "schedule", "schedule_entry_points", "vl_lookup", "vl_policing",
       "vl_forwarding", "l2_lookup", "l2_policing", "vlan_lookup",
       "l2_forwarding", "mac_config", "schedule_params",
       "schedule_entry_points_params", "vl_forwarding_params",
       "l2_forwarding_params", "xmii_params", "general_params",
       "l2_lookup_params", "avb_params", "sgmii" >>

\* The tables, in the order pack writes them.
PackOrder ==
    << "schedule", "schedule_entry_points", "vl_lookup", "vl_policing",
       "vl_forwarding", "l2_lookup", "l2_policing", "vlan_lookup",
       "l2_forwarding", "mac_config", "schedule_params",
       "schedule_entry_points_params", "vl_forwarding_params",
       "l2_lookup_params", "l2_forwarding_params", "avb_params",
       "general_params", "xmii_params", "sgmii" >>

Tables == {PackOrder[i] : i \in DOMAIN PackOrder}

ASSUME NumPortsAssumption == NumPorts \in Nat \ {0}
ASSUME MaxCountAssumption == MaxCount \in [Tables -> Nat \ {0}]
ASSUME MaxFrameMemoryAssumption == MaxFrameMemory \in Nat

Entry == Seq(Nat)
Config == [dev : DeviceIds \cup {NoDevice}, tab : [Tables -> Seq(Entry)]]

IsET(d) == d \in {"E", "T"}
IsPQRS(d) == d \in {"PR", "QS"}

EmptyConfig(d) == [dev |-> d, tab |-> [t \in Tables |-> << >>]]

\* An entry all of whose fields are zero, as memset leaves it.
ZeroEntry(t) ==
    IF t = "xmii_params" THEN [i \in 1..2 * NumPorts |-> 0] ELSE <<0>>

Count(c, t) == Len(c.tab[t])
-----------------------------------------------------------------------------
(***************************************************************************)
(* sja1105_static_config_check_memory_size and _check_valid                *)
(***************************************************************************)
FrameMemory(c) ==
    c.tab["l2_forwarding_params"][1][1]
    + IF Count(c, "vl_forwarding_params") > 0
      THEN c.tab["vl_forwarding_params"][1][1] ELSE 0

Full(c, t) == Count(c, t) = MaxCount[t]

\* Mutant: the xMII table is not mandatory.
CheckValid_NoXmii(c) ==
    /\ Count(c, "l2_policing") > 0
    /\ Count(c, "vlan_lookup") > 0
    /\ \A t \in {"l2_forwarding", "mac_config", "l2_forwarding_params",
                 "general_params"} : Full(c, t)
    /\ FrameMemory(c) <= MaxFrameMemory

CheckValid(c) ==
    /\ Count(c, "schedule") > 0 =>
         /\ Count(c, "schedule_entry_points") > 0
         /\ Full(c, "schedule_params")
         /\ Full(c, "schedule_entry_points_params")
    /\ Count(c, "vl_lookup") > 0 =>
         /\ Count(c, "vl_policing") > 0
         /\ Count(c, "vl_forwarding") > 0
         /\ Full(c, "vl_forwarding_params")
    /\ Count(c, "l2_policing") > 0
    /\ Count(c, "vlan_lookup") > 0
    /\ \A t \in {"l2_forwarding", "mac_config", "l2_forwarding_params",
                 "general_params", "xmii_params"} : Full(c, t)
    /\ FrameMemory(c) <= MaxFrameMemory
-----------------------------------------------------------------------------
(***************************************************************************)
(* sja1105_static_config_pack.  A table without entries is not written;    *)
(* the final header has length zero.                                       *)
(***************************************************************************)
PackTable(t, es) ==
    IF es = << >> THEN << >>
    ELSE << [k |-> "hdr", t |-> t, n |-> Len(es)] >>
         \o [i \in DOMAIN es |-> [k |-> "ent", e |-> es[i]]]
         \o << [k |-> "crc", of |-> es] >>

FinalHeader == [k |-> "end"]

\* Mutant: the final header is only added for the upload.
Pack_NoFinalHeader(c) ==
    << [k |-> "dev", d |-> c.dev] >>
    \o FlattenSeq([i \in DOMAIN PackOrder |->
                     PackTable(PackOrder[i], c.tab[PackOrder[i]])])

Pack(c) ==
    << [k |-> "dev", d |-> c.dev] >>
    \o FlattenSeq([i \in DOMAIN PackOrder |->
                     PackTable(PackOrder[i], c.tab[PackOrder[i]])])
    \o << FinalHeader >>

(***************************************************************************)
(* sja1105_static_config_unpack.  The function is given no length, so past *)
(* the end of what was read it sees the memory malloc returned: a header   *)
(* read there is the final header when that memory is zero, and fails its  *)
(* CRC otherwise; entries and a data CRC read there do not match.          *)
(***************************************************************************)
Bad == [ok |-> FALSE, tabs |-> << >>]

\* add_entry appends while count <= MAX, so it lets one entry too many in.
FitsTable(t, n) == n <= MaxCount[t] + 1

\* The entries of a table whose header is unit i of buf.
EntriesAt(buf, i) == [j \in 1..buf[i].n |-> buf[i + j].e]

TableIntact(buf, i) ==
    LET last == i + buf[i].n + 1 IN
    /\ last <= Len(buf)
    /\ \A j \in (i + 1)..(last - 1) : buf[j].k = "ent"
    /\ buf[last].k = "crc"
    /\ buf[last].of = EntriesAt(buf, i)

\* What the parse loop may return from unit 2 on: for each outcome whether it
\* succeeded, and the tables met.
ParsedTables(buf) ==
    LET From[i \in 2..(Len(buf) + 1)] ==
          IF i = Len(buf) + 1 THEN {Bad, [ok |-> TRUE, tabs |-> << >>]}
          ELSE IF buf[i].k = "end" THEN {[ok |-> TRUE, tabs |-> << >>]}
          ELSE IF buf[i].k = "hdr" /\ TableIntact(buf, i)
          THEN { IF r.ok
                 THEN [r EXCEPT !.tabs =
                         << [t |-> buf[i].t, es |-> EntriesAt(buf, i)] >> \o @]
                 ELSE Bad : r \in From[i + buf[i].n + 2] }
          ELSE {Bad}
    IN  From[2]

TableOf(tabs, t) ==
    FlattenSeq([i \in DOMAIN tabs |->
                  IF tabs[i].t = t THEN tabs[i].es ELSE << >>])

\* The configurations unpack may return, none of them when it fails.
Unpack(buf) ==
    IF buf = << >> \/ buf[1].k # "dev" \/ buf[1].d \notin DeviceIds
    THEN [may_fail |-> TRUE, configs |-> {}]
    ELSE LET rs == ParsedTables(buf)
             loaded == { [dev |-> buf[1].d,
                          tab |-> [t \in Tables |-> TableOf(r.tabs, t)]]
                         : r \in {s \in rs : s.ok} }
             fitting == {c \in loaded :
                           \A t \in Tables : FitsTable(t, Count(c, t))}
         IN  [may_fail |-> Bad \in rs \/ fitting # loaded,
              configs  |-> fitting]
=============================================================================
