----------------------------- MODULE TableEntry -----------------------------
(***************************************************************************)
(* The life of one entry of one table of the staging area, across whole    *)
(* commands: "config modify" of its own fields or of anything else, "config*)
(* save" to XML, edits of that XML by the user and "config load" of it.    *)
(* Every command that changes the staging area loads it, works on the      *)
(* structures in memory and saves it (parse-config.c); what is followed    *)
(* here is the content of one entry through that sequence.  Module         *)
(* ConfigTool models how the same commands share the file.                 *)
(*                                                                         *)
(* A device is one of the two families whose layouts differ, E/T and       *)
(* P/Q/R/S.  An integer is the set of the numbers of its 1 bits.           *)
(***************************************************************************)
EXTENDS TableFields, FiniteSets

CONSTANTS
    Followed,      \* <<table, device is a P, Q, R or S>>: the entries followed
    Values,        \* the integers given on the command line or in the XML
    FdbIndices,    \* where the FDB hash may place a static L2 lookup entry
    NoXml,         \* a value of its own: nothing exported yet
    MaxEdits(_)    \* bound: edits (of a field or of the XML) per behaviour, by table

ASSUME ValuesAssumption == \A v \in Values : v \subseteq 0..63

ASSUME FdbIndicesAssumption == \A i \in FdbIndices : i \subseteq 0..63

ASSUME FollowedAssumption == Followed \subseteq TableNames \X BOOLEAN

ASSUME MaxEditsAssumption == \A f \in Followed : MaxEdits(f[1]) \in Nat

\* No two fields of a layout share a bit, and all lie within the entry.
ASSUME LayoutsAssumption ==
    \A f \in Followed, fmt \in {0, 1}, type \in {{}, {0}} :
      LET layout == Layout(f[1], f[2], fmt, type) IN
        /\ IsLayout(layout) /\ Disjoint(layout)
        /\ \A i \in DOMAIN layout :
             /\ Bits(layout[i]) \subseteq 0..8 * Size(f[1], f[2]) - 1
             /\ f[1] = "sgmii" => Bits(layout[i]) \cap SgmiiReserved = {}

VARIABLES
    pqrs,          \* the device of the configuration is a P, Q, R or S
    table,         \* the table of the entry
    format,        \* general-parameters-table.vllupformat in the staging area
    file,          \* the packed entry in the staging area
    xml,           \* NoXml, or the exported file: format and fields present
    edits,         \* edits so far
    cmd            \* history: the last command and its outcome

vars == <<pqrs, table, format, file, xml, edits, cmd>>

-----------------------------------------------------------------------------
(***************************************************************************)
(* Reading the entry from the staging area.  A VL lookup entry is unpacked *)
(* as format 0, because the format is a field of the structure that the    *)
(* unpack has just cleared; a VL policing entry by the type in the file.   *)
(***************************************************************************)
Loaded(bits) ==
    LET type == {b - 63 : b \in bits \cap {63}}
    IN  Unpack(Layout(table, pqrs, 0, type), bits, Fields(table))

Load == Loaded(file)

(***************************************************************************)
(* The layout that packing an entry uses.  The type of a VL policing entry *)
(* is stored, and cut to its one bit, before it is tested.                 *)
(***************************************************************************)
PackLayout(entry, fmt) ==
    Layout(table, pqrs, fmt,
           IF table = "vl_policing" THEN entry[Type] \cap {0} ELSE {})

PackEntry(entry, fmt) ==
    Pack(PackLayout(entry, fmt), entry)
      \cup (IF table = "sgmii" THEN SgmiiReserved ELSE {})

(***************************************************************************)
(* sja1105_static_config_patch_fdb recomputes the index of a static L2     *)
(* lookup entry whenever the configuration is packed.  The hash and the    *)
(* position in the bin are abstracted to a choice.                         *)
(***************************************************************************)
Indexed(entry) ==
    IF table = "l2_lookup" THEN {[entry EXCEPT ![Index] = i] : i \in FdbIndices} ELSE {entry}

Save(entry, fmt) == \E e \in Indexed(entry) : file' = PackEntry(e, fmt)

\* Mutant: a list writes one element past its last value.
ModifyField_OnePast(ids, v) ==
    /\ edits < MaxEdits(table)
    /\ LET entry == Load
       IN  Save([id \in DOMAIN entry |->
                   IF id \in ids \/ <<id[1], id[2] - 1>> \in ids THEN v ELSE entry[id]],
                format)
    /\ edits' = edits + 1
    /\ cmd' = [op |-> "modify", ids |-> ids, value |-> v]
    /\ UNCHANGED <<pqrs, table, format, xml>>

(***************************************************************************)
(* "config modify <table> <name> <value>".  An array is given as a list of *)
(* up to all its elements and sets that many of the first; here the        *)
(* elements of a list are equal.                                           *)
(***************************************************************************)
ModifyField(ids, v) ==
    /\ edits < MaxEdits(table)
    /\ LET entry == Load
       IN  Save([id \in DOMAIN entry |-> IF id \in ids THEN v ELSE entry[id]], format)
    /\ edits' = edits + 1
    /\ cmd' = [op |-> "modify", ids |-> ids, value |-> v]
    /\ UNCHANGED <<pqrs, table, format, xml>>

Arguments(t) ==
    {{id \in Modifiable(t) : id[1] = last[1] /\ id[2] <= last[2]} : last \in Modifiable(t)}

Modify == \E ids \in Arguments(table), v \in Values : ModifyField(ids, v)

(***************************************************************************)
(* "config modify" of something else: the entry is loaded and saved.       *)
(***************************************************************************)
ModifyOther ==
    /\ Save(Load, format)
    /\ cmd' = [op |-> "other"]
    /\ UNCHANGED <<pqrs, table, format, xml, edits>>

(***************************************************************************)
(* "config modify general-parameters-table vllupformat".  The formats of   *)
(* the VL lookup entries were set when the staging area was loaded and are *)
(* not set again before it is saved.                                       *)
(***************************************************************************)
ModifyFormat ==
    /\ table = "vl_lookup"
    /\ edits < MaxEdits(table)
    /\ Save(Load, format)
    /\ format' = 1 - format
    /\ edits' = edits + 1
    /\ cmd' = [op |-> "format"]
    /\ UNCHANGED <<pqrs, table, xml>>

(***************************************************************************)
(* "config save".                                                          *)
(***************************************************************************)
Exported ==
    LET entry == Load
        type == IF table = "vl_policing" THEN entry[Type] ELSE {}
    IN  [format |-> format,
         fields |-> [id \in Written(table, pqrs, format, type) |-> entry[id]]]

Export ==
    /\ xml' = Exported
    /\ cmd' = [op |-> "export"]
    /\ UNCHANGED <<pqrs, table, format, file, edits>>

(***************************************************************************)
(* The user edits the XML: a value is replaced, or an element, or the last *)
(* number of an array, is deleted.                                         *)
(***************************************************************************)
EditXml ==
    /\ xml # NoXml
    /\ edits < MaxEdits(table)
    /\ edits' = edits + 1
    /\ \E id \in DOMAIN xml.fields :
          \/ \E v \in Values : xml' = [xml EXCEPT !.fields[id] = v]
          \/ /\ \A other \in DOMAIN xml.fields : other[1] = id[1] => other[2] <= id[2]
             /\ xml' = [xml EXCEPT !.fields =
                          [x \in DOMAIN xml.fields \ {id} |-> xml.fields[x]]]
    /\ cmd' = [op |-> "edit"]
    /\ UNCHANGED <<pqrs, table, format, file>>

(***************************************************************************)
(* "config load" of the XML file.  An entry starts cleared; when a         *)
(* required element is missing nothing is saved.  The format of a VL       *)
(* lookup entry is not set before it is saved.                             *)
(***************************************************************************)
Accepted ==
    LET Present(id) == id \in DOMAIN xml.fields
        type == IF Present(Type) THEN xml.fields[Type] ELSE {}
    IN  \A id \in Required(table, pqrs, type) : Present(id)

Imported ==
    LET type == IF Type \in DOMAIN xml.fields THEN xml.fields[Type] ELSE {}
        taken == Taken(table, pqrs, type) \cap DOMAIN xml.fields
    IN  [id \in Fields(table) |-> IF id \in taken THEN xml.fields[id] ELSE {}]

Import ==
    /\ xml # NoXml
    /\ IF Accepted
       THEN Save(Imported, 0) /\ format' = xml.format
       ELSE UNCHANGED <<file, format>>
    /\ cmd' = [op |-> "import", ok |-> Accepted]
    /\ UNCHANGED <<pqrs, table, xml, edits>>

(***************************************************************************)
(* A staging area saved by an earlier command, with an entry of zeros or   *)
(* of ones.                                                                *)
(***************************************************************************)
Init ==
    /\ \E f \in Followed : table = f[1] /\ pqrs = f[2]
    /\ format = 0
    /\ \E fill \in {{}, 0..63} :
          \E e \in Indexed([id \in Fields(table) |-> fill]) : file = PackEntry(e, 0)
    /\ xml = NoXml
    /\ edits = 0
    /\ cmd = [op |-> "none"]

Next == Modify \/ ModifyOther \/ ModifyFormat \/ Export \/ EditXml \/ Import

Spec == Init /\ [][Next]_vars

-----------------------------------------------------------------------------
(***************************************************************************)
(* What "config upload" would send: the staging area is loaded, which sets *)
(* the formats, and packed.  Content is the meaning of those bits: the     *)
(* value of every field the layout in force holds.                         *)
(***************************************************************************)
Content(bits, fmt) ==
    LET entry == Loaded(bits)
        layout == PackLayout(entry, fmt)
        stored == Stored(layout, entry)
    IN  [id \in Ids(layout) \ {Index} |-> stored[id]]

Before == Content(file, format)
After == Content(file', format')

(***************************************************************************)
(* A value cut to the width of a field.                                    *)
(***************************************************************************)
Fitted(v, id, layout) ==
    v \cap UNION {0..Width(layout[i]) - 1 : i \in {k \in DOMAIN layout : layout[k].id = id}}

TypeOK ==
    /\ <<table, pqrs>> \in Followed
    /\ format \in {0, 1}
    /\ file \subseteq 0..8 * Size(table, pqrs) - 1
    /\ xml # NoXml => /\ xml.format \in {0, 1}
                      /\ DOMAIN xml.fields \subseteq Fields(table)
    /\ edits \in 0..MaxEdits(table)
    /\ cmd.op \in {"none", "modify", "other", "format", "export", "edit", "import"}

(***************************************************************************)
(* Setting a field changes what the switch will be given for that field,   *)
(* to the value cut to its width, and for no other: neighbours in the      *)
(* entry keep their value, although every field of the entry was unpacked  *)
(* and packed again (tables/*.c).  A field that the edit makes present     *)
(* (bag and jitter of a VL policing entry) starts at 0.                    *)
(***************************************************************************)
EditIsExact ==
    [][cmd'.op = "modify" =>
         LET before == Before
             after == After
             layout == PackLayout(Loaded(file'), format')
         IN  \A id \in DOMAIN after :
                after[id] = IF id \in cmd'.ids THEN Fitted(cmd'.value, id, layout)
                            ELSE IF id \in DOMAIN before THEN before[id] ELSE {}]_vars

(***************************************************************************)
(* A command about something else leaves the entry's meaning alone, even   *)
(* when the staging area still holds VL lookup entries packed in the       *)
(* format that was in force before vllupformat changed: unpacking as       *)
(* format 0, changing the format in memory and packing again relies on the *)
(* union (tables/vl-lookup.c:56-71, static-config.c:281-289).              *)
(***************************************************************************)
OthersKeepTheEntry ==
    [][cmd'.op \in {"other", "export", "edit"} => After = Before]_vars

(***************************************************************************)
(* The settings that the XML form of a table cannot carry: the P/Q/R/S     *)
(* fields of the L2 lookup parameters, which export does not write, and VL *)
(* lookup entries in format 1, which import does not take.                 *)
(***************************************************************************)
NotInXml ==
    \/ table = "l2_lookup_params" /\ pqrs
    \/ table = "vl_lookup" /\ format = 1

(***************************************************************************)
(* Importing an untouched export of the staging area is accepted and gives *)
(* the entry back, whatever its fields hold: the three hand-written lists  *)
(* of fields agree where they must (xml/read, xml/write).                  *)
(***************************************************************************)
ExportImportKeeps ==
    [][cmd'.op = "import" /\ xml = Exported /\ ~NotInXml
         => cmd'.ok /\ After = Before]_vars

(***************************************************************************)
(* Importing is all or nothing: a refused file leaves the staging area     *)
(* alone, and an accepted one gives every held field the value written in  *)
(* the XML, never a silent 0.  The exceptions are a short vlan_pmap        *)
(* (xml/read/l2-forward.c:53-64), a VL policing type that does not fit its *)
(* bit, and the entries that XML cannot carry.                             *)
(***************************************************************************)
ImportIsAllOrNothing ==
    [][cmd'.op = "import" =>
         IF cmd'.ok
         THEN \/ NotInXml \/ NotInXml'
              \/ table = "vl_policing" /\ ~(xml.fields[Type] \subseteq {0})
              \/ LET after == After
                     layout == PackLayout(Loaded(file'), format')
                 IN  \A id \in DOMAIN after :
                        IF id \in DOMAIN xml.fields
                        THEN after[id] = Fitted(xml.fields[id], id, layout)
                        ELSE table = "l2_forwarding" /\ after[id] = {}
         ELSE file' = file /\ format' = format]_vars
=============================================================================
