------------------------------ MODULE XmlRead ------------------------------
(***************************************************************************)
(* Reading a configuration from an XML file (tool/config-xml-read.c and    *)
(* the *_table_parse of tool/xml/read).  A document is the sequence of the *)
(* sections below its root; text between elements, which the reader skips, *)
(* is left out.  Which fields an entry needs is in TableFields: here an    *)
(* entry that its reader refuses is one without fields.                    *)
(*                                                                         *)
(* An address in l2_lookup has, after the field of every chip, one that    *)
(* only the P/Q/R/S family has; a field that is not there is 0.            *)
(***************************************************************************)
EXTENDS StaticConfig

CONSTANTS
    XmlFiles,       \* the XML files there are: name -> [root, sections]
    Leftovers       \* configurations the stack may hold, see Imported

ASSUME LeftoversAssumption == Leftovers \subseteq Config

DeviceNode(dev) == [kind |-> "device-id", dev |-> dev]
StaticNode(tables) == [kind |-> "static", tables |-> tables]
UnknownNode == [kind |-> "unknown"]
TableNode(t, entries) == [t |-> t, entries |-> entries]
Incomplete == << >>

XmlTable == [t : STRING, entries : Seq(Entry)]
XmlSection ==
    [kind : {"device-id"}, dev : DeviceIds \cup {NoDevice}]
    \cup [kind : {"static"}, tables : Seq(XmlTable)]
    \cup [kind : {"unknown"}]

ASSUME XmlFilesAssumption ==
    \A name \in DOMAIN XmlFiles :
      XmlFiles[name] \in [root : BOOLEAN, sections : Seq(XmlSection)]

Kind(doc, k) == {i \in DOMAIN doc.sections : doc.sections[i].kind = k}

(***************************************************************************)
(* The state of parse_root: rc, the sections met, and whether it is on its *)
(* way out.                                                                *)
(***************************************************************************)
StartXml ==
    [cfg |-> EmptyConfig(NoDevice), rc |-> "ok", out |-> FALSE,
     static_config_parsed |-> FALSE, device_id_parsed |-> FALSE]

GoOut(st) == [st EXCEPT !.rc = "error", !.out = TRUE]

\* Which fields an address has is looked up in the device id met so far.
Fields(t, e, dev) == IF t = "l2_lookup" /\ ~IsPQRS(dev) THEN << e[1] >> ELSE e

\* parse_entry of every table.
ParseEntry(st, t, e) ==
    IF st.out THEN st
    ELSE IF e = Incomplete \/ Count(st.cfg, t) >= MaxCount[t] THEN GoOut(st)
    ELSE [st EXCEPT !.cfg.tab[t] = Append(@, Fields(t, e, st.cfg.dev))]

\* parse_config_table; the clock synchronization table and tables that are
\* not known are skipped.
ParseTable(st, table) ==
    IF table.t \notin Tables THEN st
    ELSE FoldLeft(LAMBDA s, e : ParseEntry(s, table.t, e), st, table.entries)

\* Every device-id section is answered with the last one below the root.
DeviceId(doc) == doc.sections[CHOOSE i \in Kind(doc, "device-id") :
                                \A j \in Kind(doc, "device-id") : j <= i].dev

Met(st, flag) ==
    IF st.out THEN st ELSE [st EXCEPT ![flag] = TRUE, !.rc = "ok"]

\* Mutant: a static section that cannot be parsed does not end the reading.
ParseSection_GoesOn(doc, st, section) ==
    IF st.out THEN st
    ELSE CASE section.kind = "static" ->
                LET parsed == FoldLeft(ParseTable, st, section.tables)
                IN  Met([parsed EXCEPT !.out = FALSE], "static_config_parsed")
           [] section.kind = "device-id" ->
                Met([st EXCEPT !.cfg.dev = DeviceId(doc)], "device_id_parsed")
           [] OTHER -> [st EXCEPT !.rc = "error"]

(***************************************************************************)
(* One turn of the loop of parse_root.  A section that is not known sets   *)
(* rc and goes on, so that the next one known hides it.                    *)
(***************************************************************************)
ParseSection(doc, st, section) ==
    IF st.out THEN st
    ELSE CASE section.kind = "static" ->
                Met(FoldLeft(ParseTable, st, section.tables), "static_config_parsed")
           [] section.kind = "device-id" ->
                Met([st EXCEPT !.cfg.dev = DeviceId(doc)], "device_id_parsed")
           [] OTHER -> [st EXCEPT !.rc = "error"]

ParseRoot(doc) ==
    IF ~doc.root THEN GoOut(StartXml)
    ELSE LET end == FoldLeft(LAMBDA st, s : ParseSection(doc, st, s), StartXml, doc.sections)
         IN  IF end.static_config_parsed /\ end.device_id_parsed THEN end ELSE GoOut(end)

Parsed == [name \in DOMAIN XmlFiles |-> ParseRoot(XmlFiles[name])]

(***************************************************************************)
(* What sja1105_staging_area_from_xml may leave, as a set of return code   *)
(* and configuration.  A file that is not there, or is no XML, is reported *)
(* on the console; the function returns 0 all the same, and the caller's   *)
(* configuration is what the stack holds.                                  *)
(***************************************************************************)
Imported(name) ==
    IF name \in DOMAIN XmlFiles
    THEN {[rc |-> Parsed[name].rc, cfg |-> Parsed[name].cfg]}
    ELSE [rc : {"ok"}, cfg : Leftovers]
-----------------------------------------------------------------------------
(***************************************************************************)
(* What a document describes: every entry of every section, in their       *)
(* order, with the fields the chip it names has.                           *)
(***************************************************************************)
OfTable(table, t, dev) ==
    IF table.t # t THEN << >>
    ELSE [i \in DOMAIN table.entries |-> Fields(t, table.entries[i], dev)]

OfSection(section, t, dev) ==
    IF section.kind # "static" THEN << >>
    ELSE FlattenSeq([i \in DOMAIN section.tables |-> OfTable(section.tables[i], t, dev)])

OfDocument(doc, t) ==
    FlattenSeq([i \in DOMAIN doc.sections |-> OfSection(doc.sections[i], t, DeviceId(doc))])

Described(doc) == [dev |-> DeviceId(doc), tab |-> [t \in Tables |-> OfDocument(doc, t)]]

\* The device id stands before what is read according to it.
DeviceFirst(doc) ==
    \A i \in Kind(doc, "static") : \E j \in Kind(doc, "device-id") : j < i
=============================================================================
