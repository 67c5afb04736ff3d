---------------------------- MODULE MCConfigTool ----------------------------
(***************************************************************************)
(* Command lines for small instances of ConfigTool: two loads, an edit of  *)
(* a field, edits that make the configuration invalid and valid again,     *)
(* one that empties a table and one beyond the maximum of the table.       *)
(***************************************************************************)
EXTENDS ConfigTool, MCFlush, TLC

(***************************************************************************)
(* Configuration files: the one of etc/sja1105.conf, one that asks for a   *)
(* dry run after a setting that is no good, one that asks for a flush      *)
(* with every command, one with a line without "=" before it asks for a    *)
(* dry run, one whose second section is called as in the manual page, and  *)
(* one that has a setting before any section.                              *)
(***************************************************************************)
MCConfFiles ==
    [ plain |-> << Section("[spi_setup]"), Pair("device", "spidev"),
                   Pair("mode", "SPI_CPHA"), Pair("dry_run", "false"),
                   Section("[general]"), Pair("verbose", "false") >>,
      dry |-> << Section("[general]"), Pair("screen_width", "bad"),
                 Pair("dry_run", "true"), Section("[spi_setup]"),
                 Pair("speed", "bad"), Pair("auto_flush", "yes"),
                 Pair("dry_run", "true") >>,
      auto |-> << Section("[spi_setup]"), Pair("auto_flush", "true"),
                  Pair("dry_run", "true"), Pair("dry_run", "false") >>,
      torn |-> << Section("[spi_setup]"), Pair("auto_flush", "true"),
                  NoEqualSign, Pair("dry_run", "true") >>,
      cut |-> << Section("[spi_setup]"), Pair("dry_run", "true"), Section("[spi-setup]"),
                 Pair("dry_run", "false"), Pair("auto_flush", "true") >>,
      bare |-> << Pair("dry_run", "true") >> ]

NoEdit == [t |-> "sgmii", what |-> "entry", n |-> 0, e |-> << >>]
Run(name, f, cfg) ==
    [name |-> name, flush |-> f, conf |-> "plain", cfg |-> cfg, xml |-> "none", edit |-> NoEdit]
Load(f, xml) == [Run("load", f, EmptyConfig(NoDevice)) EXCEPT !.xml = xml]
Modify(f, t, what, n, e) ==
    [Run("modify", f, EmptyConfig("T")) EXCEPT
       !.edit = [t |-> t, what |-> what, n |-> n, e |-> e]]

SetField(f) == Modify(f, "vlan_lookup", "entry", 0, <<7>>)
Touch == Modify(FALSE, "vlan_lookup", "entry", 0, <<1>>)
OutOfRange == Modify(FALSE, "vlan_lookup", "entry", 1, <<7>>)
Grow(n) == Modify(FALSE, "l2_lookup", "entry-count", n, << >>)
Shrink == Modify(FALSE, "l2_policing", "entry-count", 0, << >>)

\* Longer than Plain by four and by seven units: read with the length of
\* Plain, they lose just the SGMII table, or that and the xMII table.
Longer ==
    WithTable(WithTable(Plain, "sgmii", << <<1>> >>), "vlan_lookup", << <<1>>, <<2>> >>)
WithAvb ==
    WithTable(WithTable(Plain, "avb_params", << <<2>> >>), "l2_lookup", << <<1>> >>)
Longest == WithTable(Longer, "avb_params", << <<2>> >>)

(***************************************************************************)
(* XML files: three that are sound, one of them with its tables in two     *)
(* static sections, a field its chip does not have, and a section and a    *)
(* table that are unknown; one whose second section has an entry too many, one with an incomplete      *)
(* entry before another section, one without a device id, one whose last   *)
(* section is unknown, one of another program; and one for a P/Q/R/S chip  *)
(* that names it last.                                                     *)
(***************************************************************************)
Document(sections) == [root |-> TRUE, sections |-> sections]
TablesOf(c, ts) == [i \in DOMAIN ts |-> TableNode(ts[i], c.tab[ts[i]])]
AllOf(c) == StaticNode(TablesOf(c, PackOrder))
Exported(c) == Document(<< DeviceNode(c.dev), AllOf(c) >>)
MCXmlFiles ==
    [ longer |-> Exported(Longer),
      longest |-> Exported(Longest),
      parts |-> Document(<< UnknownNode, DeviceNode("T"),
                   StaticNode(<< TableNode("retagging", << <<1>> >>),
                                 TableNode("l2_lookup", << <<1, 1>> >>) >>
                              \o TablesOf(Plain, SubSeq(PackOrder, 1, 7))),
                   StaticNode(TablesOf(WithAvb, SubSeq(PackOrder, 8, Len(PackOrder)))) >>),
      overfull |-> Document(<< DeviceNode("T"), AllOf(Plain),
                      StaticNode(<< TableNode("vlan_lookup", << <<2>>, <<3>> >>) >>) >>),
      broken |-> Document(<< DeviceNode("T"),
                    StaticNode(<< TableNode("vlan_lookup", << <<2>>, Incomplete >>) >>),
                    AllOf(Plain) >>),
      nameless |-> Document(<< AllOf(Plain) >>),
      unknown |-> Document(<< DeviceNode("T"), AllOf(Plain), UnknownNode >>),
      foreign |-> [root |-> FALSE, sections |-> << >>],
      late |-> Document(<< StaticNode(<< TableNode("l2_lookup", << <<1, 1>> >>) >>),
                  DeviceNode("QS") >>) ]
\* Memory that was never written to, and any other, for which one will do.
MCLeftovers == {EmptyConfig(NoDevice), WithAvb}

With(conf, c) == [c EXCEPT !.conf = conf]

MCCommands ==
    { Run("new", FALSE, EmptyConfig(NoDevice)),
      With("torn", Run("upload", FALSE, Plain)), Run("hexdump", FALSE, Plain),
      With("none", Run("show", FALSE, Plain)), Run("save", FALSE, Plain), OutOfRange, With("dry", SetField(TRUE)) }
    \cup { Load(TRUE, xml) : xml \in (DOMAIN MCXmlFiles \ {"longer", "longest"}) \cup {"none"} }
    \cup { With(conf, SetField(FALSE)) : conf \in {"auto", "bare"} }
    \cup { With("cut", SetField(TRUE)) }
MCOffline ==
    { Load(FALSE, "longer"), Load(FALSE, "longest"),
      Run("default", FALSE, Plain), Run("new", FALSE, EmptyConfig("T")), Touch }
MCEither == Permutations(Proc)
MCOverflow == { Run("default", FALSE, Plain), Grow(3), Grow(4) }
MCInitScript == { Run("default", FALSE, Plain), Run("hexdump", FALSE, Plain),
                  Run("upload", FALSE, Plain) }
=============================================================================
