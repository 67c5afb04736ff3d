------------------------------ MODULE MCFlush ------------------------------
(***************************************************************************)
(* Small instances of Flush: two ports, tables with a maximum of two       *)
(* entries where the code has hundreds, and a handful of configurations    *)
(* that take every branch.                                                 *)
(***************************************************************************)
EXTENDS Flush

MCMaxCount ==
    [t \in Tables |->
       CASE t = "mac_config" -> NumPorts
         [] t \in {"l2_forwarding", "schedule", "schedule_entry_points",
                   "vl_lookup", "vl_policing", "vl_forwarding", "l2_lookup",
                   "l2_policing", "vlan_lookup"} -> 2
         [] OTHER -> 1]

\* A value for every port, from a list that starts again when it ends.
PerPort(list) == [i \in 1..NumPorts |-> list[((i - 1) % Len(list)) + 1]]

\* Entries with the given speeds, modes, roles (1 for a PHY) and frame
\* memory; one vlan tag to tell configurations apart.
Basic(dev, vlan, speeds, modes, roles, mem2) ==
    [dev |-> dev,
     tab |-> [t \in Tables |->
       CASE t = "l2_policing" -> << <<1>> >>
         [] t = "vlan_lookup" -> << <<vlan>> >>
         [] t = "l2_forwarding" -> << <<1>>, <<2>> >>
         [] t = "mac_config" -> [i \in 1..NumPorts |-> <<PerPort(speeds)[i]>>]
         [] t = "l2_forwarding_params" -> << <<mem2>> >>
         [] t = "general_params" -> << <<1>> >>
         [] t = "xmii_params" -> << PerPort(modes) \o PerPort(roles) >>
         [] OTHER -> << >>]]

WithTable(c, t, es) == [c EXCEPT !.tab[t] = es]

Plain == Basic("T", 1, <<1, 2>>, <<2, 0>>, <<0, 1>>, 9)
WithFdb == WithTable(Basic("T", 2, <<3, 1, 2>>, <<1, 2>>, <<0>>, 9), "l2_lookup", << <<1>> >>)
AutoSpeed == Basic("T", 3, <<1, 0>>, <<2, 2>>, <<0>>, 9)
BadMode == Basic("T", 4, <<1, 1>>, <<2, 3>>, <<0>>, 9)
OtherChip == Basic("QS", 5, <<1, 1, 3>>, <<2, 3, 1, 0, 1>>, <<0, 0, 0, 0, 1>>, 9)
OtherPlain == [Plain EXCEPT !.dev = "QS"]
OtherWithFdb == WithTable(OtherChip, "l2_lookup", << <<1>> >>)
Overcommitted ==
    WithTable(Basic("T", 6, <<1, 1>>, <<2, 2>>, <<0>>, 9), "vl_forwarding_params", << <<1>> >>)
NoSchedule == WithTable(Plain, "schedule", << <<1>> >>)

Real(c) == [cfg |-> c, dry |-> FALSE]
Dry(c) == [cfg |-> c, dry |-> TRUE]

NoDeviceId == [Plain EXCEPT !.dev = NoDevice]

MCTwo == {Real(Plain), Real(WithFdb)}
MCFour == MCTwo \cup {Real(NoSchedule), Real(NoDeviceId)}
MCMore == {Real(Plain), Real(WithFdb), Real(AutoSpeed), Real(BadMode),
           Real(OtherChip), Real(OtherPlain), Real(OtherWithFdb),
           Real(NoSchedule),
           Dry(OtherChip), Dry(OtherWithFdb), Dry(Plain), Dry(AutoSpeed)}
=============================================================================
