----------------------------- MODULE MCClocking -----------------------------
(***************************************************************************)
(* Small instances of Clocking: the configurations of MCFlush on chips     *)
(* with all five ports, and one whose ports all share PLL1.                *)
(***************************************************************************)
EXTENDS Clocking, MCFlush

AllRmii == Basic("QS", 7, <<2>>, <<1>>, <<0>>, 9)
MCClocked == MCMore \cup {Real(AllRmii)}
=============================================================================
