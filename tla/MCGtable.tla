------------------------------ MODULE MCGtable ------------------------------
(***************************************************************************)
(* The E/T L2 lookup entry: fields of 12, 48 and 10 bits over three words  *)
(* and one of a single bit, with a field of a whole word across them, as   *)
(* table headers have.  MCRegister is a 64-bit register, as those of the   *)
(* PTP clock.                                                              *)
(***************************************************************************)
EXTENDS Fdb

MCFields == {<<95, 84>>, <<83, 36>>, <<30, 30>>, <<29, 20>>, <<95, 64>>}
MCRegister == {<<63, 0>>}
MCValues == {{}, 0..63, {b \in 0..63 : b % 3 = 1}}

\* Three entries for one address, in VLANs 1 to 3, and one for another.
MCNeighbour(vlanid, macaddr, index) ==
    [vlanid |-> vlanid, macaddr |-> macaddr, index |-> index]
MCNeighbours ==
    << MCNeighbour({0}, {}, {}), MCNeighbour({1}, {}, {0}), MCNeighbour({1, 0}, {}, {2}),
       MCNeighbour({}, {40}, 0..9) >>

\* 0x97, the usual one, and x^8 + 1.
MCPolys == {{7, 4, 2, 1, 0}, {7}}
=============================================================================
