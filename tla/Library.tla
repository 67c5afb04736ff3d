------------------------------ MODULE Library ------------------------------
(***************************************************************************)
(* Applications that call into lib/ptp, lib/dynamic-config and lib/control *)
(* while the switch runs.  The two parts share nothing but the SPI bus.    *)
(***************************************************************************)
EXTENDS Ptp, Dynamic

libraryVars == <<callVars, ptpVars, dynamicVars>>

LibraryInit == CallInit /\ PtpInit /\ DynamicInit

LibraryNext ==
    \/ \E a \in App :
         \/ PtpCall(a) /\ UNCHANGED dynamicVars
         \/ DynamicCall(a) /\ UNCHANGED ptpVars
         \/ Killed(a) /\ UNCHANGED <<ptpVars, dynamicVars>>
    \/ PtpChip /\ UNCHANGED dynamicVars

LibrarySpec == LibraryInit /\ [][LibraryNext]_libraryVars
-----------------------------------------------------------------------------
LibraryTypeOK ==
    /\ clk \in [Clocks -> 0..ClockMod - 1]
    /\ add \in BOOLEAN
    /\ source \in Clocks
    /\ egr.part \in 0..StampMod - 1
    /\ \A r \in Registers : reg[r] \in 0..(IF r \in LongRegisters THEN ClockMod ELSE WordMod) - 1
    /\ \A a \in App :
         /\ pc[a] \in {"idle", "command", "mode", "value", "register", "read", "control",
                       "stamp", "clock", "route", "window", "slopes", "shaper"}
         /\ pc[a] = "clock" => taken[a].update
=============================================================================
