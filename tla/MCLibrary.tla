----------------------------- MODULE MCLibrary -----------------------------
(***************************************************************************)
(* Small instances of Library.  A clock has 3 bits and a timestamp 2, a    *)
(* tick is 3 ns, a 64-bit register loses its top bit for its top byte; a   *)
(* double has 4 fraction bits and PTPCLKRATE one integer and one fraction *)
(* bit (the doubles above 1 are even).                                     *)
(***************************************************************************)
EXTENDS Library, TLC

CONSTANTS a1, a2

MCOne == 32
Doubles == {r \in -1..66 : r < MCOne \/ r % 2 = 0}
Periods == {0, 5, 8, 9, 11, 12, 13, 17}

ClockCalls ==
    {[op |-> "clk_set", ns |-> 13], [op |-> "clk_set", ns |-> 11], [op |-> "clk_add", ns |-> 6], [op |-> "clk_add", ns |-> -3]}
Sources == {[op |-> "corrclk4ts_set", source |-> c] : c \in Clocks}
Plain == {[op |-> o] : o \in (CommandOps \ {"corrclk4ts_set"}) \cup {"qbv_running", "clk_get", "ts_clk_get"}}
Times(o) == {[op |-> o, ns |-> t] : t \in Periods}
Rates == {[op |-> "clk_rate_set", ratio |-> r] : r \in Doubles}
Gets == {[op |-> "mgmt_route_get", index |-> i] : i \in Routes}
Sets == {[op |-> "mgmt_route_set", index |-> i, entry |-> e] : i \in Routes, e \in {"e1", "e2"}}
Shapes == {[op |-> "cbs_commit", index |-> i, slopes |-> s, bound |-> "queue"] :
             i \in Shapers, s \in {"s1", "s2"}}

MCWorkloads ==
    { a1 :> {[op |-> "ts_poll", source |-> "ptpclk"], [op |-> "corrclk4ts_set", source |-> "ptpclk"]}
        @@ a2 :> {[op |-> "clk_add", ns |-> 6]},
      a1 :> {[op |-> "ts_poll", source |-> "ptptsclk"]}
        @@ a2 :> {[op |-> "reset"], [op |-> "corrclk4ts_set", source |-> "ptpclk"]},
      a1 :> ClockCalls @@ a2 :> ClockCalls \cup Sources,
      a1 :> Plain @@ a2 :> Plain,
      a1 :> Gets \cup Sets @@ a2 :> Gets \cup Sets,
      a1 :> Shapes @@ a2 :> Shapes }
      \cup {a1 :> Times(o) @@ a2 :> Rates : o \in DOMAIN RegisterOf \ {"clk_rate_set"}}
=============================================================================
