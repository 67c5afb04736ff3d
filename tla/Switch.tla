------------------------------ MODULE Switch ------------------------------
(***************************************************************************)
(* The SJA1105 at the other end of the SPI bus, as far as the tool relies  *)
(* on it: a cold reset drops the configuration and the clock setup and     *)
(* opens the configuration area; the configuration loader takes the packed *)
(* configuration as a stream of messages and, after the last one, either   *)
(* runs it or raises an error bit; the status register reports which.      *)
(* None of it is code of the repository.                                   *)
(***************************************************************************)
EXTENDS StaticConfig

CONSTANTS
    HwDevice,       \* device id of the chip on the board
    ChunkUnits      \* units of a packed configuration in one SPI message

VARIABLES
    running,        \* the configuration in force, or None
    load,           \* the stream received since the last cold reset
    clk,            \* what each port's clock (CGU) is set up for, or Unset
    inhibited,      \* egress of all ports inhibited
    busy            \* L2BUSYS: address lookup memory still initialising

hwVars == <<running, load, clk, inhibited, busy>>

Ports == 1..NumPorts
None == [dev |-> NoDevice]
Unset == << >>
NoLoad == [cfg |-> None, got |-> 0, bad |-> FALSE, ids |-> FALSE]

ASSUME HwDeviceAssumption == HwDevice \in DeviceIds
ASSUME ChunkUnitsAssumption == ChunkUnits \in Nat \ {0}

\* Number of messages sja1105_spi_send_long_packed_buf cuts a packed
\* configuration into.
Chunks(c) == (Len(Pack(c)) + ChunkUnits - 1) \div ChunkUnits

\* A register write to the egress port mask.
InhibitEgress ==
    /\ inhibited' = TRUE
    /\ UNCHANGED <<running, load, clk, busy>>

\* A cold reset through the Reset Generation Unit.
TakeColdReset ==
    /\ running' = None
    /\ load' = NoLoad
    /\ clk' = [i \in Ports |-> Unset]
    /\ inhibited' = FALSE
    /\ busy' = TRUE

\* Message n (from 0) of configuration c arrives.  A message that does not
\* continue the stream spoils it until the next reset; a complete stream for
\* another device id is refused.  A switch that runs takes no configuration.
TakeChunk(c, n) ==
    /\ IF running # None \/ load.bad \/ load.ids
       THEN UNCHANGED <<running, load>>
       ELSE IF n # load.got \/ (n > 0 /\ c # load.cfg)
       THEN load' = [load EXCEPT !.bad = TRUE] /\ UNCHANGED running
       ELSE IF n + 1 < Chunks(c)
       THEN load' = [load EXCEPT !.cfg = c, !.got = n + 1] /\ UNCHANGED running
       ELSE /\ load' = [load EXCEPT !.cfg = c, !.got = n + 1,
                                    !.ids = c.dev # HwDevice]
            /\ running' = IF c.dev = HwDevice THEN c ELSE None
    /\ UNCHANGED <<clk, inhibited, busy>>

\* The CGU registers of one port are written.
SetClock(i, setting) ==
    /\ clk' = [clk EXCEPT ![i] = setting]
    /\ UNCHANGED <<running, load, inhibited, busy>>

\* The general status area, as static_config_flush reads it.
Status ==
    [ l2busys |-> busy,
      ids     |-> load.ids,
      crcchkl |-> load.bad,
      crcchkg |-> load.bad,
      configs |-> running # None ]

\* The address lookup memory finishes initialising.
GetReady ==
    /\ busy
    /\ busy' = FALSE
    /\ UNCHANGED <<running, load, clk, inhibited>>
=============================================================================
