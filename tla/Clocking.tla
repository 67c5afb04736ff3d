------------------------------ MODULE Clocking ------------------------------
(***************************************************************************)
(* sja1105_clocking_setup register by register (clock/cgu.c with mii.c,    *)
(* rmii.c, rgmii.c and idiv.c).  Flush takes the setup of a port as one    *)
(* step; here it is the transfers it consists of, each of which may fail   *)
(* and interleave with what others do.                                     *)
(*                                                                         *)
(* Registers hold what the clock tree depends on: a divider whether it     *)
(* runs and its factor, a clock control its source, PLL1 whether it runs,  *)
(* the pads of a port that they are set up.                                *)
(***************************************************************************)
EXTENDS Flush

VARIABLES
    regs,               \* the registers written since the last cold reset
    wr                  \* writes of the port at hand that are done

clockingVars == <<vars, regs, wr>>

\* A transfer that may fail after it reached the switch may fail before, too.
ASSUME LateAssumption == "late" \in Outcomes => "lost" \in Outcomes

PhyMode(c, i) == c.tab["xmii_params"][1][NumPorts + i] = 1

CGU_ADDR == \h100000
AGU_ADDR == \h100800

\* CLKSRC_*, of port i from 1.
CLKSRC_TX_CLK(i) == 2 * (i - 1)
CLKSRC_RX_CLK(i) == 2 * (i - 1) + 1
CLKSRC_PLL0 == \h0B
CLKSRC_PLL1 == \h0E
CLKSRC_IDIV(i) == \h10 + i

Write(addr, value) == [addr |-> addr, value |-> value]

IdivConfig(i, enabled, factor) ==
    Write(CGU_ADDR + << \h0B, \h0C, \h0D, \h0E, \h0F >>[i],
          [enabled |-> enabled, factor |-> factor])

\* Mutant: the two families are taken for one another.
ClkConfig_Swapped(dev, i, et, pqrs, clksrc) ==
    Write(CGU_ADDR + (IF IsET(dev) THEN pqrs ELSE et)[i], clksrc)

ClkConfig(dev, i, et, pqrs, clksrc) ==
    Write(CGU_ADDR + (IF IsET(dev) THEN et ELSE pqrs)[i], clksrc)

MiiTxClkConfig(dev, i, clksrc) ==
    ClkConfig(dev, i, << \h13, \h1A, \h21, \h28, \h2F >>, << \h13, \h19, \h1F, \h25, \h2B >>, clksrc)
MiiRxClkConfig(dev, i) ==
    ClkConfig(dev, i, << \h14, \h1B, \h22, \h29, \h30 >>, << \h14, \h1A, \h20, \h26, \h2C >>,
              CLKSRC_RX_CLK(i))
ExtTxClkConfig(dev, i, clksrc) ==
    ClkConfig(dev, i, << \h18, \h1F, \h26, \h2D, \h34 >>, << \h17, \h1D, \h23, \h29, \h2F >>, clksrc)
ExtRxClkConfig(dev, i) ==
    ClkConfig(dev, i, << \h19, \h20, \h27, \h2E, \h35 >>, << \h18, \h1E, \h24, \h2A, \h30 >>,
              CLKSRC_IDIV(i))
RmiiRefClkConfig(dev, i) ==
    ClkConfig(dev, i, << \h15, \h1C, \h23, \h2A, \h31 >>, << \h15, \h1B, \h21, \h27, \h2D >>,
              CLKSRC_TX_CLK(i))
RgmiiTxClkConfig(dev, i, clksrc) ==
    ClkConfig(dev, i, << \h16, \h1D, \h24, \h2B, \h32 >>, << \h16, \h1C, \h22, \h28, \h2E >>, clksrc)
RgmiiPadConfig(i) == Write(AGU_ADDR + <<0, 2, 4, 6, 8>>[i], "rgmii")

PLL1 == CGU_ADDR + \h0A

\* Shared by all RMII ports in MAC mode: each of them turns it off and on again.
RmiiPllConfig == << Write(PLL1, "down"), Write(PLL1, "50MHz") >>

Only(cond, writes) == IF cond THEN writes ELSE << >>

(***************************************************************************)
(* The writes of one port, in order: mii_clocking_setup,                   *)
(* rmii_clocking_setup and rgmii_clocking_setup.                           *)
(***************************************************************************)
MiiClockingSetup(dev, i, phy) ==
    << IdivConfig(i, phy, 1),
       MiiTxClkConfig(dev, i, IF phy THEN CLKSRC_IDIV(i) ELSE CLKSRC_TX_CLK(i)),
       MiiRxClkConfig(dev, i) >>
    \o Only(phy, << ExtTxClkConfig(dev, i, CLKSRC_IDIV(i)), ExtRxClkConfig(dev, i) >>)

RmiiClockingSetup(dev, i, phy) ==
    Only(~phy, RmiiPllConfig)
    \o << IdivConfig(i, FALSE, 1), RmiiRefClkConfig(dev, i) >>
    \o Only(~phy, << ExtTxClkConfig(dev, i, CLKSRC_PLL1) >>)

RgmiiClockingSetup(dev, i, speed) ==
    << IdivConfig(i, speed # 1, IF speed = 3 THEN 10 ELSE 1),
       RgmiiTxClkConfig(dev, i, IF speed = 1 THEN CLKSRC_PLL0 ELSE CLKSRC_IDIV(i)),
       RgmiiPadConfig(i) >>

PortWrites(dev, c, i) ==
    CASE Mode(c, i) = 0 -> MiiClockingSetup(dev, i, PhyMode(c, i))
      [] Mode(c, i) = 1 -> RmiiClockingSetup(dev, i, PhyMode(c, i))
      [] Mode(c, i) = 2 -> RgmiiClockingSetup(dev, i, Speed(c, i))
-----------------------------------------------------------------------------
NeedsWrites(c, i) == Speed(c, i) \in {1, 2, 3} /\ Mode(c, i) \in {0, 1, 2}

\* The registers r with w among them.
Put(r, w) == [a \in DOMAIN r \cup {w.addr} |-> IF a = w.addr THEN w.value ELSE r[a]]

\* Mutant: dry_run is not looked at.
Stored_IgnoresDryRun(p, o, w) == regs' = IF o = "lost" THEN regs ELSE Put(regs, w)

Stored(p, o, w) == regs' = IF dry[p] \/ o = "lost" THEN regs ELSE Put(regs, w)

\* The port is done with, its last write as outcome o says.
PortDone(p, o, last) ==
    /\ IF last THEN Transfer(p, o, SetClock(idx[p], ClockSetting(mem[p], idx[p])))
       ELSE UNCHANGED hwVars
    /\ NextPort(p)
    /\ wr' = [wr EXCEPT ![p] = 0]
    /\ UNCHANGED <<mem, dry, retries, down>>

NextWrite(p) == wr' = [wr EXCEPT ![p] = @ + 1] /\ UNCHANGED vars

\* Mutant: the failure of one write does not keep the next from being sent.
ClockWrite_GoesOn(p) ==
    /\ pc[p] = "clock"
    /\ NeedsWrites(mem[p], idx[p])
    /\ LET writes == PortWrites(SetupDevice(p), mem[p], idx[p])
           n == wr[p] + 1
       IN  \E o \in Outcomes :
             /\ dry[p] => o = "ok"
             /\ Stored(p, o, writes[n])
             /\ IF n < Len(writes) THEN NextWrite(p) ELSE PortDone(p, o, TRUE)

\* Mutant: what the setup functions return is handed on to the caller.
ClockWrite_HandsOn(p) ==
    /\ pc[p] = "clock"
    /\ NeedsWrites(mem[p], idx[p])
    /\ LET writes == PortWrites(SetupDevice(p), mem[p], idx[p])
           n == wr[p] + 1
       IN  \E o \in Outcomes :
             /\ dry[p] => o = "ok"
             /\ Stored(p, o, writes[n])
             /\ IF o = "ok" /\ n < Len(writes) THEN NextWrite(p)
                ELSE IF o = "ok" THEN PortDone(p, o, TRUE)
                ELSE /\ Fail(p, "HW_LEFT_FLOATING")
                     /\ wr' = [wr EXCEPT ![p] = 0]
                     /\ UNCHANGED <<mem, dry, hwVars, flushVars>>

(***************************************************************************)
(* One write of the port at hand.  When it fails the rest of that port is  *)
(* left out; the loop over the ports does not look at what the port        *)
(* returned and goes on with the next.                                     *)
(***************************************************************************)
ClockWrite(p) ==
    /\ pc[p] = "clock"
    /\ NeedsWrites(mem[p], idx[p])
    /\ LET writes == PortWrites(SetupDevice(p), mem[p], idx[p])
           n == wr[p] + 1
       IN  \E o \in Outcomes :
             /\ dry[p] => o = "ok"
             /\ Stored(p, o, writes[n])
             /\ IF o = "ok" /\ n < Len(writes) THEN NextWrite(p)
                ELSE PortDone(p, o, n = Len(writes))

\* A port that is set up without a transfer, or refused.
ClockNoWrite(p) ==
    /\ ClockingSetup(p)
    /\ ~NeedsWrites(mem[p], idx[p])
    /\ UNCHANGED <<regs, wr>>

ResetRegisters(p) ==
    /\ ColdReset(p)
    /\ regs' = IF down'[p] THEN << >> ELSE regs
    /\ UNCHANGED wr

ClockingStep(p) ==
    \/ ClockWrite(p)
    \/ ClockNoWrite(p)
    \/ ResetRegisters(p)
    \/ /\ \/ FlushCheckValid(p) \/ InhibitTx(p) \/ PollBusy(p)
          \/ UploadRefused(p) \/ UploadChunk(p) \/ VerifyStatus(p)
       /\ UNCHANGED <<regs, wr>>

ClockingCrash(p) ==
    /\ FlushCrash(p)
    /\ wr' = [wr EXCEPT ![p] = 0]
    /\ UNCHANGED regs

ClockingInit == Init /\ regs = << >> /\ wr = [p \in Proc |-> 0]

ClockingNext ==
    \/ \E p \in Proc :
         \/ StartFlush(p) /\ UNCHANGED <<regs, wr>>
         \/ ClockingStep(p)
         \/ ClockingCrash(p)
    \/ SwitchReady /\ UNCHANGED <<regs, wr>>

ClockingSpec == ClockingInit /\ [][ClockingNext]_clockingVars

\* A started flush keeps running, whatever the switch does.
FairClockingSpec == ClockingSpec /\ \A p \in Proc : WF_clockingVars(ClockingStep(p))
-----------------------------------------------------------------------------
(***************************************************************************)
(* The chip's side: which clock arrives where, in units of 100 kHz or from *)
(* a pin.  UM10944 and UM11040 number the clock controls of a port one     *)
(* after the other, seven for each port of an E/T chip and six for each of *)
(* a P/Q/R/S chip, which lacks the fifth.                                  *)
(***************************************************************************)
Stride == IF IsET(HwDevice) THEN 7 ELSE 6
MiiTx == 0
MiiRx == 1
RmiiRef == 2
RgmiiTx == 3
ExtTx == Stride - 2
ExtRx == Stride - 1

Pin(clksrc) == <<"pin", clksrc>>
Rate(n) == <<"100 kHz", n>>
Off == Rate(0)
Divider(i) == CGU_ADDR + \h0A + i
Control(i, sink) == CGU_ADDR + \h13 + Stride * (i - 1) + sink

ClockOf(clksrc) ==
    IF clksrc < \h0A THEN Pin(clksrc)
    ELSE IF clksrc = \h0B THEN Rate(1250)
    ELSE IF clksrc = \h0E THEN IF PLL1 \in DOMAIN regs /\ regs[PLL1] = "50MHz" THEN Rate(500) ELSE Off
    ELSE LET d == Divider(clksrc - \h10) IN
         IF d \in DOMAIN regs /\ regs[d].enabled THEN Rate(250 \div regs[d].factor) ELSE Off

ClockAt(i, sink) ==
    LET control == Control(i, sink)
    IN  IF control \in DOMAIN regs THEN ClockOf(regs[control]) ELSE Off

\* The TX and RX clock pins of port i.
TxPin(i) == Pin(2 * i - 2)
RxPin(i) == Pin(2 * i - 1)

(***************************************************************************)
(* The clocks a port needs.  RGMII: the transmit clock of its speed.  RMII: the  *)
(* reference clock, which a MAC also puts out.  MII: a MAC takes both      *)
(* clocks from its pins, a PHY makes them from the 25 MHz of 100 Mbps (the *)
(* code does not look at the speed of an MII port).                        *)
(***************************************************************************)
Needs(c, i) ==
    CASE Mode(c, i) = 0 /\ PhyMode(c, i) ->
           { <<MiiTx, Rate(250)>>, <<MiiRx, RxPin(i)>>, <<ExtTx, Rate(250)>>, <<ExtRx, Rate(250)>> }
      [] Mode(c, i) = 0 /\ ~PhyMode(c, i) ->
           { <<MiiTx, TxPin(i)>>, <<MiiRx, RxPin(i)>> }
      [] Mode(c, i) = 1 ->
           { <<RmiiRef, TxPin(i)>> } \cup (IF PhyMode(c, i) THEN {} ELSE { <<ExtTx, Rate(500)>> })
      [] Mode(c, i) = 2 ->
           { <<RgmiiTx, Rate(<<1250, 250, 25>>[Speed(c, i)])>> }
      [] OTHER -> {}

(***************************************************************************)
(* A flush that returns 0 when no transfer failed leaves every port with   *)
(* the clocks its mode, its role and its speed need, whatever the ports    *)
(* set up after it wrote: the rows of a port's table of addresses are      *)
(* right for both families, and PLL1, which every RMII port turns off and  *)
(* on, runs in the end.                                                    *)
(***************************************************************************)
OkMeansEveryClockRuns ==
    \A p \in Proc : Succeeded(p) =>
      \A i \in Ports : \A n \in Needs(mem[p], i) : ClockAt(i, n[1]) = n[2]

(***************************************************************************)
(* Whatever failed: a port counts as set up only when every clock it needs *)
(* is there, those of PLL1 excepted, which a later port may have stopped   *)
(* in turning it off and failing to turn it on.  One flush at a time.      *)
(***************************************************************************)
SetUpMeansClocked ==
    \A i \in Ports : clk[i] # Unset =>
      \A n \in Needs(load.cfg, i) : n[2] = Rate(500) \/ ClockAt(i, n[1]) = n[2]

(***************************************************************************)
(* No message of a flush in dry run reaches the switch: whenever anything  *)
(* of it changes that does not change by itself, the clock registers       *)
(* included, the step is one of an invocation that is not in dry run.      *)
(* This is of every message, those that leave the invocation where it is   *)
(* too (parts of an upload, writes for a port, ports), of whatever other   *)
(* invocations do meanwhile and of what a dry run finds of earlier ones.   *)
(***************************************************************************)
DryRunIsDry ==
    [][SwitchTouched \/ regs' # regs =>
         \E p \in Proc : ~dry[p] /\ (Moved(p) \/ wr'[p] # wr[p])]_clockingVars

(***************************************************************************)
(* Register by register, the setup does what Flush says of it in one step  *)
(* per port: a failed write is not told from a port that is done.          *)
(***************************************************************************)
ImplementsFlush == Spec
=============================================================================
