--------------------------- MODULE ClockingProofs ---------------------------
(***************************************************************************)
(* sja1105_clocking_setup register by register: the writes do what Flush   *)
(* says in one step and go to the addresses of the data sheets; a port     *)
(* that counts as set up has the clocks it needs, and a flush that         *)
(* succeeds leaves every clock running.                                    *)
(***************************************************************************)
EXTENDS Clocking, FlushProofs

(***************************************************************************)
(* The tables of addresses in mii.c, rmii.c and rgmii.c are those of the   *)
(* data sheet, for every port and both families.                           *)
(***************************************************************************)
THEOREM TablesAreTheDataSheets ==
    ASSUME NEW i \in 1..5, NEW src
    PROVE  /\ MiiTxClkConfig(HwDevice, i, src).addr = Control(i, MiiTx)
           /\ MiiRxClkConfig(HwDevice, i).addr = Control(i, MiiRx)
           /\ RmiiRefClkConfig(HwDevice, i).addr = Control(i, RmiiRef)
           /\ RgmiiTxClkConfig(HwDevice, i, src).addr = Control(i, RgmiiTx)
           /\ ExtTxClkConfig(HwDevice, i, src).addr = Control(i, ExtTx)
           /\ ExtRxClkConfig(HwDevice, i).addr = Control(i, ExtRx)
           /\ IdivConfig(i, TRUE, 1).addr = Divider(i)
<1>1. i \in {1, 2, 3, 4, 5}
  OBVIOUS
<1>2. CASE IsET(HwDevice)
  BY <1>1, <1>2 DEF MiiTxClkConfig, MiiRxClkConfig, RmiiRefClkConfig, RgmiiTxClkConfig,
     ExtTxClkConfig, ExtRxClkConfig, IdivConfig, ClkConfig, Write, CGU_ADDR, Control,
     Divider, Stride, MiiTx, MiiRx, RmiiRef, RgmiiTx, ExtTx, ExtRx
<1>3. CASE ~IsET(HwDevice)
  BY <1>1, <1>3 DEF MiiTxClkConfig, MiiRxClkConfig, RmiiRefClkConfig, RgmiiTxClkConfig,
     ExtTxClkConfig, ExtRxClkConfig, IdivConfig, ClkConfig, Write, CGU_ADDR, Control,
     Divider, Stride, MiiTx, MiiRx, RmiiRef, RgmiiTx, ExtTx, ExtRx
<1> QED
  BY <1>2, <1>3
-----------------------------------------------------------------------------
Location == FlushLabels \cup {"idle"}

\* How far p is with the port at hand.
Progress(p) ==
    /\ pc[p] # "clock" => wr[p] = 0
    /\ pc[p] = "clock" /\ ~NeedsWrites(mem[p], idx[p]) => wr[p] = 0
    /\ pc[p] = "clock" /\ NeedsWrites(mem[p], idx[p]) =>
         wr[p] < Len(PortWrites(SetupDevice(p), mem[p], idx[p]))

ClockingInv ==
    /\ pc \in [Proc -> Location]
    /\ mem \in [Proc -> Config]
    /\ dry \in [Proc -> BOOLEAN]
    /\ idx \in [Proc -> Nat]
    /\ wr \in [Proc -> Nat]
    /\ \A p \in Proc : Progress(p)

\* Every port that is written to has at least one write.
LEMMA PortHasWrites ==
    ASSUME NEW dev, NEW c, NEW i, NeedsWrites(c, i)
    PROVE  Len(PortWrites(dev, c, i)) \in Nat \ {0}
<1> DEFINE phy == PhyMode(c, i)
           speed == Speed(c, i)
<1>1. Mode(c, i) \in {0, 1, 2}
  BY DEF NeedsWrites
<1>2. \A s : Only(TRUE, s) = s /\ Only(FALSE, s) = << >>
  BY DEF Only
<1>3. Len(MiiClockingSetup(dev, i, phy)) \in Nat \ {0}
  <2> DEFINE a == IdivConfig(i, phy, 1)
             b == MiiTxClkConfig(dev, i, IF phy THEN CLKSRC_IDIV(i) ELSE CLKSRC_TX_CLK(i))
             d == MiiRxClkConfig(dev, i)
             e == ExtTxClkConfig(dev, i, CLKSRC_IDIV(i))
             f == ExtRxClkConfig(dev, i)
  <2>1. MiiClockingSetup(dev, i, phy) = << a, b, d >> \o Only(phy, << e, f >>)
    BY DEF MiiClockingSetup
  <2> HIDE DEF a, b, d, e, f
  <2>2. Only(phy, << e, f >>) = << e, f >> \/ Only(phy, << e, f >>) = << >>
    BY DEF Only
  <2>3. Len(<< a, b, d >> \o << e, f >>) = 5 /\ Len(<< a, b, d >> \o << >>) = 3
    OBVIOUS
  <2> QED
    BY <2>1, <2>2, <2>3
<1>4. Len(RmiiClockingSetup(dev, i, phy)) \in Nat \ {0}
  <2> DEFINE a == IdivConfig(i, FALSE, 1)
             b == RmiiRefClkConfig(dev, i)
             d == ExtTxClkConfig(dev, i, CLKSRC_PLL1)
             e == Write(PLL1, "down")
             f == Write(PLL1, "50MHz")
  <2>1. RmiiClockingSetup(dev, i, phy) =
           Only(~phy, << e, f >>) \o << a, b >> \o Only(~phy, << d >>)
    BY DEF RmiiClockingSetup, RmiiPllConfig
  <2> HIDE DEF a, b, d, e, f
  <2>2. \/ Only(~phy, << e, f >>) = << e, f >> /\ Only(~phy, << d >>) = << d >>
        \/ Only(~phy, << e, f >>) = << >> /\ Only(~phy, << d >>) = << >>
    BY DEF Only
  <2>3. /\ Len(<< e, f >> \o << a, b >> \o << d >>) = 5
        /\ Len(<< >> \o << a, b >> \o << >>) = 2
    OBVIOUS
  <2> QED
    BY <2>1, <2>2, <2>3
<1>5. Len(RgmiiClockingSetup(dev, i, speed)) \in Nat \ {0}
  BY DEF RgmiiClockingSetup
<1> QED
  BY <1>1, <1>3, <1>4, <1>5 DEF PortWrites

LEMMA ClockingInvInit == ClockingInit => ClockingInv
<1>1. EmptyConfig(NoDevice) \in Config
  BY DEF EmptyConfig, Config, NoDevice
<1> QED
  BY <1>1 DEF ClockingInit, Init, ClockingInv, Progress, Location, FlushLabels

\* A step of p leaves what the other invocations have done alone.
LEMMA OthersProgress ==
    ASSUME NEW p \in Proc, NEW q \in Proc \ {p}, ClockingInv,
           pc'[q] = pc[q], mem'[q] = mem[q], dry'[q] = dry[q],
           idx'[q] = idx[q], wr'[q] = wr[q]
    PROVE  Progress(q)'
<1>1. Progress(q)
  BY DEF ClockingInv
<1>2. /\ SetupDevice(q)' = SetupDevice(q)
      /\ NeedsWrites(mem[q], idx[q])' = NeedsWrites(mem[q], idx[q])
  BY DEF SetupDevice, NeedsWrites, Speed, Mode
<1>3. PortWrites(SetupDevice(q), mem[q], idx[q])' = PortWrites(SetupDevice(q), mem[q], idx[q])
  <2> DEFINE W(dev, c, i) == PortWrites(dev, c, i)
  <2>1. W(SetupDevice(q), mem[q], idx[q])' = W(SetupDevice(q)', mem'[q], idx'[q])
    OBVIOUS
  <2> QED
    BY <1>2, <2>1
<1> QED
  BY <1>1, <1>2, <1>3 DEF Progress

LEMMA PortStarts ==
    ASSUME ClockingInv, NEW p \in Proc,
           pc' \in [Proc -> Location], mem' \in [Proc -> Config],
           dry' \in [Proc -> BOOLEAN], idx' \in [Proc -> Nat], wr' \in [Proc -> Nat],
           \A q \in Proc \ {p} :
              /\ pc'[q] = pc[q] /\ mem'[q] = mem[q] /\ dry'[q] = dry[q]
              /\ idx'[q] = idx[q] /\ wr'[q] = wr[q],
           wr'[p] = 0
    PROVE  ClockingInv'
<1>1. ASSUME NEW q \in Proc \ {p}
      PROVE  Progress(q)'
  BY OthersProgress
<1>2. Progress(p)'
  <2>1. ASSUME NeedsWrites(mem[p], idx[p])'
        PROVE  0 < Len(PortWrites(SetupDevice(p), mem[p], idx[p]))'
    <3>1. NeedsWrites(mem'[p], idx'[p])
      BY <2>1 DEF NeedsWrites, Speed, Mode
    <3>2. \A dev : Len(PortWrites(dev, mem'[p], idx'[p])) \in Nat \ {0}
      BY <3>1, PortHasWrites
    <3>3. Len(PortWrites(SetupDevice(p), mem[p], idx[p]))' =
            Len(PortWrites(SetupDevice(p)', mem'[p], idx'[p]))
      OBVIOUS
    <3> QED
      BY <3>2, <3>3
  <2> QED
    BY <2>1 DEF Progress
<1> QED
  BY <1>1, <1>2 DEF ClockingInv

LEMMA ClockingInvStep ==
    ASSUME ClockingInv, [ClockingNext]_clockingVars
    PROVE  ClockingInv'
<1>1. CASE UNCHANGED clockingVars
  <2>1. UNCHANGED <<pc, mem, dry, idx, wr>>
    BY <1>1 DEF clockingVars, vars, toolVars, flushVars
  <2> QED
    BY <2>1 DEF ClockingInv, Progress, NeedsWrites, Speed, Mode, SetupDevice
<1>2. ASSUME NEW p \in Proc, ClockingStep(p) \/ StartFlush(p) \/ ClockingCrash(p),
             UNCHANGED wr \/ wr' = [wr EXCEPT ![p] = 0], wr'[p] = 0
      PROVE  ClockingInv'
  <2> USE DEF ClockingInv, Location, FlushLabels, Goto, Return, Fail
  <2>1. CASE StartFlush(p)
    <3>1. mem' \in [Proc -> Config] /\ dry' \in [Proc -> BOOLEAN]
      BY <2>1, UploadsAssumption DEF StartFlush
    <3> QED
      BY <1>2, <2>1, <3>1, PortStarts DEF StartFlush
  <2>2. CASE ClockingCrash(p)
    BY <1>2, <2>2, PortStarts DEF ClockingCrash, FlushCrash, flushVars
  <2>3. CASE ClockWrite(p)
    <3>1. CASE UNCHANGED vars
      BY <1>2, <3>1, PortStarts DEF vars, toolVars, flushVars
    <3>2. CASE NextPort(p) /\ UNCHANGED <<mem, dry>>
      BY <1>2, <3>2, PortStarts DEF NextPort
    <3> QED
      BY <2>3, <3>1, <3>2 DEF ClockWrite, NextWrite, PortDone
  <2>4. CASE ClockNoWrite(p)
    BY <1>2, <2>4, PortStarts DEF ClockNoWrite, ClockingSetup, NextPort
  <2>5. CASE ResetRegisters(p)
    BY <1>2, <2>5, PortStarts DEF ResetRegisters, ColdReset
  <2>6. CASE FlushCheckValid(p) \/ InhibitTx(p) \/ PollBusy(p)
    BY <1>2, <2>6, PortStarts DEF FlushCheckValid, InhibitTx, PollBusy, flushVars
  <2>7. CASE UploadRefused(p) \/ VerifyStatus(p)
    BY <1>2, <2>7, PortStarts DEF UploadRefused, VerifyStatus, flushVars
  <2>8. CASE UploadChunk(p)
    BY <1>2, <2>8, PortStarts DEF UploadChunk
  <2> QED
    BY <1>2, <2>1, <2>2, <2>3, <2>4, <2>5, <2>6, <2>7, <2>8 DEF ClockingStep
<1>3. ASSUME NEW p \in Proc, StartFlush(p) /\ UNCHANGED <<regs, wr>>
      PROVE  ClockingInv'
  <2>1. wr[p] = 0
    BY <1>3 DEF ClockingInv, Progress, StartFlush
  <2> QED
    BY <1>2, <1>3, <2>1
<1>4. ASSUME NEW p \in Proc, ClockingCrash(p)
      PROVE  ClockingInv'
  BY <1>2, <1>4 DEF ClockingCrash, ClockingInv
<1>5. ASSUME NEW p \in Proc, ClockingStep(p)
      PROVE  ClockingInv'
  <2>1. CASE ClockWrite(p)
    <3>1. CASE NextWrite(p) /\ wr[p] + 1 < Len(PortWrites(SetupDevice(p), mem[p], idx[p]))
      <4>1. /\ wr' = [wr EXCEPT ![p] = @ + 1]
            /\ UNCHANGED <<pc, mem, dry, idx>>
        BY <3>1 DEF NextWrite, vars, toolVars, flushVars
      <4>2. /\ pc[p] = "clock"
            /\ NeedsWrites(mem[p], idx[p])
        BY <2>1 DEF ClockWrite
      <4>3. wr'[p] < Len(PortWrites(SetupDevice(p), mem[p], idx[p]))
        BY <3>1, <4>1 DEF ClockingInv
      <4>4. Progress(p)'
        BY <4>1, <4>2, <4>3 DEF Progress, NeedsWrites, Speed, Mode, SetupDevice
      <4>5. \A q \in Proc \ {p} : Progress(q)'
        BY <4>1, OthersProgress DEF ClockingInv
      <4> QED
        BY <4>1, <4>4, <4>5 DEF ClockingInv
    <3>2. CASE wr' = [wr EXCEPT ![p] = 0]
      BY <1>2, <1>5, <3>2 DEF ClockingInv
    <3> QED
      BY <2>1, <3>1, <3>2 DEF ClockWrite, PortDone
  <2>2. CASE ~ClockWrite(p)
    <3>1. wr[p] = 0 /\ UNCHANGED wr
      BY <1>5, <2>2 DEF ClockingInv, Progress, ClockingStep, ClockNoWrite, ResetRegisters,
         ClockingSetup, ColdReset, FlushCheckValid, InhibitTx, PollBusy, UploadRefused,
         UploadChunk, VerifyStatus
    <3> QED
      BY <1>2, <1>5, <3>1
  <2> QED
    BY <2>1, <2>2
<1>6. CASE SwitchReady /\ UNCHANGED <<regs, wr>>
  <2>1. UNCHANGED <<pc, mem, dry, idx, wr>>
    BY <1>6 DEF SwitchReady, toolVars, flushVars
  <2> QED
    BY <2>1 DEF ClockingInv, Progress, NeedsWrites, Speed, Mode, SetupDevice
<1> QED
  BY <1>1, <1>3, <1>4, <1>5, <1>6 DEF ClockingNext

(***************************************************************************)
(* A port that is given up after a failed write is, to Flush, a port whose *)
(* one transfer was lost.                                                  *)
(***************************************************************************)
LEMMA ClockWriteIsClockingSetup ==
    ASSUME ClockingInv, NEW p \in Proc, ClockWrite(p)
    PROVE  ClockingSetup(p) \/ UNCHANGED vars
<1> DEFINE writes == PortWrites(SetupDevice(p), mem[p], idx[p])
           n == wr[p] + 1
<1>1. PICK o \in Outcomes :
        /\ dry[p] => o = "ok"
        /\ IF o = "ok" /\ n < Len(writes) THEN NextWrite(p)
           ELSE PortDone(p, o, n = Len(writes))
  BY DEF ClockWrite
<1>2. pc[p] = "clock" /\ NeedsWrites(mem[p], idx[p])
  BY DEF ClockWrite
<1>3. n <= Len(writes) /\ n \in Nat /\ Len(writes) \in Nat
  BY <1>2, PortHasWrites DEF ClockingInv, Progress
<1>4. CASE o = "ok" /\ n < Len(writes)
  BY <1>1, <1>4 DEF NextWrite
<1>5. CASE n = Len(writes)
  <2>1. PortDone(p, o, TRUE)
    BY <1>1, <1>3, <1>5 DEF PortDone
  <2> HIDE DEF writes, n
  <2>2. /\ Transfer(p, o, SetClock(idx[p], ClockSetting(mem[p], idx[p])))
        /\ NextPort(p)
        /\ UNCHANGED <<mem, dry, retries, down>>
    BY <2>1 DEF PortDone
  <2> QED
    BY <1>2, <2>2 DEF ClockingSetup, NeedsWrites
<1>6. CASE n # Len(writes) /\ o # "ok"
  <2>1. PortDone(p, o, FALSE) /\ ~dry[p]
    BY <1>1, <1>6 DEF PortDone
  <2>2. "lost" \in Outcomes
    BY <1>6, LateAssumption, OutcomesAssumption
  <2>3. Transfer(p, "lost", SetClock(idx[p], ClockSetting(mem[p], idx[p])))
    BY <2>1 DEF PortDone, Transfer
  <2> HIDE DEF writes, n
  <2>4. NextPort(p) /\ UNCHANGED <<mem, dry, retries, down>>
    BY <2>1 DEF PortDone
  <2> QED
    BY <1>2, <2>2, <2>3, <2>4 DEF ClockingSetup, NeedsWrites
<1> QED
  BY <1>3, <1>4, <1>5, <1>6

(***************************************************************************)
(* Every behaviour of the setup register by register is one of Flush, so   *)
(* all that is proved of Flush holds of it.                                *)
(***************************************************************************)
THEOREM ClockingImplementsFlush == ClockingSpec => ImplementsFlush
<1>1. ClockingInit => Init /\ ClockingInv
  BY ClockingInvInit DEF ClockingInit
<1>2. ClockingInv /\ [ClockingNext]_clockingVars => ClockingInv'
  BY ClockingInvStep
<1>3. ClockingInv /\ [ClockingNext]_clockingVars => [Next]_vars
  <2> SUFFICES ASSUME ClockingInv, ClockingNext
               PROVE  Next \/ UNCHANGED vars
    BY DEF clockingVars
  <2>1. ASSUME NEW p \in Proc, ClockingStep(p)
        PROVE  FlushStep(p) \/ UNCHANGED vars
    BY <2>1, ClockWriteIsClockingSetup
       DEF ClockingStep, ClockNoWrite, ResetRegisters, FlushStep
  <2> QED
    BY <2>1 DEF ClockingNext, ClockingCrash, Next
<1> QED
  BY <1>1, <1>2, <1>3, PTL DEF ClockingSpec, ImplementsFlush, Spec

(***************************************************************************)
(* What Flush promises of the switch holds with the registers in view.     *)
(***************************************************************************)
COROLLARY ClockedOnlyValidRuns == ClockingSpec => []OnlyValidRuns
BY ClockingImplementsFlush, OnlyValidConfigurationsRun DEF ImplementsFlush
-----------------------------------------------------------------------------
Divides(i, enabled, factor) == Write(Divider(i), [enabled |-> enabled, factor |-> factor])
Feeds(i, sink, clksrc) == Write(Control(i, sink), clksrc)

LEMMA ClkConfigWrites ==
    ASSUME NEW dev, NEW i, NEW et, NEW pqrs, NEW src, NEW a,
           ClkConfig(dev, i, et, pqrs, src).addr = a
    PROVE  ClkConfig(dev, i, et, pqrs, src) = Write(a, src)
BY DEF ClkConfig, Write

\* The tables of the code in terms of the data sheet.
LEMMA SheetWrites ==
    ASSUME NEW i \in 1..5, NEW src, NEW e, NEW f
    PROVE  /\ MiiTxClkConfig(HwDevice, i, src) = Feeds(i, MiiTx, src)
           /\ MiiRxClkConfig(HwDevice, i) = Feeds(i, MiiRx, CLKSRC_RX_CLK(i))
           /\ RmiiRefClkConfig(HwDevice, i) = Feeds(i, RmiiRef, CLKSRC_TX_CLK(i))
           /\ RgmiiTxClkConfig(HwDevice, i, src) = Feeds(i, RgmiiTx, src)
           /\ ExtTxClkConfig(HwDevice, i, src) = Feeds(i, ExtTx, src)
           /\ ExtRxClkConfig(HwDevice, i) = Feeds(i, ExtRx, CLKSRC_IDIV(i))
           /\ IdivConfig(i, e, f) = Divides(i, e, f)
<1> DEFINE IsWrite(w, v) == \E et, pqrs : w = ClkConfig(HwDevice, i, et, pqrs, v)
<1>0. ASSUME NEW w, NEW v, NEW sink, IsWrite(w, v), w.addr = Control(i, sink)
      PROVE  w = Feeds(i, sink, v)
  <2>1. PICK et, pqrs : w = ClkConfig(HwDevice, i, et, pqrs, v)
    BY <1>0
  <2>2. ClkConfig(HwDevice, i, et, pqrs, v).addr = Control(i, sink)
    BY <1>0, <2>1, Zenon
  <2>3. ClkConfig(HwDevice, i, et, pqrs, v) = Write(Control(i, sink), v)
    BY <2>2, ClkConfigWrites
  <2> QED
    BY <2>1, <2>3 DEF Feeds
<1> HIDE DEF IsWrite
<1>1. MiiTxClkConfig(HwDevice, i, src) = Feeds(i, MiiTx, src)
  <2>1. IsWrite(MiiTxClkConfig(HwDevice, i, src), src)
    BY Zenon DEF IsWrite, MiiTxClkConfig
  <2>2. MiiTxClkConfig(HwDevice, i, src).addr = Control(i, MiiTx)
    BY TablesAreTheDataSheets
  <2> QED
    BY <1>0, <2>1, <2>2, Zenon
<1>2. MiiRxClkConfig(HwDevice, i) = Feeds(i, MiiRx, CLKSRC_RX_CLK(i))
  <2>1. IsWrite(MiiRxClkConfig(HwDevice, i), CLKSRC_RX_CLK(i))
    BY Zenon DEF IsWrite, MiiRxClkConfig
  <2> QED
    BY <1>0, <2>1, TablesAreTheDataSheets, Zenon
<1>3. RmiiRefClkConfig(HwDevice, i) = Feeds(i, RmiiRef, CLKSRC_TX_CLK(i))
  <2>1. IsWrite(RmiiRefClkConfig(HwDevice, i), CLKSRC_TX_CLK(i))
    BY Zenon DEF IsWrite, RmiiRefClkConfig
  <2> QED
    BY <1>0, <2>1, TablesAreTheDataSheets, Zenon
<1>4. RgmiiTxClkConfig(HwDevice, i, src) = Feeds(i, RgmiiTx, src)
  <2>1. IsWrite(RgmiiTxClkConfig(HwDevice, i, src), src)
    BY Zenon DEF IsWrite, RgmiiTxClkConfig
  <2>2. RgmiiTxClkConfig(HwDevice, i, src).addr = Control(i, RgmiiTx)
    BY TablesAreTheDataSheets
  <2> QED
    BY <1>0, <2>1, <2>2, Zenon
<1>5. ExtTxClkConfig(HwDevice, i, src) = Feeds(i, ExtTx, src)
  <2>1. IsWrite(ExtTxClkConfig(HwDevice, i, src), src)
    BY Zenon DEF IsWrite, ExtTxClkConfig
  <2>2. ExtTxClkConfig(HwDevice, i, src).addr = Control(i, ExtTx)
    BY TablesAreTheDataSheets
  <2> QED
    BY <1>0, <2>1, <2>2, Zenon
<1>6. ExtRxClkConfig(HwDevice, i) = Feeds(i, ExtRx, CLKSRC_IDIV(i))
  <2>1. IsWrite(ExtRxClkConfig(HwDevice, i), CLKSRC_IDIV(i))
    BY Zenon DEF IsWrite, ExtRxClkConfig
  <2> QED
    BY <1>0, <2>1, TablesAreTheDataSheets, Zenon
<1>7. IdivConfig(i, e, f) = Divides(i, e, f)
  <2>1. i \in {1, 2, 3, 4, 5}
    OBVIOUS
  <2> QED
    BY <2>1, SMT DEF IdivConfig, Divides, Divider, Write, CGU_ADDR
<1> QED
  BY <1>1, <1>2, <1>3, <1>4, <1>5, <1>6, <1>7

LEMMA ModeWrites ==
    ASSUME NEW dev, NEW c, NEW i
    PROVE  /\ Mode(c, i) = 0 => PortWrites(dev, c, i) = MiiClockingSetup(dev, i, PhyMode(c, i))
           /\ Mode(c, i) = 1 => PortWrites(dev, c, i) = RmiiClockingSetup(dev, i, PhyMode(c, i))
           /\ Mode(c, i) = 2 => PortWrites(dev, c, i) = RgmiiClockingSetup(dev, i, Speed(c, i))
<1>1. 0 # 1 /\ 1 # 2 /\ 0 # 2
  OBVIOUS
<1> QED
  BY <1>1 DEF PortWrites

\* The writes of sequence s, which are n.
Listed(s, n, w) == Len(s) = n /\ \A k \in 1..n : s[k] = w[k]

LEMMA Joined ==
    ASSUME NEW a, NEW b, NEW d, NEW e, NEW f
    PROVE  /\ Listed(<< a, b, d >> \o << >>, 3, << a, b, d >>)
           /\ Listed(<< a, b, d >> \o << e, f >>, 5, << a, b, d, e, f >>)
           /\ Listed(<< >> \o << a, b >> \o << >>, 2, << a, b >>)
           /\ Listed(<< a, b >> \o << d, e >> \o << f >>, 5, << a, b, d, e, f >>)
           /\ Listed(<< a, b, d >>, 3, << a, b, d >>)
<1>1. Listed(<< a, b, d >> \o << >>, 3, << a, b, d >>)
  BY DEF Listed
<1>2. Listed(<< a, b, d >> \o << e, f >>, 5, << a, b, d, e, f >>)
  BY DEF Listed
<1>3. Listed(<< >> \o << a, b >> \o << >>, 2, << a, b >>)
  BY DEF Listed
<1>4. Listed(<< a, b >> \o << d, e >> \o << f >>, 5, << a, b, d, e, f >>)
  BY DEF Listed
<1>5. Listed(<< a, b, d >>, 3, << a, b, d >>)
  BY DEF Listed
<1> QED
  BY <1>1, <1>2, <1>3, <1>4, <1>5

MiiMacWrites(i) ==
    << Divides(i, FALSE, 1), Feeds(i, MiiTx, CLKSRC_TX_CLK(i)), Feeds(i, MiiRx, CLKSRC_RX_CLK(i)) >>
MiiPhyWrites(i) ==
    << Divides(i, TRUE, 1), Feeds(i, MiiTx, CLKSRC_IDIV(i)), Feeds(i, MiiRx, CLKSRC_RX_CLK(i)),
       Feeds(i, ExtTx, CLKSRC_IDIV(i)), Feeds(i, ExtRx, CLKSRC_IDIV(i)) >>
RmiiMacWrites(i) ==
    << Write(PLL1, "down"), Write(PLL1, "50MHz"), Divides(i, FALSE, 1),
       Feeds(i, RmiiRef, CLKSRC_TX_CLK(i)), Feeds(i, ExtTx, CLKSRC_PLL1) >>
RmiiPhyWrites(i) == << Divides(i, FALSE, 1), Feeds(i, RmiiRef, CLKSRC_TX_CLK(i)) >>
RgmiiWrites(i, speed) ==
    << Divides(i, speed # 1, IF speed = 3 THEN 10 ELSE 1),
       Feeds(i, RgmiiTx, IF speed = 1 THEN CLKSRC_PLL0 ELSE CLKSRC_IDIV(i)),
       RgmiiPadConfig(i) >>

LEMMA SetupShapes ==
    ASSUME NEW i \in 1..5, NEW speed
    PROVE  /\ Listed(MiiClockingSetup(HwDevice, i, FALSE), 3, MiiMacWrites(i))
           /\ Listed(MiiClockingSetup(HwDevice, i, TRUE), 5, MiiPhyWrites(i))
           /\ Listed(RmiiClockingSetup(HwDevice, i, FALSE), 5, RmiiMacWrites(i))
           /\ Listed(RmiiClockingSetup(HwDevice, i, TRUE), 2, RmiiPhyWrites(i))
           /\ Listed(RgmiiClockingSetup(HwDevice, i, speed), 3, RgmiiWrites(i, speed))
<1>2. \A s : /\ Only(TRUE, s) = s /\ Only(FALSE, s) = << >>
             /\ Only(~TRUE, s) = << >> /\ Only(~FALSE, s) = s
  BY DEF Only
<1>3. Listed(MiiClockingSetup(HwDevice, i, FALSE), 3, MiiMacWrites(i))
  BY <1>2, SheetWrites, Joined, Zenon DEF MiiClockingSetup, MiiMacWrites
<1>4. Listed(MiiClockingSetup(HwDevice, i, TRUE), 5, MiiPhyWrites(i))
  BY <1>2, SheetWrites, Joined, Zenon DEF MiiClockingSetup, MiiPhyWrites
<1>5. Listed(RmiiClockingSetup(HwDevice, i, FALSE), 5, RmiiMacWrites(i))
  BY <1>2, SheetWrites, Joined, Zenon DEF RmiiClockingSetup, RmiiPllConfig, RmiiMacWrites
<1>6. Listed(RmiiClockingSetup(HwDevice, i, TRUE), 2, RmiiPhyWrites(i))
  BY <1>2, SheetWrites, Joined, Zenon DEF RmiiClockingSetup, RmiiPllConfig, RmiiPhyWrites
<1>7. Listed(RgmiiClockingSetup(HwDevice, i, speed), 3, RgmiiWrites(i, speed))
  BY SheetWrites, Joined, Zenon DEF RgmiiClockingSetup, RgmiiWrites
<1> QED
  BY <1>3, <1>4, <1>5, <1>6, <1>7
-----------------------------------------------------------------------------
(***************************************************************************)
(* The registers of port i: its divider, its clock controls, its pads.     *)
(***************************************************************************)
InRow(i, a) ==
    \/ a = Divider(i)
    \/ \E sink \in 0..Stride - 1 : a = Control(i, sink)
    \/ a = AGU_ADDR + 2 * (i - 1)

LEMMA StrideIs == Stride \in {6, 7}
BY DEF Stride

LEMMA RowsApart ==
    ASSUME NEW i \in 1..5, NEW j \in 1..5, NEW a, InRow(i, a)
    PROVE  a # PLL1 /\ (InRow(j, a) => i = j)
<1>1. CASE Stride = 6
  BY <1>1, SMT DEF InRow, Divider, Control, PLL1, CGU_ADDR, AGU_ADDR
<1>2. CASE Stride = 7
  BY <1>2, SMT DEF InRow, Divider, Control, PLL1, CGU_ADDR, AGU_ADDR
<1> QED
  BY <1>1, <1>2, StrideIs

\* Register w goes to a port of its own, or to PLL1.
LEMMA RowOfFeeds ==
    ASSUME NEW i \in 1..5, NEW src, NEW e, NEW f
    PROVE  /\ InRow(i, Divides(i, e, f).addr)
           /\ \A sink \in {MiiTx, MiiRx, RmiiRef, RgmiiTx, ExtTx, ExtRx} :
                InRow(i, Feeds(i, sink, src).addr)
           /\ InRow(i, RgmiiPadConfig(i).addr)
<1>1. {MiiTx, MiiRx, RmiiRef, RgmiiTx, ExtTx, ExtRx} \subseteq 0..Stride - 1
  BY StrideIs DEF MiiTx, MiiRx, RmiiRef, RgmiiTx, ExtTx, ExtRx
<1>2. Divides(i, e, f).addr = Divider(i) /\ \A sink : Feeds(i, sink, src).addr = Control(i, sink)
  BY DEF Divides, Feeds, Write
<1>3. RgmiiPadConfig(i).addr = AGU_ADDR + 2 * (i - 1)
  <2>1. i \in {1, 2, 3, 4, 5}
    OBVIOUS
  <2> QED
    BY <2>1, SMT DEF RgmiiPadConfig, Write, AGU_ADDR
<1> QED
  BY <1>1, <1>2, <1>3, Zenon DEF InRow

\* The sinks a mode uses have registers of their own.
LEMMA SinksApart ==
    ASSUME NEW i \in 1..5
    PROVE  /\ Divider(i) \in Int /\ Control(i, MiiTx) \in Int /\ Control(i, MiiRx) \in Int
           /\ \A sink \in 0..Stride - 1 : Divider(i) # Control(i, sink)
           /\ \A s, t \in 0..Stride - 1 : Control(i, s) = Control(i, t) => s = t
           /\ \A s \in 0..Stride - 1 : Control(i, s) # AGU_ADDR + 2 * (i - 1)
           /\ Divider(i) # AGU_ADDR + 2 * (i - 1)
<1>1. CASE Stride = 6
  BY <1>1, SMT DEF Divider, Control, MiiTx, MiiRx, CGU_ADDR, AGU_ADDR
<1>2. CASE Stride = 7
  BY <1>2, SMT DEF Divider, Control, MiiTx, MiiRx, CGU_ADDR, AGU_ADDR
<1> QED
  BY <1>1, <1>2, StrideIs
-----------------------------------------------------------------------------
\* What a port's writes are, mode by mode.
LEMMA ModeShapes ==
    ASSUME NEW c, NEW i \in 1..5, NeedsWrites(c, i)
    PROVE  \/ /\ Mode(c, i) = 0 /\ ~PhyMode(c, i)
              /\ Listed(PortWrites(HwDevice, c, i), 3, MiiMacWrites(i))
           \/ /\ Mode(c, i) = 0 /\ PhyMode(c, i)
              /\ Listed(PortWrites(HwDevice, c, i), 5, MiiPhyWrites(i))
           \/ /\ Mode(c, i) = 1 /\ ~PhyMode(c, i)
              /\ Listed(PortWrites(HwDevice, c, i), 5, RmiiMacWrites(i))
           \/ /\ Mode(c, i) = 1 /\ PhyMode(c, i)
              /\ Listed(PortWrites(HwDevice, c, i), 2, RmiiPhyWrites(i))
           \/ /\ Mode(c, i) = 2 /\ Speed(c, i) \in {1, 2, 3}
              /\ Listed(PortWrites(HwDevice, c, i), 3, RgmiiWrites(i, Speed(c, i)))
<1>1. Mode(c, i) \in {0, 1, 2} /\ Speed(c, i) \in {1, 2, 3}
  BY DEF NeedsWrites
<1>2. PhyMode(c, i) = TRUE \/ PhyMode(c, i) = FALSE
  BY DEF PhyMode
<1>3. CASE Mode(c, i) = 0
  BY <1>2, <1>3, ModeWrites, SetupShapes, Zenon
<1>4. CASE Mode(c, i) = 1
  BY <1>2, <1>4, ModeWrites, SetupShapes, Zenon
<1>5. CASE Mode(c, i) = 2
  BY <1>1, <1>5, ModeWrites, SetupShapes, Zenon
<1> QED
  BY <1>1, <1>3, <1>4, <1>5

\* Sinks of different clock controls of a port.
LEMMA SinksDiffer ==
    /\ {MiiTx, MiiRx, RmiiRef, RgmiiTx, ExtTx, ExtRx} \subseteq 0..Stride - 1
    /\ MiiTx # MiiRx /\ ExtTx # ExtRx /\ ExtTx # RmiiRef
    /\ MiiTx # ExtTx /\ MiiTx # ExtRx /\ MiiRx # ExtTx /\ MiiRx # ExtRx
BY StrideIs DEF MiiTx, MiiRx, RmiiRef, RgmiiTx, ExtTx, ExtRx

(***************************************************************************)
(* Write k of a port is to PLL1 or to the row of the port, and no other    *)
(* write of the port is to the same register.                              *)
(***************************************************************************)
InPlace(i, s, n) ==
    /\ \A k \in 1..n : s[k].addr = PLL1 \/ InRow(i, s[k].addr)
    /\ \A k, l \in 1..n : s[k].addr = s[l].addr => k = l \/ s[k].addr = PLL1

LEMMA ListsInPlace ==
    ASSUME NEW i \in 1..5, NEW speed
    PROVE  /\ InPlace(i, MiiMacWrites(i), 3) /\ InPlace(i, MiiPhyWrites(i), 5)
           /\ InPlace(i, RmiiMacWrites(i), 5) /\ InPlace(i, RmiiPhyWrites(i), 2)
           /\ InPlace(i, RgmiiWrites(i, speed), 3)
<1> DEFINE d == Divider(i)
           x == Control(i, MiiTx)
           r == Control(i, MiiRx)
           f == Control(i, RmiiRef)
           g == Control(i, RgmiiTx)
           t == Control(i, ExtTx)
           u == Control(i, ExtRx)
           a == AGU_ADDR + 2 * (i - 1)
<1>1. \A e, n, src, sink : /\ Divides(i, e, n).addr = d
                           /\ Feeds(i, sink, src).addr = Control(i, sink)
  BY DEF Divides, Feeds, Write
<1>2. RgmiiPadConfig(i).addr = a
  <2>1. i \in {1, 2, 3, 4, 5}
    OBVIOUS
  <2> QED
    BY <2>1, SMT DEF RgmiiPadConfig, Write, AGU_ADDR
<1>3. /\ d # x /\ d # r /\ d # f /\ d # g /\ d # t /\ d # u /\ d # a
      /\ g # a /\ x # r /\ x # t /\ x # u /\ r # t /\ r # u /\ t # u /\ f # t
  BY SinksApart, SinksDiffer, Zenon
<1>4. /\ InRow(i, d) /\ InRow(i, x) /\ InRow(i, r) /\ InRow(i, f) /\ InRow(i, g)
      /\ InRow(i, t) /\ InRow(i, u) /\ InRow(i, a)
  BY SinksDiffer, Zenon DEF InRow
<1>5. PLL1 # d /\ PLL1 # f /\ PLL1 # t
  BY <1>4, RowsApart, Zenon
<1>6. /\ Write(PLL1, "down").addr = PLL1
      /\ Write(PLL1, "50MHz").addr = PLL1
  BY DEF Write
<1> HIDE DEF d, x, r, f, g, t, u, a
<1>7. InPlace(i, MiiMacWrites(i), 3)
  <2> DEFINE s == MiiMacWrites(i)
  <2>1. s[1].addr = d /\ s[2].addr = x /\ s[3].addr = r
    BY <1>1 DEF MiiMacWrites, d, x, r
  <2> HIDE DEF s
  <2>2. InPlace(i, s, 3)
    BY <2>1, <1>3, <1>4 DEF InPlace
  <2> QED
    BY <2>2 DEF s
<1>8. InPlace(i, MiiPhyWrites(i), 5)
  <2> DEFINE s == MiiPhyWrites(i)
  <2>1. s[1].addr = d /\ s[2].addr = x /\ s[3].addr = r /\ s[4].addr = t /\ s[5].addr = u
    BY <1>1 DEF MiiPhyWrites, d, x, r, t, u
  <2> HIDE DEF s
  <2>2. InPlace(i, s, 5)
    BY <2>1, <1>3, <1>4 DEF InPlace
  <2> QED
    BY <2>2 DEF s
<1>9. InPlace(i, RmiiMacWrites(i), 5)
  <2> DEFINE s == RmiiMacWrites(i)
  <2>1. s[1].addr = PLL1 /\ s[2].addr = PLL1 /\ s[3].addr = d /\ s[4].addr = f /\ s[5].addr = t
    BY <1>1, <1>6 DEF RmiiMacWrites, d, f, t
  <2> HIDE DEF s
  <2>2. InPlace(i, s, 5)
    BY <2>1, <1>3, <1>4, <1>5 DEF InPlace
  <2> QED
    BY <2>2 DEF s
<1>10. InPlace(i, RmiiPhyWrites(i), 2)
  <2> DEFINE s == RmiiPhyWrites(i)
  <2>1. s[1].addr = d /\ s[2].addr = f
    BY <1>1 DEF RmiiPhyWrites, d, f
  <2> HIDE DEF s
  <2>2. InPlace(i, s, 2)
    BY <2>1, <1>3, <1>4 DEF InPlace
  <2> QED
    BY <2>2 DEF s
<1>11. InPlace(i, RgmiiWrites(i, speed), 3)
  <2> DEFINE s == RgmiiWrites(i, speed)
  <2>1. s[1].addr = d /\ s[2].addr = g /\ s[3].addr = a
    BY <1>1, <1>2 DEF RgmiiWrites, d, g
  <2> HIDE DEF s
  <2>2. InPlace(i, s, 3)
    BY <2>1, <1>3, <1>4 DEF InPlace
  <2> QED
    BY <2>2 DEF s
<1> QED
  BY <1>7, <1>8, <1>9, <1>10, <1>11

LEMMA WritesInPlace ==
    ASSUME NEW c, NEW i \in 1..5, NeedsWrites(c, i)
    PROVE  InPlace(i, PortWrites(HwDevice, c, i), Len(PortWrites(HwDevice, c, i)))
<1>1. ASSUME NEW s, NEW w, NEW n, Listed(s, n, w), InPlace(i, w, n)
      PROVE  InPlace(i, s, Len(s))
  BY <1>1 DEF Listed, InPlace
<1> QED
  BY <1>1, ModeShapes, ListsInPlace, Zenon
-----------------------------------------------------------------------------
\* Register w is among the registers r.
Held(r, w) == w.addr \in DOMAIN r /\ r[w.addr] = w.value

\* The first n writes of port i are in force, those to PLL1 excepted.
Done(r, c, i, n) ==
    \A k \in 1..n : LET w == PortWrites(HwDevice, c, i)[k] IN w.addr = PLL1 \/ Held(r, w)

WriteCount(c, i) == Len(PortWrites(HwDevice, c, i))

LEMMA PutHolds ==
    ASSUME NEW r, NEW w PROVE Held(Put(r, w), w)
BY DEF Held, Put

LEMMA PutKeepsOthers ==
    ASSUME NEW r, NEW w, NEW x, x.addr # w.addr, Held(r, x)
    PROVE  Held(Put(r, w), x)
BY DEF Held, Put

(***************************************************************************)
(* A write of one port takes nothing back that another port, or the same   *)
(* one, has written.                                                       *)
(***************************************************************************)
LEMMA PutKeepsDone ==
    ASSUME NEW r, NEW c, NEW i \in 1..5, NEW j \in 1..5, NeedsWrites(c, i), NeedsWrites(c, j),
           NEW k \in 1..WriteCount(c, i), NEW n \in 0..WriteCount(c, j), Done(r, c, j, n)
    PROVE  Done(Put(r, PortWrites(HwDevice, c, i)[k]), c, j, n)
<1> DEFINE w == PortWrites(HwDevice, c, i)[k]
<1>0. WriteCount(c, i) \in Nat /\ WriteCount(c, j) \in Nat
  BY PortHasWrites DEF WriteCount
<1> SUFFICES ASSUME NEW l \in 1..n, PortWrites(HwDevice, c, j)[l].addr # PLL1
             PROVE  Held(Put(r, w), PortWrites(HwDevice, c, j)[l])
  BY DEF Done
<1> DEFINE x == PortWrites(HwDevice, c, j)[l]
<1>1. Held(r, x)
  BY DEF Done
<1>2. l \in 1..WriteCount(c, j)
  BY <1>0
<1>3. InRow(j, x.addr)
  BY <1>2, WritesInPlace, Zenon DEF InPlace, WriteCount
<1>4. CASE x.addr # w.addr
  BY <1>1, <1>4, PutKeepsOthers
<1>5. CASE x.addr = w.addr
  <2>1. w.addr # PLL1
    BY <1>5
  <2>2. InRow(i, w.addr)
    BY <2>1, WritesInPlace, Zenon DEF InPlace, WriteCount
  <2>3. i = j
    BY <1>3, <1>5, <2>2, RowsApart, Zenon
  <2>4. k = l
    BY <1>2, <1>5, <2>1, <2>3, WritesInPlace, Zenon DEF InPlace, WriteCount
  <2>5. w = x
    BY <2>3, <2>4
  <2> QED
    BY <2>5, PutHolds
<1> QED
  BY <1>4, <1>5

LEMMA DoneGrows ==
    ASSUME NEW r, NEW c, NEW i, NEW n \in Nat, Done(r, c, i, n),
           Held(r, PortWrites(HwDevice, c, i)[n + 1])
    PROVE  Done(r, c, i, n + 1)
<1> SUFFICES ASSUME NEW k \in 1..n + 1
             PROVE  \/ PortWrites(HwDevice, c, i)[k].addr = PLL1
                    \/ Held(r, PortWrites(HwDevice, c, i)[k])
  BY DEF Done
<1>1. k \in 1..n \/ k = n + 1
  OBVIOUS
<1> QED
  BY <1>1 DEF Done
-----------------------------------------------------------------------------
PllRuns == Held(regs, Write(PLL1, "50MHz"))

UsesPll(c, i) == Mode(c, i) = 1 /\ ~PhyMode(c, i)

LEMMA Sources ==
    ASSUME NEW i \in 1..5
    PROVE  /\ ClockOf(CLKSRC_TX_CLK(i)) = TxPin(i)
           /\ ClockOf(CLKSRC_RX_CLK(i)) = RxPin(i)
           /\ ClockOf(CLKSRC_PLL0) = Rate(1250)
           /\ PllRuns => ClockOf(CLKSRC_PLL1) = Rate(500)
<1>1. ClockOf(CLKSRC_TX_CLK(i)) = TxPin(i) /\ ClockOf(CLKSRC_RX_CLK(i)) = RxPin(i)
  <2>1. /\ CLKSRC_TX_CLK(i) = 2 * i - 2 /\ CLKSRC_RX_CLK(i) = 2 * i - 1
        /\ CLKSRC_TX_CLK(i) < 10 /\ CLKSRC_RX_CLK(i) < 10
    BY DEF CLKSRC_TX_CLK, CLKSRC_RX_CLK
  <2> QED
    BY <2>1 DEF ClockOf, TxPin, RxPin
<1>2. ClockOf(CLKSRC_PLL0) = Rate(1250)
  BY DEF ClockOf, CLKSRC_PLL0
<1>3. PllRuns => ClockOf(CLKSRC_PLL1) = Rate(500)
  BY DEF ClockOf, CLKSRC_PLL1, PllRuns, Held, Write
<1> QED
  BY <1>1, <1>2, <1>3

LEMMA Divided ==
    ASSUME NEW i \in 1..5, NEW n, Held(regs, Divides(i, TRUE, n))
    PROVE  ClockOf(CLKSRC_IDIV(i)) = Rate(250 \div n)
<1>1. /\ ~(CLKSRC_IDIV(i) < 10) /\ CLKSRC_IDIV(i) # 11 /\ CLKSRC_IDIV(i) # 14
      /\ CLKSRC_IDIV(i) - 16 = i
  BY DEF CLKSRC_IDIV
<1>2. /\ Divider(i) \in DOMAIN regs
      /\ regs[Divider(i)] = [enabled |-> TRUE, factor |-> n]
  BY DEF Held, Divides, Write
<1>3. regs[Divider(i)].enabled /\ regs[Divider(i)].factor = n
  BY <1>2
<1>4. Divider(CLKSRC_IDIV(i) - 16) = Divider(i)
  BY <1>1
<1> HIDE DEF ClockOf
<1>5. ClockOf(CLKSRC_IDIV(i)) =
        LET d == Divider(i) IN
        IF d \in DOMAIN regs /\ regs[d].enabled THEN Rate(250 \div regs[d].factor) ELSE Off
  BY <1>1, <1>4 DEF ClockOf
<1> QED
  BY <1>2, <1>3, <1>5

LEMMA Fed ==
    ASSUME NEW i, NEW sink, NEW src, Held(regs, Feeds(i, sink, src))
    PROVE  ClockAt(i, sink) = ClockOf(src)
BY DEF Held, Feeds, Write, ClockAt

(***************************************************************************)
(* A port whose writes are all in force has the clocks it needs, that of   *)
(* PLL1 when PLL1 runs.                                                    *)
(***************************************************************************)
Clocked(c, i) ==
    \A n \in Needs(c, i) : \/ ClockAt(i, n[1]) = n[2]
                           \/ n[2] = Rate(500) /\ UsesPll(c, i) /\ ~PllRuns

LEMMA DoneMeansClocked ==
    ASSUME NEW c, NEW i \in 1..5, NeedsWrites(c, i), Done(regs, c, i, WriteCount(c, i))
    PROVE  Clocked(c, i)
<1>0. ASSUME NEW n, NEW w, Listed(PortWrites(HwDevice, c, i), n, w)
      PROVE  \A k \in 1..n : w[k].addr = PLL1 \/ Held(regs, w[k])
  BY <1>0 DEF Done, WriteCount, Listed
<1>1. \A e, n : Divides(i, e, n).addr # PLL1
  BY RowOfFeeds, RowsApart, Zenon
<1>2. \A sink \in {MiiTx, MiiRx, RmiiRef, RgmiiTx, ExtTx, ExtRx} :
        \A src : Feeds(i, sink, src).addr # PLL1
  BY RowOfFeeds, RowsApart, Zenon
<1>3. CASE /\ Mode(c, i) = 0 /\ ~PhyMode(c, i)
           /\ Listed(PortWrites(HwDevice, c, i), 3, MiiMacWrites(i))
  <2>1. /\ Held(regs, Feeds(i, MiiTx, CLKSRC_TX_CLK(i)))
        /\ Held(regs, Feeds(i, MiiRx, CLKSRC_RX_CLK(i)))
    <3>1. \A k \in 1..3 : MiiMacWrites(i)[k].addr = PLL1 \/ Held(regs, MiiMacWrites(i)[k])
      BY <1>0, <1>3
    <3> QED
      BY <1>2, <3>1 DEF MiiMacWrites
  <2>2. Needs(c, i) = { <<MiiTx, TxPin(i)>>, <<MiiRx, RxPin(i)>> }
    BY <1>3 DEF Needs
  <2>3. ClockAt(i, MiiTx) = TxPin(i) /\ ClockAt(i, MiiRx) = RxPin(i)
    BY <2>1, Fed, Sources
  <2> QED
    BY <2>2, <2>3 DEF Clocked
<1>4. CASE /\ Mode(c, i) = 0 /\ PhyMode(c, i)
           /\ Listed(PortWrites(HwDevice, c, i), 5, MiiPhyWrites(i))
  <2>1. /\ Held(regs, Divides(i, TRUE, 1))
        /\ Held(regs, Feeds(i, MiiTx, CLKSRC_IDIV(i)))
        /\ Held(regs, Feeds(i, MiiRx, CLKSRC_RX_CLK(i)))
        /\ Held(regs, Feeds(i, ExtTx, CLKSRC_IDIV(i)))
        /\ Held(regs, Feeds(i, ExtRx, CLKSRC_IDIV(i)))
    <3>1. \A k \in 1..5 : MiiPhyWrites(i)[k].addr = PLL1 \/ Held(regs, MiiPhyWrites(i)[k])
      BY <1>0, <1>4
    <3> QED
      <4>1. /\ MiiPhyWrites(i)[1] = Divides(i, TRUE, 1)
            /\ MiiPhyWrites(i)[2] = Feeds(i, MiiTx, CLKSRC_IDIV(i))
            /\ MiiPhyWrites(i)[3] = Feeds(i, MiiRx, CLKSRC_RX_CLK(i))
            /\ MiiPhyWrites(i)[4] = Feeds(i, ExtTx, CLKSRC_IDIV(i))
            /\ MiiPhyWrites(i)[5] = Feeds(i, ExtRx, CLKSRC_IDIV(i))
        BY DEF MiiPhyWrites
      <4>2. 1 \in 1..5 /\ 2 \in 1..5 /\ 3 \in 1..5 /\ 4 \in 1..5 /\ 5 \in 1..5
        OBVIOUS
      <4> QED
        BY <1>1, <1>2, <3>1, <4>1, <4>2, Zenon
  <2>2. Needs(c, i) = { <<MiiTx, Rate(250)>>, <<MiiRx, RxPin(i)>>, <<ExtTx, Rate(250)>>,
                        <<ExtRx, Rate(250)>> }
    BY <1>4 DEF Needs
  <2>3. ClockOf(CLKSRC_IDIV(i)) = Rate(250)
    <3>1. 250 \div 1 = 250
      OBVIOUS
    <3>2. ClockOf(CLKSRC_IDIV(i)) = Rate(250 \div 1)
      BY <2>1, Divided, Zenon
    <3> QED
      BY <3>1, <3>2
  <2>4. /\ ClockAt(i, MiiTx) = Rate(250) /\ ClockAt(i, MiiRx) = RxPin(i)
        /\ ClockAt(i, ExtTx) = Rate(250) /\ ClockAt(i, ExtRx) = Rate(250)
    BY <2>1, <2>3, Fed, Sources
  <2> QED
    BY <2>2, <2>4 DEF Clocked
<1>5. CASE /\ Mode(c, i) = 1 /\ ~PhyMode(c, i)
           /\ Listed(PortWrites(HwDevice, c, i), 5, RmiiMacWrites(i))
  <2>1. /\ Held(regs, Feeds(i, RmiiRef, CLKSRC_TX_CLK(i)))
        /\ Held(regs, Feeds(i, ExtTx, CLKSRC_PLL1))
    <3>1. \A k \in 1..5 : RmiiMacWrites(i)[k].addr = PLL1 \/ Held(regs, RmiiMacWrites(i)[k])
      BY <1>0, <1>5
    <3> QED
      BY <1>2, <3>1 DEF RmiiMacWrites
  <2>2. Needs(c, i) = { <<RmiiRef, TxPin(i)>>, <<ExtTx, Rate(500)>> }
    BY <1>5 DEF Needs
  <2>3. ClockAt(i, RmiiRef) = TxPin(i) /\ (PllRuns => ClockAt(i, ExtTx) = Rate(500))
    BY <2>1, Fed, Sources
  <2> QED
    BY <1>5, <2>2, <2>3 DEF Clocked, UsesPll
<1>6. CASE /\ Mode(c, i) = 1 /\ PhyMode(c, i)
           /\ Listed(PortWrites(HwDevice, c, i), 2, RmiiPhyWrites(i))
  <2>1. Held(regs, Feeds(i, RmiiRef, CLKSRC_TX_CLK(i)))
    <3>1. \A k \in 1..2 : RmiiPhyWrites(i)[k].addr = PLL1 \/ Held(regs, RmiiPhyWrites(i)[k])
      BY <1>0, <1>6
    <3> QED
      BY <1>2, <3>1 DEF RmiiPhyWrites
  <2>2. Needs(c, i) = { <<RmiiRef, TxPin(i)>> }
    BY <1>6 DEF Needs
  <2>3. ClockAt(i, RmiiRef) = TxPin(i)
    BY <2>1, Fed, Sources
  <2> QED
    BY <2>2, <2>3 DEF Clocked
<1>7. CASE /\ Mode(c, i) = 2 /\ Speed(c, i) \in {1, 2, 3}
           /\ Listed(PortWrites(HwDevice, c, i), 3, RgmiiWrites(i, Speed(c, i)))
  <2> DEFINE speed == Speed(c, i)
             factor == IF speed = 3 THEN 10 ELSE 1
             src == IF speed = 1 THEN CLKSRC_PLL0 ELSE CLKSRC_IDIV(i)
  <2>1. Held(regs, Divides(i, speed # 1, factor)) /\ Held(regs, Feeds(i, RgmiiTx, src))
    <3>1. \A k \in 1..3 : RgmiiWrites(i, speed)[k].addr = PLL1 \/ Held(regs, RgmiiWrites(i, speed)[k])
      BY <1>0, <1>7
    <3> QED
      BY <1>1, <1>2, <3>1 DEF RgmiiWrites
  <2>2. Needs(c, i) = { <<RgmiiTx, Rate(<<1250, 250, 25>>[speed])>> }
    BY <1>7 DEF Needs
  <2>3. ClockAt(i, RgmiiTx) = ClockOf(src)
    BY <2>1, Fed
  <2>4. ClockOf(src) = Rate(<<1250, 250, 25>>[speed])
    <3>1. CASE speed = 1
      BY <3>1, Sources
    <3>2. CASE speed = 2
      <4>1. 250 \div 1 = 250 /\ (speed # 1) = TRUE /\ factor = 1 /\ src = CLKSRC_IDIV(i)
        BY <3>2
      <4>2. ClockOf(CLKSRC_IDIV(i)) = Rate(250 \div 1)
        <5>1. Held(regs, Divides(i, TRUE, 1))
          BY <2>1, <4>1
        <5> QED
          BY <5>1, Divided, Zenon
      <4> QED
        BY <3>2, <4>1, <4>2
    <3>3. CASE speed = 3
      <4>1. 250 \div 10 = 25 /\ (speed # 1) = TRUE /\ factor = 10 /\ src = CLKSRC_IDIV(i)
        BY <3>3
      <4>2. ClockOf(CLKSRC_IDIV(i)) = Rate(250 \div 10)
        <5>1. Held(regs, Divides(i, TRUE, 10))
          BY <2>1, <4>1
        <5> QED
          BY <5>1, Divided, Zenon
      <4> QED
        BY <3>3, <4>1, <4>2
    <3> QED
      BY <1>7, <3>1, <3>2, <3>3
  <2> QED
    BY <2>2, <2>3, <2>4 DEF Clocked
<1> QED
  BY <1>3, <1>4, <1>5, <1>6, <1>7, ModeShapes
-----------------------------------------------------------------------------
(***************************************************************************)
(* One flush at a time.  While it uploads no port is set up and the stream *)
(* in the switch is its own; while it sets up the ports, the writes it has *)
(* made for the port at hand are in force.                                 *)
(***************************************************************************)
Streams(q) ==
    pc[q] \in {"poll", "upload"} /\ ~dry[q] =>
      /\ running = None /\ ~load.bad /\ ~load.ids
      /\ load.got = idx[q] /\ (idx[q] > 0 => load.cfg = mem[q])
      /\ \A i \in Ports : clk[i] = Unset

SetsUp(q) ==
    pc[q] = "clock" =>
      /\ idx[q] \in Ports
      /\ ~dry[q] =>
           /\ load.cfg = mem[q]
           /\ NeedsWrites(mem[q], idx[q]) => Done(regs, mem[q], idx[q], wr[q])

\* A port that counts as set up has all its writes in force.
PortDoneIn(r, c, k, i) ==
    k[i] # Unset => NeedsWrites(c, i) /\ Done(r, c, i, WriteCount(c, i))

PortsAreDone == \A i \in Ports : PortDoneIn(regs, load.cfg, clk, i)

RegsInv(q) == Streams(q) /\ SetsUp(q) /\ PortsAreDone

(***************************************************************************)
(* When no transfer fails: the ports before the one at hand are set up,    *)
(* and PLL1 runs if one of them uses it, but between the two writes with   *)
(* which the port at hand turns it off and on.                             *)
(***************************************************************************)
SetUpBefore(q, i) == \A j \in Ports : j < i => clk[j] # Unset \/ Mode(mem[q], j) = 3

PllBefore(q, i) == (\E j \in Ports : j < i /\ UsesPll(mem[q], j)) => PllRuns

PllInv(q) ==
    /\ pc[q] = "clock" /\ ~dry[q] =>
         /\ SetUpBefore(q, idx[q])
         /\ (UsesPll(mem[q], idx[q]) /\ wr[q] = 1) \/ PllBefore(q, idx[q])
         /\ UsesPll(mem[q], idx[q]) /\ wr[q] > 1 => PllRuns
    /\ pc[q] = "verify" \/ Succeeded(q) =>
         /\ load.cfg = mem[q]
         /\ SetUpBefore(q, NumPorts + 1)
         /\ PllBefore(q, NumPorts + 1)
-----------------------------------------------------------------------------
USE DEF Goto, Return, Fail, toolVars, hwVars, flushVars, vars

\* What the type invariant of Flush says of the state a step of p may change.
FlushTypes ==
    /\ pc \in [Proc -> FlushLabels \cup {"idle"}]
    /\ dry \in [Proc -> BOOLEAN]
    /\ clk \in [Ports -> {Unset} \cup (Nat \X Nat)]
    /\ load \in [cfg : Config \cup {None}, got : Nat, bad : BOOLEAN, ids : BOOLEAN]
    /\ idx \in [Proc -> Nat]
    /\ down \in [Proc -> BOOLEAN]
    /\ rc \in [Proc -> ErrorCodes]

LEMMA ClockingIsTyped == TypeOK => FlushTypes
BY DEF TypeOK, FlushTypes

LEMMA RegsInit ==
    ASSUME NEW q \in Proc, ClockingInit PROVE RegsInv(q)
BY DEF ClockingInit, Init, RegsInv, Streams, SetsUp, PortsAreDone, PortDoneIn

\* A step that leaves the registers alone and is at neither of the two.
LEMMA RegsKept ==
    ASSUME NEW q, RegsInv(q), regs' = regs, clk' = clk, load' = load,
           pc'[q] \notin {"poll", "upload", "clock"}
    PROVE  RegsInv(q)'
BY DEF RegsInv, Streams, SetsUp, PortsAreDone, PortDoneIn, Done, Held, WriteCount

LEMMA ResetRegs ==
    ASSUME NEW q, Proc = {q}, FlushTypes, RegsInv(q), ResetRegisters(q)
    PROVE  RegsInv(q)'
<1>1. /\ pc[q] = "reset" /\ pc'[q] \in {"poll", "upload", "flushed"}
      /\ idx'[q] = 0 /\ dry'[q] = dry[q]
  BY DEF ResetRegisters, ColdReset, FlushTypes
<1>2. PICK o \in Outcomes :
        /\ Transfer(q, o, TakeColdReset)
        /\ o # "ok" => pc'[q] = "flushed"
        /\ down'[q] = (~dry[q] /\ o # "lost")
  BY DEF ResetRegisters, ColdReset, FlushTypes
<1>3. regs' = IF down'[q] THEN << >> ELSE regs
  BY DEF ResetRegisters
<1>4. CASE dry[q] \/ o = "lost"
  <2>1. UNCHANGED <<running, load, clk>> /\ UNCHANGED regs
    BY <1>2, <1>3, <1>4 DEF Transfer
  <2>2. pc'[q] \in {"poll", "upload"} => dry'[q]
    BY <1>1, <1>2, <1>4
  <2> QED
    BY <1>1, <2>1, <2>2
    DEF RegsInv, Streams, SetsUp, PortsAreDone, PortDoneIn, Done, Held, WriteCount
<1>5. CASE ~dry[q] /\ o # "lost"
  <2>1. TakeColdReset
    BY <1>2, <1>5 DEF Transfer
  <2>2. /\ running' = None /\ ~load'.bad /\ ~load'.ids /\ load'.got = 0
        /\ \A i \in Ports : clk'[i] = Unset
    BY <2>1 DEF TakeColdReset, NoLoad
  <2> QED
    BY <1>1, <2>2 DEF RegsInv, Streams, SetsUp, PortsAreDone, PortDoneIn
<1> QED
  BY <1>4, <1>5

LEMMA UploadRegs ==
    ASSUME NEW q, Proc = {q}, FlushTypes, ClockingInv, RegsInv(q), UploadChunk(q),
           UNCHANGED <<regs, wr>>
    PROVE  RegsInv(q)'
<1>1. pc[q] = "upload" /\ wr[q] = 0 /\ UNCHANGED <<mem, dry, clk>>
  BY DEF UploadChunk, Transfer, TakeChunk, ClockingInv, Progress
<1>2. PICK o \in Outcomes :
        /\ Transfer(q, o, TakeChunk(mem[q], idx[q]))
        /\ \/ pc'[q] = "flushed"
           \/ /\ o = "ok" /\ pc'[q] = "upload" /\ idx'[q] = idx[q] + 1
              /\ idx[q] + 1 < Chunks(mem[q])
           \/ /\ o = "ok" /\ pc'[q] = "clock" /\ idx'[q] = 1
              /\ ~(idx[q] + 1 < Chunks(mem[q]))
  BY DEF UploadChunk, FlushTypes
<1>3. 1 \in Ports
  BY NumPortsAssumption DEF Ports
<1>4. CASE dry[q]
  <2>1. UNCHANGED <<running, load>>
    BY <1>2, <1>4 DEF Transfer
  <2> QED
    BY <1>1, <1>2, <1>3, <1>4, <2>1
    DEF RegsInv, Streams, SetsUp, PortsAreDone, PortDoneIn, Done, Held, WriteCount
<1>5. CASE ~dry[q]
  <2>1. /\ running = None /\ ~load.bad /\ ~load.ids /\ load.got = idx[q]
        /\ idx[q] > 0 => load.cfg = mem[q]
        /\ \A i \in Ports : clk[i] = Unset
    BY <1>1, <1>5 DEF RegsInv, Streams
  <2>2. PortsAreDone'
    BY <1>1, <2>1 DEF PortsAreDone, PortDoneIn
  <2>3. CASE pc'[q] = "flushed"
    BY <2>2, <2>3 DEF RegsInv, Streams, SetsUp
  <2>4. CASE o = "ok" /\ pc'[q] \in {"upload", "clock"}
    <3>1. TakeChunk(mem[q], idx[q])
      BY <1>2, <1>5, <2>4 DEF Transfer
    <3>2. load'.cfg = mem[q] /\ load'.got = idx[q] + 1 /\ ~load'.bad
      BY <2>1, <3>1 DEF TakeChunk, FlushTypes
    <3>3. idx[q] + 1 < Chunks(mem[q]) => running' = None /\ ~load'.ids
      BY <2>1, <3>1 DEF TakeChunk, FlushTypes
    <3>4. CASE pc'[q] = "upload"
      BY <1>1, <1>2, <2>1, <2>2, <3>2, <3>3, <3>4 DEF RegsInv, Streams, SetsUp, FlushTypes
    <3>5. CASE pc'[q] = "clock"
      BY <1>1, <1>2, <1>3, <2>2, <3>2, <3>5 DEF RegsInv, Streams, SetsUp, Done
    <3> QED
      BY <2>4, <3>4, <3>5
  <2> QED
    BY <1>2, <2>3, <2>4
<1> QED
  BY <1>4, <1>5
-----------------------------------------------------------------------------
(***************************************************************************)
(* What a write that reaches the switch does to the registers.             *)
(***************************************************************************)
LEMMA WriteTakes ==
    ASSUME NEW q, NumPorts <= 5, pc[q] = "clock", ~dry[q], ClockingInv, q \in Proc, RegsInv(q),
           NeedsWrites(mem[q], idx[q]), NEW r,
           r = Put(regs, PortWrites(HwDevice, mem[q], idx[q])[wr[q] + 1])
    PROVE  /\ \A i \in Ports : PortDoneIn(r, mem[q], clk, i)
           /\ Done(r, mem[q], idx[q], wr[q] + 1)
<1> DEFINE c == mem[q]
           i == idx[q]
           k == wr[q] + 1
           w == PortWrites(HwDevice, c, i)[k]
<1>1. load.cfg = c /\ Done(regs, c, i, wr[q]) /\ i \in Ports
  BY DEF RegsInv, SetsUp
<1>2. SetupDevice(q) = HwDevice
  BY DEF SetupDevice
<1>3. wr[q] \in Nat /\ WriteCount(c, i) \in Nat /\ wr[q] < WriteCount(c, i)
  BY <1>2, PortHasWrites DEF ClockingInv, Progress, WriteCount
<1>4. Ports \subseteq 1..5
  BY NumPortsAssumption DEF Ports
<1>5. k \in 1..WriteCount(c, i) /\ wr[q] \in 0..WriteCount(c, i)
  BY <1>3
<1>6. ASSUME NEW j \in Ports
      PROVE  PortDoneIn(r, c, clk, j)
  <2>1. CASE clk[j] = Unset
    BY <2>1 DEF PortDoneIn
  <2>2. CASE clk[j] # Unset
    <3>1. NeedsWrites(c, j) /\ Done(regs, c, j, WriteCount(c, j))
      BY <1>1, <2>2 DEF RegsInv, PortsAreDone, PortDoneIn
    <3>2. WriteCount(c, j) \in 0..WriteCount(c, j)
      BY <3>1, PortHasWrites DEF WriteCount
    <3> HIDE DEF k
    <3>3. Done(r, c, j, WriteCount(c, j))
      BY <1>1, <1>4, <1>5, <3>1, <3>2, PutKeepsDone DEF k
    <3> QED
      BY <3>1, <3>3 DEF PortDoneIn
  <2> QED
    BY <2>1, <2>2
<1>7. Done(r, c, i, wr[q])
  BY <1>1, <1>4, <1>5, PutKeepsDone
<1>8. Held(r, w)
  BY PutHolds
<1>9. Done(r, c, i, wr[q] + 1)
  BY <1>3, <1>7, <1>8, DoneGrows
<1> QED
  BY <1>6, <1>9

LEMMA WriteRegs ==
    ASSUME NEW q, Proc = {q}, NumPorts <= 5, FlushTypes, ClockingInv, RegsInv(q), ClockWrite(q)
    PROVE  RegsInv(q)'
<1> DEFINE W == PortWrites(SetupDevice(q), mem[q], idx[q])
           n == wr[q] + 1
<1>1. /\ pc[q] = "clock" /\ NeedsWrites(mem[q], idx[q]) /\ idx[q] \in Ports
      /\ wr[q] \in Nat /\ idx[q] \in Nat /\ pc \in [Proc -> Location]
  BY DEF ClockWrite, ClockingInv, RegsInv, SetsUp
<1>2. PICK o \in Outcomes :
        /\ dry[q] => o = "ok"
        /\ Stored(q, o, W[n])
        /\ \/ o = "ok" /\ NextWrite(q)
           \/ PortDone(q, o, n = Len(W))
  BY DEF ClockWrite
<1>3. ASSUME PortDone(q, o, n = Len(W))
      PROVE  /\ pc'[q] \in {"clock", "verify", "flushed"} /\ wr'[q] = 0
             /\ pc'[q] = "clock" => idx'[q] \in Ports
             /\ UNCHANGED <<mem, dry>>
             /\ running' = running /\ load' = load
             /\ \/ clk' = clk
                \/ /\ ~dry[q] /\ o # "lost" /\ n = Len(W)
                   /\ clk' = [clk EXCEPT ![idx[q]] = ClockSetting(mem[q], idx[q])]
  <2>1. /\ \/ Transfer(q, o, SetClock(idx[q], ClockSetting(mem[q], idx[q]))) /\ n = Len(W)
           \/ UNCHANGED hwVars
        /\ NextPort(q)
        /\ wr' = [wr EXCEPT ![q] = 0]
        /\ UNCHANGED <<mem, dry>>
    BY <1>3 DEF PortDone
  <2>2. /\ pc'[q] \in {"clock", "verify", "flushed"}
        /\ pc'[q] = "clock" => idx'[q] \in Ports
    BY <1>1, <2>1, NumPortsAssumption DEF NextPort, Ports, FlushTypes
  <2>3. wr'[q] = 0
    BY <2>1 DEF ClockingInv
  <2>4. CASE UNCHANGED hwVars
    BY <2>1, <2>2, <2>3, <2>4
  <2>5. CASE Transfer(q, o, SetClock(idx[q], ClockSetting(mem[q], idx[q]))) /\ n = Len(W)
    <3> HIDE DEF W, n
    <3>1. \/ UNCHANGED hwVars
          \/ ~dry[q] /\ o # "lost" /\ SetClock(idx[q], ClockSetting(mem[q], idx[q]))
      BY <2>5 DEF Transfer
    <3> QED
      BY <2>1, <2>2, <2>3, <2>5, <3>1 DEF SetClock
  <2> QED
    BY <2>1, <2>4, <2>5
<1>4. ASSUME NextWrite(q)
      PROVE  /\ pc'[q] = "clock" /\ wr'[q] = n /\ UNCHANGED <<mem, dry, idx, running, load, clk>>
  BY <1>1, <1>4 DEF NextWrite, ClockingInv
<1>5. CASE dry[q]
  <2>1. regs' = regs
    BY <1>2, <1>5 DEF Stored
  <2>2. \/ NextWrite(q)
        \/ PortDone(q, o, n = Len(W))
    BY <1>2
  <2> HIDE DEF W, n
  <2>3. /\ pc'[q] \in {"clock", "verify", "flushed"} /\ dry'[q] = dry[q]
        /\ load' = load /\ clk' = clk
        /\ pc'[q] = "clock" => idx'[q] \in Ports
    BY <1>1, <1>3, <1>4, <1>5, <2>2
  <2> QED
    BY <1>5, <2>1, <2>3
    DEF RegsInv, Streams, SetsUp, PortsAreDone, PortDoneIn, Done, Held, WriteCount
<1>6. CASE ~dry[q]
  <2>1. SetupDevice(q) = HwDevice
    BY <1>6 DEF SetupDevice
  <2>2. W = PortWrites(HwDevice, mem[q], idx[q])
    BY <2>1
  <2> HIDE DEF W
  <2>3. regs' = IF o = "lost" THEN regs ELSE Put(regs, W[n])
    BY <1>2, <1>6 DEF Stored
  <2>4. /\ \A i \in Ports : PortDoneIn(regs, mem[q], clk, i)
        /\ load.cfg = mem[q]
    BY <1>1, <1>6 DEF RegsInv, SetsUp, PortsAreDone
  <2>5. o # "lost" => /\ \A i \in Ports : PortDoneIn(regs', mem[q], clk, i)
                      /\ Done(regs', mem[q], idx[q], n)
    BY <1>1, <1>6, <2>2, <2>3, WriteTakes
  <2>6. \A i \in Ports : PortDoneIn(regs', mem[q], clk, i)
    BY <2>3, <2>4, <2>5
  <2>7. CASE o = "ok" /\ NextWrite(q)
    <3>1. /\ pc'[q] = "clock" /\ wr'[q] = n /\ mem'[q] = mem[q] /\ idx'[q] = idx[q]
          /\ load' = load /\ clk' = clk
      BY <1>4, <2>7
    <3>2. Done(regs', mem'[q], idx'[q], wr'[q])
      BY <2>5, <2>7, <3>1
    <3>3. \A i \in Ports : PortDoneIn(regs', load'.cfg, clk', i)
      BY <2>4, <2>6, <3>1
    <3> QED
      BY <1>1, <2>4, <3>1, <3>2, <3>3 DEF RegsInv, Streams, SetsUp, PortsAreDone
  <2>8. CASE PortDone(q, o, n = Len(W))
    <3>1. /\ pc'[q] \in {"clock", "verify", "flushed"} /\ wr'[q] = 0
          /\ pc'[q] = "clock" => idx'[q] \in Ports
          /\ mem'[q] = mem[q] /\ dry'[q] = dry[q] /\ load' = load
          /\ \/ clk' = clk
             \/ /\ o # "lost" /\ n = Len(W)
                /\ clk' = [clk EXCEPT ![idx[q]] = ClockSetting(mem[q], idx[q])]
      BY <1>3, <2>8
    <3>2. \A i \in Ports : PortDoneIn(regs', mem[q], clk', i)
      <4> SUFFICES ASSUME NEW i \in Ports PROVE PortDoneIn(regs', mem[q], clk', i)
        OBVIOUS
      <4>1. CASE clk'[i] = clk[i]
        BY <2>6, <4>1 DEF PortDoneIn
      <4>2. CASE i = idx[q] /\ o # "lost" /\ n = Len(W)
        <5>1. Done(regs', mem[q], i, WriteCount(mem[q], i))
          BY <2>2, <2>5, <4>2 DEF WriteCount
        <5> QED
          BY <1>1, <4>2, <5>1 DEF PortDoneIn
      <4> QED
        BY <3>1, <4>1, <4>2 DEF FlushTypes
    <3>3. Done(regs', mem'[q], idx'[q], wr'[q])
      BY <3>1 DEF Done
    <3> QED
      BY <2>4, <3>1, <3>2, <3>3 DEF RegsInv, Streams, SetsUp, PortsAreDone
  <2> QED
    BY <1>2, <2>7, <2>8
<1> QED
  BY <1>5, <1>6

LEMMA NoWriteRegs ==
    ASSUME NEW q, Proc = {q}, FlushTypes, ClockingInv, RegsInv(q), ClockNoWrite(q)
    PROVE  RegsInv(q)'
<1>1. /\ pc[q] = "clock" /\ ~NeedsWrites(mem[q], idx[q]) /\ wr[q] = 0
      /\ UNCHANGED <<regs, wr, mem, dry>>
  BY DEF ClockNoWrite, ClockingSetup, ClockingInv, Progress
<1>2. UNCHANGED hwVars
  BY <1>1 DEF ClockNoWrite, ClockingSetup, NeedsWrites
<1>3. pc'[q] = "flushed" \/ NextPort(q)
  BY <1>1 DEF ClockNoWrite, ClockingSetup, FlushTypes
<1>4. pc'[q] = "clock" => idx'[q] \in Ports
  BY <1>3, NumPortsAssumption DEF NextPort, Ports, FlushTypes, RegsInv, SetsUp
<1>5. pc'[q] \in {"flushed", "clock", "verify"}
  BY <1>1, <1>3 DEF NextPort, FlushTypes
<1>6. Done(regs', mem'[q], idx'[q], wr'[q])
  BY <1>1 DEF Done
<1>7. PortsAreDone'
  BY <1>1, <1>2 DEF RegsInv, PortsAreDone, PortDoneIn, Done, Held, WriteCount
<1> QED
  BY <1>1, <1>2, <1>4, <1>5, <1>6, <1>7 DEF RegsInv, Streams, SetsUp
-----------------------------------------------------------------------------
\* The steps that touch neither the registers nor what they are set up for.
LEMMA OtherStepsKeepRegs ==
    ASSUME NEW q, Proc = {q}, FlushTypes, RegsInv(q), UNCHANGED <<regs, wr>>,
           \/ StartFlush(q) \/ FlushCheckValid(q) \/ InhibitTx(q) \/ PollBusy(q)
           \/ UploadRefused(q) \/ VerifyStatus(q) \/ FlushCrash(q) \/ SwitchReady
    PROVE  RegsInv(q)'
<1>1. CASE SwitchReady
  <2>1. UNCHANGED <<pc, mem, dry, idx, running, load, clk>>
    BY <1>1 DEF SwitchReady, GetReady
  <2> QED
    BY <2>1 DEF RegsInv, Streams, SetsUp, PortsAreDone, PortDoneIn, Done, Held, WriteCount
<1>2. CASE PollBusy(q)
  <2>1. UNCHANGED <<mem, dry, idx, running, load, clk>> /\ pc[q] = "poll"
    BY <1>2 DEF PollBusy
  <2>2. pc'[q] \in {"poll", "upload", "flushed"}
    BY <1>2 DEF PollBusy, FlushTypes
  <2> QED
    BY <2>1, <2>2 DEF RegsInv, Streams, SetsUp, PortsAreDone, PortDoneIn, Done, Held, WriteCount
<1>3. CASE InhibitTx(q)
  <2>1. UNCHANGED <<load, clk>> /\ pc'[q] \in {"reset", "flushed"}
    BY <1>3 DEF InhibitTx, Transfer, InhibitEgress, FlushTypes
  <2> QED
    BY <2>1, RegsKept
<1>4. CASE StartFlush(q) \/ FlushCheckValid(q) \/ FlushCrash(q)
  <2>1. UNCHANGED <<load, clk>> /\ pc'[q] \in {"flush", "inhibit", "flushed", "idle"}
    BY <1>4 DEF StartFlush, FlushCheckValid, FlushCrash, FlushTypes
  <2> QED
    BY <2>1, RegsKept
<1>5. CASE UploadRefused(q) \/ VerifyStatus(q)
  <2>1. UNCHANGED <<load, clk>> /\ pc'[q] = "flushed"
    BY <1>5 DEF UploadRefused, VerifyStatus, FlushTypes
  <2> QED
    BY <2>1, RegsKept
<1> QED
  BY <1>1, <1>2, <1>3, <1>4, <1>5

LEMMA RegsStep ==
    ASSUME NEW q, Proc = {q}, NumPorts <= 5,
           TypeOK, ClockingInv, RegsInv(q), [ClockingNext]_clockingVars
    PROVE  RegsInv(q)'
<1>0. FlushTypes
  BY ClockingIsTyped
<1>1. CASE ClockWrite(q)
  BY <1>0, <1>1, WriteRegs
<1>2. CASE ClockNoWrite(q)
  BY <1>0, <1>2, NoWriteRegs
<1>3. CASE ResetRegisters(q)
  BY <1>0, <1>3, ResetRegs
<1>4. CASE UploadChunk(q) /\ UNCHANGED <<regs, wr>>
  BY <1>0, <1>4, UploadRegs
<1>5. CASE /\ \/ StartFlush(q) \/ FlushCheckValid(q) \/ InhibitTx(q) \/ PollBusy(q)
              \/ UploadRefused(q) \/ VerifyStatus(q) \/ SwitchReady
           /\ UNCHANGED <<regs, wr>>
  BY <1>0, <1>5, OtherStepsKeepRegs
<1>6. CASE ClockingCrash(q)
  <2>1. UNCHANGED <<load, clk, regs>> /\ pc'[q] = "idle"
    BY <1>0, <1>6 DEF ClockingCrash, FlushCrash, FlushTypes
  <2> QED
    BY <2>1, RegsKept
<1>7. CASE UNCHANGED clockingVars
  BY <1>7 DEF clockingVars, RegsInv, Streams, SetsUp, PortsAreDone, PortDoneIn, Done, Held, WriteCount
<1> QED
  BY <1>1, <1>2, <1>3, <1>4, <1>5, <1>6, <1>7 DEF ClockingNext, ClockingStep

LEMMA ClockingInvariant == ClockingSpec => [](ClockingInv /\ TypeOK)
<1>1. ClockingInit => ClockingInv
  BY ClockingInvInit
<1>2. ClockingInv /\ [ClockingNext]_clockingVars => ClockingInv'
  BY ClockingInvStep
<1>3. ClockingSpec => Spec
  BY ClockingImplementsFlush DEF ImplementsFlush
<1> QED
  BY <1>1, <1>2, <1>3, TypeCorrect, PTL DEF ClockingSpec

(***************************************************************************)
(* One flush at a time, on a switch with at most the five ports the tables *)
(* of addresses have rows for: a port that counts as set up has the clocks *)
(* it needs, whatever transfers failed.                                    *)
(***************************************************************************)
THEOREM SetUpPortsAreClocked ==
    ASSUME NEW q, Proc = {q}, NumPorts <= 5
    PROVE  ClockingSpec => []SetUpMeansClocked
<1>1. ClockingInit => RegsInv(q)
  BY RegsInit
<1>2. TypeOK /\ ClockingInv /\ RegsInv(q) /\ [ClockingNext]_clockingVars => RegsInv(q)'
  BY RegsStep
<1>3. RegsInv(q) => SetUpMeansClocked
  <2> SUFFICES ASSUME RegsInv(q), NEW i \in Ports, clk[i] # Unset, NEW n \in Needs(load.cfg, i)
               PROVE  n[2] = Rate(500) \/ ClockAt(i, n[1]) = n[2]
    BY DEF SetUpMeansClocked
  <2>1. NeedsWrites(load.cfg, i) /\ Done(regs, load.cfg, i, WriteCount(load.cfg, i))
    BY DEF RegsInv, PortsAreDone, PortDoneIn
  <2>2. i \in 1..5
    BY NumPortsAssumption DEF Ports
  <2>3. Clocked(load.cfg, i)
    BY <2>1, <2>2, DoneMeansClocked
  <2> QED
    BY <2>3 DEF Clocked
<1> QED
  BY <1>1, <1>2, <1>3, ClockingInvariant, PTL DEF ClockingSpec
-----------------------------------------------------------------------------
\* Which writes go to PLL1.
LEMMA PllWrites ==
    ASSUME NEW c, NEW i \in 1..5, NeedsWrites(c, i)
    PROVE  /\ UsesPll(c, i) => /\ WriteCount(c, i) = 5
                               /\ PortWrites(HwDevice, c, i)[2] = Write(PLL1, "50MHz")
           /\ \A k \in 1..WriteCount(c, i) :
                PortWrites(HwDevice, c, i)[k].addr = PLL1 => UsesPll(c, i) /\ k <= 2
<1> DEFINE W == PortWrites(HwDevice, c, i)
<1>1. \A e, n : Divides(i, e, n).addr # PLL1
  BY RowOfFeeds, RowsApart, Zenon
<1>2. \A sink \in {MiiTx, MiiRx, RmiiRef, RgmiiTx, ExtTx, ExtRx} :
        \A src : Feeds(i, sink, src).addr # PLL1
  BY RowOfFeeds, RowsApart, Zenon
<1>3. RgmiiPadConfig(i).addr # PLL1
  BY RowOfFeeds, RowsApart, Zenon
<1>4. CASE UsesPll(c, i)
  <2>1. Listed(W, 5, RmiiMacWrites(i))
    BY <1>4, ModeShapes DEF UsesPll
  <2>2. /\ RmiiMacWrites(i)[2] = Write(PLL1, "50MHz")
        /\ RmiiMacWrites(i)[3].addr # PLL1 /\ RmiiMacWrites(i)[4].addr # PLL1
        /\ RmiiMacWrites(i)[5].addr # PLL1
    BY <1>1, <1>2 DEF RmiiMacWrites
  <2> QED
    BY <1>4, <2>1, <2>2 DEF Listed, WriteCount
<1>5. CASE ~UsesPll(c, i)
  <2> SUFFICES ASSUME NEW k \in 1..WriteCount(c, i) PROVE W[k].addr # PLL1
    BY <1>5
  <2>0. ASSUME NEW s, NEW m, Listed(W, m, s), \A l \in 1..m : s[l].addr # PLL1
        PROVE  W[k].addr # PLL1
    BY <2>0 DEF Listed, WriteCount
  <2> HIDE DEF W
  <2>1. CASE Listed(W, 3, MiiMacWrites(i))
    <3>0. /\ MiiMacWrites(i)[1] = Divides(i, FALSE, 1)
          /\ MiiMacWrites(i)[2] = Feeds(i, MiiTx, CLKSRC_TX_CLK(i))
          /\ MiiMacWrites(i)[3] = Feeds(i, MiiRx, CLKSRC_RX_CLK(i))
          /\ \A l \in 1..3 : l = 1 \/ l = 2 \/ l = 3
      BY DEF MiiMacWrites
    <3>1. \A l \in 1..3 : MiiMacWrites(i)[l].addr # PLL1
      BY <1>1, <1>2, <3>0, Zenon
    <3> QED
      BY <2>0, <2>1, <3>1
  <2>2. CASE Listed(W, 5, MiiPhyWrites(i))
    <3>1. /\ MiiPhyWrites(i)[1] = Divides(i, TRUE, 1)
          /\ MiiPhyWrites(i)[2] = Feeds(i, MiiTx, CLKSRC_IDIV(i))
          /\ MiiPhyWrites(i)[3] = Feeds(i, MiiRx, CLKSRC_RX_CLK(i))
          /\ MiiPhyWrites(i)[4] = Feeds(i, ExtTx, CLKSRC_IDIV(i))
          /\ MiiPhyWrites(i)[5] = Feeds(i, ExtRx, CLKSRC_IDIV(i))
      BY DEF MiiPhyWrites
    <3>2. \A l \in 1..5 : l = 1 \/ l = 2 \/ l = 3 \/ l = 4 \/ l = 5
      OBVIOUS
    <3>3. \A l \in 1..5 : MiiPhyWrites(i)[l].addr # PLL1
      BY <1>1, <1>2, <3>1, <3>2, Zenon
    <3> QED
      BY <2>0, <2>2, <3>3
  <2>3. CASE Listed(W, 2, RmiiPhyWrites(i))
    <3>0. /\ RmiiPhyWrites(i)[1] = Divides(i, FALSE, 1)
          /\ RmiiPhyWrites(i)[2] = Feeds(i, RmiiRef, CLKSRC_TX_CLK(i))
          /\ \A l \in 1..2 : l = 1 \/ l = 2
      BY DEF RmiiPhyWrites
    <3>1. \A l \in 1..2 : RmiiPhyWrites(i)[l].addr # PLL1
      BY <1>1, <1>2, <3>0, Zenon
    <3> QED
      BY <2>0, <2>3, <3>1
  <2>4. CASE Listed(W, 3, RgmiiWrites(i, Speed(c, i)))
    <3>1. \A l \in 1..3 : RgmiiWrites(i, Speed(c, i))[l].addr # PLL1
      BY <1>1, <1>2, <1>3 DEF RgmiiWrites
    <3> QED
      BY <2>0, <2>4, <3>1
  <2> QED
    BY <1>5, <2>1, <2>2, <2>3, <2>4, ModeShapes DEF UsesPll, W
<1> QED
  BY <1>4, <1>5

\* What has been set up before port i, in the next state of a write to port i.
LEMMA PllAfterWrite ==
    ASSUME NEW q, NumPorts <= 5, pc[q] = "clock", ~dry[q], ClockingInv, q \in Proc,
           RegsInv(q), PllInv(q), NeedsWrites(mem[q], idx[q]), NEW i, i = idx[q],
           NEW n, n = wr[q] + 1,
           regs' = Put(regs, PortWrites(HwDevice, mem[q], i)[n]), mem'[q] = mem[q]
    PROVE  /\ (UsesPll(mem[q], i) /\ n = 1) \/ PllBefore(q, i)'
           /\ UsesPll(mem[q], i) /\ n > 1 => PllRuns'
<1> DEFINE c == mem[q]
           w == PortWrites(HwDevice, c, i)[n]
<1>1. i \in Ports /\ i \in 1..5
  BY NumPortsAssumption DEF RegsInv, SetsUp, Ports
<1>2. wr[q] \in Nat /\ n \in 1..WriteCount(c, i) /\ WriteCount(c, i) \in Nat
  BY PortHasWrites DEF ClockingInv, Progress, WriteCount, SetupDevice
<1>3. w.addr = PLL1 => UsesPll(c, i) /\ n <= 2
  BY <1>1, <1>2, PllWrites
<1>4. ASSUME PllRuns, w.addr # PLL1 PROVE PllRuns'
  <2>1. Write(PLL1, "50MHz").addr # w.addr
    BY <1>4 DEF Write
  <2> QED
    BY <1>4, <2>1, PutKeepsOthers DEF PllRuns
<1>5. /\ (UsesPll(c, i) /\ wr[q] = 1) \/ PllBefore(q, i)
      /\ UsesPll(c, i) /\ wr[q] > 1 => PllRuns
  BY DEF PllInv
<1>6. PllRuns' => PllBefore(q, i)'
  BY DEF PllBefore
<1>7. CASE UsesPll(c, i) /\ n = 1
  BY <1>7
<1>8. CASE UsesPll(c, i) /\ n = 2
  <2>1. w = Write(PLL1, "50MHz")
    BY <1>1, <1>8, PllWrites
  <2>2. PllRuns'
    BY <2>1, PutHolds DEF PllRuns
  <2> QED
    BY <1>6, <2>2
<1>9. CASE UsesPll(c, i) /\ n > 2
  BY <1>2, <1>3, <1>4, <1>5, <1>6, <1>9
<1>10. CASE ~UsesPll(c, i)
  <2>1. PllBefore(q, i) /\ w.addr # PLL1
    BY <1>3, <1>5, <1>10
  <2>2. PllBefore(q, i)'
    BY <1>4, <2>1 DEF PllBefore, UsesPll
  <2> QED
    BY <1>10, <2>2
<1> QED
  BY <1>2, <1>7, <1>8, <1>9, <1>10
-----------------------------------------------------------------------------
LEMMA PllInit ==
    ASSUME NEW q \in Proc, ClockingInit PROVE PllInv(q)
BY DEF ClockingInit, Init, PllInv, Succeeded

\* The flush is neither setting up ports nor has it ended well.
LEMMA PllElsewhere ==
    ASSUME NEW q, pc'[q] \notin {"clock", "verify"}, pc'[q] = "flushed" => rc'[q] # "OK"
    PROVE  PllInv(q)'
BY DEF PllInv, Succeeded

\* Port i is done with, and the flush goes on to the next or to the status.
LEMMA PllNextPort ==
    ASSUME NEW q, Proc = {q}, FlushTypes, NEW i, i = idx[q], i \in Ports, NextPort(q),
           ~dry[q], UNCHANGED <<mem, dry>>, wr'[q] = 0, load'.cfg = mem[q],
           SetUpBefore(q, i)', clk'[i] # Unset \/ Mode(mem[q], i) = 3,
           PllBefore(q, i)', UsesPll(mem[q], i) => PllRuns'
    PROVE  PllInv(q)'
<1>1. i \in Int /\ NumPorts \in Int
  BY NumPortsAssumption DEF Ports
<1>2. \A j \in Ports : j \in Int
  BY DEF Ports
<1>3. SetUpBefore(q, i + 1)'
  BY <1>1, <1>2 DEF SetUpBefore, Mode
<1>4. PllBefore(q, i + 1)'
  BY <1>1, <1>2 DEF PllBefore, UsesPll, Mode, PhyMode
<1>5. CASE i < NumPorts
  <2>1. pc'[q] = "clock" /\ idx'[q] = i + 1
    BY <1>5 DEF NextPort, FlushTypes
  <2> QED
    BY <1>3, <1>4, <2>1 DEF PllInv, SetUpBefore, PllBefore, Succeeded
<1>6. CASE ~(i < NumPorts)
  <2>1. pc'[q] = "verify" /\ i = NumPorts
    BY <1>1, <1>6 DEF NextPort, FlushTypes, Ports
  <2> QED
    BY <1>3, <1>4, <2>1 DEF PllInv, Succeeded
<1> QED
  BY <1>5, <1>6

LEMMA SetBeforeStays ==
    ASSUME NEW q, NEW i, mem'[q] = mem[q], SetUpBefore(q, i),
           \A j \in Ports : j < i => clk'[j] = clk[j]
    PROVE  SetUpBefore(q, i)'
BY DEF SetUpBefore, Mode

LEMMA WritePll ==
    ASSUME NEW q, Proc = {q}, NumPorts <= 5, Outcomes = {"ok"},
           FlushTypes, ClockingInv, RegsInv(q), PllInv(q), ClockWrite(q), ~dry[q]
    PROVE  PllInv(q)'
<1> PICK i : i = idx[q]
  OBVIOUS
<1> PICK n : n = wr[q] + 1
  OBVIOUS
<1> PICK W : W = PortWrites(SetupDevice(q), mem[q], i)
  OBVIOUS
<1>1. /\ pc[q] = "clock" /\ NeedsWrites(mem[q], i) /\ i \in Ports /\ load.cfg = mem[q]
      /\ SetUpBefore(q, i)
  BY DEF ClockWrite, RegsInv, SetsUp, PllInv
<1>2. W = PortWrites(HwDevice, mem[q], i)
  BY DEF SetupDevice
<1>3. n <= Len(W) /\ n \in Nat /\ n > 0 /\ Len(W) \in Nat
  BY <1>1, PortHasWrites DEF ClockingInv, Progress
<1>4. /\ Stored(q, "ok", W[n])
      /\ IF n < Len(W) THEN NextWrite(q) ELSE PortDone(q, "ok", n = Len(W))
  BY DEF ClockWrite
<1>5. regs' = Put(regs, W[n])
  BY <1>4 DEF Stored
<1>6. mem'[q] = mem[q] /\ dry' = dry
  BY <1>4 DEF NextWrite, PortDone
<1>7. /\ (UsesPll(mem[q], i) /\ n = 1) \/ PllBefore(q, i)'
      /\ UsesPll(mem[q], i) /\ n > 1 => PllRuns'
  BY <1>1, <1>2, <1>5, <1>6, PllAfterWrite
<1>8. CASE n < Len(W)
  <2>1. /\ pc'[q] = "clock" /\ idx'[q] = i /\ wr'[q] = n /\ clk' = clk
    BY <1>1, <1>4, <1>8 DEF NextWrite, ClockingInv
  <2>2. SetUpBefore(q, i)'
    BY <1>1, <1>6, <2>1, SetBeforeStays
  <2>3. UsesPll(mem[q], i)' = UsesPll(mem[q], i)
    BY <1>6 DEF UsesPll, Mode, PhyMode
  <2> QED
    BY <1>7, <2>1, <2>2, <2>3 DEF PllInv, UsesPll, SetUpBefore, PllBefore, Succeeded
<1>9. CASE n = Len(W)
  <2>1. PortDone(q, "ok", TRUE)
    BY <1>3, <1>4, <1>9 DEF PortDone
  <2>2. /\ NextPort(q) /\ UNCHANGED <<mem, dry, load>> /\ wr'[q] = 0
        /\ clk' = [clk EXCEPT ![i] = ClockSetting(mem[q], i)]
    BY <2>1 DEF PortDone, Transfer, SetClock, ClockingInv
  <2>3. clk'[i] # Unset
    BY <1>1, <2>2 DEF FlushTypes, ClockSetting, Unset
  <2>4. SetUpBefore(q, i)'
    <3>1. \A j \in Ports : j < i => j # i
      BY <1>1 DEF Ports
    <3>2. \A j \in Ports : j < i => clk'[j] = clk[j]
      BY <2>2, <3>1 DEF FlushTypes
    <3> QED
      BY <1>1, <1>6, <3>2, SetBeforeStays
  <2>5. i \in 1..5
    BY <1>1, NumPortsAssumption DEF Ports
  <2>6. UsesPll(mem[q], i) => n = 5
    BY <1>1, <1>2, <1>9, <2>5, PllWrites DEF WriteCount
  <2>7. PllBefore(q, i)' /\ (UsesPll(mem[q], i) => PllRuns')
    BY <1>7, <2>6
  <2>8. load'.cfg = mem[q]
    BY <1>1, <2>2
  <2> QED
    BY <1>1, <2>2, <2>3, <2>4, <2>7, <2>8, PllNextPort
<1> QED
  BY <1>3, <1>8, <1>9

LEMMA NoWritePll ==
    ASSUME NEW q, Proc = {q}, FlushTypes, ClockingInv, RegsInv(q), PllInv(q), ClockNoWrite(q), ~dry[q]
    PROVE  PllInv(q)'
<1> PICK i : i = idx[q]
  OBVIOUS
<1>1. /\ pc[q] = "clock" /\ ~NeedsWrites(mem[q], i) /\ i \in Ports /\ wr[q] = 0
      /\ UNCHANGED <<regs, wr, mem, dry>>
  BY DEF ClockNoWrite, ClockingSetup, RegsInv, SetsUp, ClockingInv, Progress
<1>2. UNCHANGED hwVars
  BY <1>1 DEF ClockNoWrite, ClockingSetup, NeedsWrites
<1>3. \/ pc'[q] = "flushed" /\ rc'[q] = "HW_LEFT_FLOATING"
      \/ NextPort(q) /\ Mode(mem[q], i) = 3
  BY <1>1 DEF ClockNoWrite, ClockingSetup, NeedsWrites, FlushTypes
<1>4. CASE pc'[q] = "flushed" /\ rc'[q] = "HW_LEFT_FLOATING"
  BY <1>4, PllElsewhere
<1>5. CASE NextPort(q) /\ Mode(mem[q], i) = 3
  <2>1. SetUpBefore(q, i) /\ PllBefore(q, i) /\ load.cfg = mem[q]
    BY <1>1 DEF PllInv, RegsInv, SetsUp
  <2>2. SetUpBefore(q, i)'
    BY <1>1, <1>2, <2>1, SetBeforeStays
  <2>3. PllBefore(q, i)'
    BY <1>1, <2>1 DEF PllBefore, UsesPll, Mode, PhyMode, PllRuns, Held
  <2>4. ~UsesPll(mem[q], i) /\ load'.cfg = mem[q]
    BY <1>2, <1>5, <2>1 DEF UsesPll
  <2> QED
    BY <1>1, <1>5, <2>2, <2>3, <2>4, PllNextPort
<1> QED
  BY <1>3, <1>4, <1>5
-----------------------------------------------------------------------------
LEMMA DryPll ==
    ASSUME NEW q, Proc = {q}, FlushTypes, dry[q], ClockWrite(q) \/ ClockNoWrite(q)
    PROVE  PllInv(q)'
<1>1. dry'[q] /\ pc[q] = "clock"
  BY DEF ClockWrite, NextWrite, PortDone, ClockNoWrite, ClockingSetup
<1>2. pc' = pc \/ pc'[q] = "flushed" \/ NextPort(q)
  <2>1. CASE ClockNoWrite(q)
    BY <2>1 DEF ClockNoWrite, ClockingSetup, FlushTypes
  <2>2. CASE ClockWrite(q)
    <3>1. NextWrite(q) \/ NextPort(q)
      BY <2>2 DEF ClockWrite, PortDone
    <3> QED
      BY <3>1 DEF NextWrite
  <2> QED
    BY <2>1, <2>2
<1>3. pc'[q] \in {"clock", "flushed"}
  BY <1>1, <1>2 DEF NextPort, FlushTypes
<1> QED
  BY <1>1, <1>3 DEF PllInv, Succeeded

LEMMA PllStep ==
    ASSUME NEW q, Proc = {q}, NumPorts <= 5, Outcomes = {"ok"},
           TypeOK, ClockingInv, RegsInv(q), PllInv(q), [ClockingNext]_clockingVars
    PROVE  PllInv(q)'
<1>0. FlushTypes
  BY ClockingIsTyped
<1>1. CASE ClockWrite(q) \/ ClockNoWrite(q)
  BY <1>0, <1>1, WritePll, NoWritePll, DryPll
<1>2. CASE ResetRegisters(q)
  <2>1. pc'[q] \in {"poll", "upload", "flushed"} /\ (pc'[q] = "flushed" => rc'[q] = "HW_LEFT_FLOATING")
    BY <1>0, <1>2 DEF ResetRegisters, ColdReset, FlushTypes
  <2> QED
    BY <2>1, PllElsewhere
<1>3. CASE UploadChunk(q) /\ UNCHANGED <<regs, wr>>
  <2>1. \/ pc'[q] = "upload"
        \/ pc'[q] = "flushed" /\ rc'[q] = "HW_LEFT_FLOATING"
        \/ pc'[q] = "clock" /\ idx'[q] = 1
    BY <1>0, <1>3 DEF UploadChunk, FlushTypes
  <2>2. wr'[q] = 0
    BY <1>3 DEF ClockingInv, Progress, UploadChunk
  <2>3. CASE pc'[q] = "clock" /\ idx'[q] = 1
    <3>1. \A j \in Ports : ~(j < 1)
      BY DEF Ports
    <3> QED
      BY <2>2, <2>3, <3>1 DEF PllInv, SetUpBefore, PllBefore, Succeeded
  <2> QED
    BY <2>1, <2>3, PllElsewhere
<1>4. CASE FlushCheckValid(q) \/ InhibitTx(q)
  <2>1. \/ pc'[q] \in {"inhibit", "reset"}
        \/ pc'[q] = "flushed" /\ rc'[q] \in {"STAGING_AREA_INVALID", "HW_NOT_RESPONDING"}
    BY <1>0, <1>4 DEF FlushCheckValid, InhibitTx, FlushTypes
  <2> QED
    BY <2>1, PllElsewhere
<1>5. CASE PollBusy(q) \/ UploadRefused(q)
  <2>1. \/ pc'[q] \in {"poll", "upload"}
        \/ pc'[q] = "flushed" /\ rc'[q] \in {"HW_LEFT_FLOATING", "HW_NOT_RESPONDING"}
    BY <1>0, <1>5 DEF PollBusy, UploadRefused, FlushTypes
  <2> QED
    BY <2>1, PllElsewhere
<1>6. CASE StartFlush(q) \/ ClockingCrash(q)
  <2>1. pc'[q] \in {"flush", "idle"}
    BY <1>0, <1>6 DEF StartFlush, ClockingCrash, FlushCrash, FlushTypes
  <2> QED
    BY <2>1, PllElsewhere
<1>7. CASE VerifyStatus(q) /\ UNCHANGED <<regs, wr>>
  <2>1. /\ pc[q] = "verify" /\ pc'[q] = "flushed" /\ UNCHANGED <<mem, dry, load, clk, regs>>
    BY <1>0, <1>7 DEF VerifyStatus, FlushTypes
  <2>2. /\ load.cfg = mem[q] /\ SetUpBefore(q, NumPorts + 1) /\ PllBefore(q, NumPorts + 1)
    BY <2>1 DEF PllInv
  <2> QED
    BY <2>1, <2>2
    DEF PllInv, SetUpBefore, PllBefore, UsesPll, Mode, PhyMode, PllRuns, Held
<1>8. CASE (SwitchReady /\ UNCHANGED <<regs, wr>>) \/ UNCHANGED clockingVars
  <2>1. UNCHANGED <<pc, mem, rc, dry, idx, load, clk, regs, wr>>
    BY <1>8 DEF SwitchReady, GetReady, clockingVars
  <2> QED
    BY <2>1
    DEF PllInv, SetUpBefore, PllBefore, UsesPll, Mode, PhyMode, PllRuns, Held, Succeeded
<1> QED
  BY <1>1, <1>2, <1>3, <1>4, <1>5, <1>6, <1>7, <1>8 DEF ClockingNext, ClockingStep

(***************************************************************************)
(* One flush at a time, and no transfer fails: when it returns 0 every     *)
(* port has every clock it needs, whatever the ports set up after it wrote *)
(* and whatever a flush that was killed had left.                          *)
(***************************************************************************)
THEOREM OkMeansClocksRun ==
    ASSUME NEW q, Proc = {q}, NumPorts <= 5, Outcomes = {"ok"}
    PROVE  ClockingSpec => []OkMeansEveryClockRuns
<1>1. ClockingInit => RegsInv(q) /\ PllInv(q)
  BY RegsInit, PllInit
<1>2. /\ TypeOK /\ ClockingInv /\ RegsInv(q) /\ PllInv(q) /\ [ClockingNext]_clockingVars
      => RegsInv(q)' /\ PllInv(q)'
  BY RegsStep, PllStep
<1>3. RegsInv(q) /\ PllInv(q) => OkMeansEveryClockRuns
  <2> SUFFICES ASSUME RegsInv(q), PllInv(q), Succeeded(q), NEW i \in Ports, NEW n \in Needs(mem[q], i)
               PROVE  ClockAt(i, n[1]) = n[2]
    BY DEF OkMeansEveryClockRuns
  <2>1. /\ load.cfg = mem[q] /\ SetUpBefore(q, NumPorts + 1) /\ PllBefore(q, NumPorts + 1)
    BY DEF PllInv
  <2>2. i \in 1..5 /\ i < NumPorts + 1
    BY NumPortsAssumption DEF Ports
  <2>3. Mode(mem[q], i) # 3
    BY DEF Needs
  <2>4. clk[i] # Unset
    BY <2>1, <2>2, <2>3 DEF SetUpBefore
  <2>5. NeedsWrites(mem[q], i) /\ Done(regs, mem[q], i, WriteCount(mem[q], i))
    BY <2>1, <2>4 DEF RegsInv, PortsAreDone, PortDoneIn
  <2>6. Clocked(mem[q], i)
    BY <2>2, <2>5, DoneMeansClocked
  <2>7. UsesPll(mem[q], i) => PllRuns
    BY <2>1, <2>2 DEF PllBefore
  <2> QED
    BY <2>6, <2>7 DEF Clocked
<1> QED
  BY <1>1, <1>2, <1>3, ClockingInvariant, PTL DEF ClockingSpec
-----------------------------------------------------------------------------
LEMMA DryStepIsSilent ==
    ASSUME TypeOK, NEW p \in Proc, dry[p], ClockingStep(p)
    PROVE  UNCHANGED <<hwVars, regs>>
<1>1. CASE ClockWrite(p)
  <2>1. PICK o \in Outcomes :
          /\ \E w : Stored(p, o, w)
          /\ NextWrite(p) \/ \E last \in BOOLEAN : PortDone(p, o, last)
    BY <1>1 DEF ClockWrite
  <2>2. regs' = regs
    BY <2>1 DEF Stored
  <2>3. UNCHANGED hwVars
    BY <2>1 DEF NextWrite, PortDone, Transfer
  <2> QED
    BY <2>2, <2>3
<1>2. CASE ClockNoWrite(p)
  BY <1>2 DEF ClockNoWrite, ClockingSetup, Transfer
<1>3. CASE ResetRegisters(p)
  <2>1. PICK o \in Outcomes :
          Transfer(p, o, TakeColdReset) /\ down' = [down EXCEPT ![p] = ~dry[p] /\ o # "lost"]
    BY <1>3 DEF ResetRegisters, ColdReset
  <2>2. ~down'[p]
    BY <2>1 DEF TypeOK
  <2> QED
    BY <1>3, <2>1, <2>2 DEF ResetRegisters, Transfer
<1>4. CASE /\ \/ FlushCheckValid(p) \/ InhibitTx(p) \/ PollBusy(p)
              \/ UploadRefused(p) \/ UploadChunk(p) \/ VerifyStatus(p)
           /\ UNCHANGED <<regs, wr>>
  BY <1>4 DEF FlushCheckValid, InhibitTx, PollBusy, UploadRefused, UploadChunk, VerifyStatus,
     Transfer
<1> QED
  BY <1>1, <1>2, <1>3, <1>4 DEF ClockingStep

\* A port is left for the next one, or for the status.
LEMMA NextPortMoves ==
    ASSUME TypeOK, NEW p \in Proc, pc[p] = "clock", NextPort(p)
    PROVE  Moved(p)
BY DEF TypeOK, NextPort, Moved

LEMMA StepMoves ==
    ASSUME TypeOK, ClockingInv, NEW p \in Proc, ClockingStep(p)
    PROVE  Moved(p) \/ wr'[p] # wr[p] \/ UNCHANGED <<hwVars, regs>>
<1>0. pc \in [Proc -> FlushLabels \cup {"idle"}] /\ idx \in [Proc -> Nat] /\ wr \in [Proc -> Nat]
  BY DEF TypeOK, ClockingInv
<1>1. CASE ClockWrite(p)
  <2>1. pc[p] = "clock" /\ (NextWrite(p) \/ NextPort(p))
    BY <1>1 DEF ClockWrite, PortDone
  <2>2. NextWrite(p) => wr'[p] # wr[p]
    BY <1>0 DEF NextWrite
  <2> QED
    BY <2>1, <2>2, NextPortMoves
<1>2. CASE ClockNoWrite(p)
  <2>1. /\ pc[p] = "clock" /\ UNCHANGED regs
        /\ pc' = [pc EXCEPT ![p] = "flushed"] \/ NextPort(p)
    BY <1>2 DEF ClockNoWrite, ClockingSetup
  <2> QED
    BY <1>0, <2>1, NextPortMoves DEF Moved
<1>3. CASE ResetRegisters(p)
  <2>1. pc[p] = "reset" /\ pc'[p] \in {"flushed", "poll", "upload"}
    BY <1>0, <1>3 DEF ResetRegisters, ColdReset
  <2> QED
    BY <2>1 DEF Moved
<1>4. CASE InhibitTx(p)
  <2>1. pc[p] = "inhibit" /\ pc'[p] \in {"flushed", "reset"}
    BY <1>0, <1>4 DEF InhibitTx
  <2> QED
    BY <2>1 DEF Moved
<1>5. CASE UploadChunk(p)
  <2>1. /\ pc[p] = "upload"
        /\ \/ pc'[p] \in {"flushed", "clock"}
           \/ idx' = [idx EXCEPT ![p] = @ + 1]
    BY <1>0, <1>5 DEF UploadChunk
  <2> QED
    BY <1>0, <2>1 DEF Moved
<1>6. CASE /\ FlushCheckValid(p) \/ PollBusy(p) \/ UploadRefused(p) \/ VerifyStatus(p)
           /\ UNCHANGED <<regs, wr>>
  BY <1>6 DEF FlushCheckValid, PollBusy, UploadRefused, VerifyStatus
<1> QED
  BY <1>1, <1>2, <1>3, <1>4, <1>5, <1>6 DEF ClockingStep

(***************************************************************************)
(* No message of a flush in dry run reaches the switch: neither those of   *)
(* an upload nor the register writes of the clock setup, whatever other    *)
(* flushes, any number of them, do between its steps.                      *)
(***************************************************************************)
THEOREM DryRunStaysDry == ClockingSpec => DryRunIsDry
<1> DEFINE Touched == SwitchTouched \/ regs' # regs
           ByAnother == \E p \in Proc : ~dry[p] /\ (Moved(p) \/ wr'[p] # wr[p])
<1>0. UNCHANGED <<hwVars, regs>> => ~Touched
  BY DEF SwitchTouched
<1>1. ASSUME TypeOK, ClockingInv, NEW p \in Proc, ClockingStep(p), Touched
      PROVE  ByAnother
  BY <1>0, <1>1, DryStepIsSilent, StepMoves
<1>2. ASSUME NEW p \in Proc, StartFlush(p) /\ UNCHANGED <<regs, wr>> PROVE ~Touched
  BY <1>0, <1>2 DEF StartFlush
<1>3. ASSUME NEW p \in Proc, ClockingCrash(p) PROVE ~Touched
  BY <1>0, <1>3 DEF ClockingCrash, FlushCrash
<1>4. SwitchReady /\ UNCHANGED <<regs, wr>> => ~Touched
  BY DEF SwitchReady, GetReady, SwitchTouched
<1>5. UNCHANGED clockingVars => ~Touched
  BY <1>0 DEF clockingVars
<1>6. TypeOK /\ ClockingInv /\ [ClockingNext]_clockingVars => [Touched => ByAnother]_clockingVars
  BY <1>1, <1>2, <1>3, <1>4, <1>5 DEF ClockingNext
<1> QED
  BY <1>6, ClockingInvariant, PTL DEF ClockingSpec, DryRunIsDry
=============================================================================
