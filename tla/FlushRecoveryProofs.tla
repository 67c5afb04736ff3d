------------------------ MODULE FlushRecoveryProofs -------------------------
(***************************************************************************)
(* One flush at a time: what the code it returns tells after a failure,    *)
(* that a flush heals what earlier failures and crashes have left, and     *)
(* that on real hardware it implements SwitchUpdate.                       *)
(***************************************************************************)
EXTENDS FlushRefinement, FlushProofs

USE DEF Goto, Return, Fail, toolVars, hwVars, flushVars, vars

\* A flush polls only with static FDB entries and counts as having taken the
\* switch down only after a reset on hardware.
DownInv ==
    \A p \in Proc :
      /\ pc[p] \in {"flush", "inhibit", "reset"} \/ dry[p] => ~down[p]
      /\ pc[p] = "poll" => Count(mem[p], "l2_lookup") > 0

FloatInv == DownInv /\ FloatingIsReported

LEMMA FloatStep ==
    ASSUME NEW q, Proc = {q}
    PROVE  TypeOK /\ FloatInv /\ [Next]_vars => FloatInv'
  <1> SUFFICES ASSUME TypeOK, FloatInv, [Next]_vars PROVE FloatInv'
    OBVIOUS
  <1>0. /\ pc \in [Proc -> FlushLabels \cup {"idle"}] /\ rc \in [Proc -> ErrorCodes]
        /\ mem \in [Proc -> Config] /\ dry \in [Proc -> BOOLEAN] /\ down \in [Proc -> BOOLEAN]
    BY DEF TypeOK
  <1> USE <1>0 DEF FloatInv, DownInv, FloatingIsReported
  <1>1. ASSUME NEW p \in Proc, StartFlush(p) PROVE FloatInv'
    BY <1>1 DEF StartFlush
  <1>2. ASSUME NEW p \in Proc, FlushCheckValid(p) PROVE FloatInv'
    BY <1>2 DEF FlushCheckValid
  <1>3. ASSUME NEW p \in Proc, InhibitTx(p) PROVE FloatInv'
    BY <1>3 DEF InhibitTx
  <1>4. ASSUME NEW p \in Proc, ColdReset(p) PROVE FloatInv'
    <2>1. /\ pc'[p] = "flushed" => rc'[p] = "HW_LEFT_FLOATING"
          /\ pc'[p] = "poll" => Count(mem[p], "l2_lookup") > 0
          /\ pc'[p] \in {"poll", "upload", "flushed"}
      BY <1>4 DEF ColdReset
    <2>2. dry'[p] => ~down'[p]
      BY <1>4 DEF ColdReset
    <2> QED
      BY <1>4, <2>1, <2>2 DEF ColdReset
  <1>5. ASSUME NEW p \in Proc, PollBusy(p) PROVE FloatInv'
    BY <1>5 DEF PollBusy
  <1>6. ASSUME NEW p \in Proc, UploadRefused(p) PROVE FloatInv'
    BY <1>6 DEF UploadRefused
  <1>7. ASSUME NEW p \in Proc, UploadChunk(p) PROVE FloatInv'
    BY <1>7 DEF UploadChunk
  <1>8. ASSUME NEW p \in Proc, ClockingSetup(p) PROVE FloatInv'
    <2>1. /\ pc'[p] \in {"clock", "verify", "flushed"}
          /\ pc'[p] = "flushed" => rc'[p] = "HW_LEFT_FLOATING" \/ dry[p]
      BY <1>8 DEF ClockingSetup, NextPort
    <2> QED
      BY <1>8, <2>1 DEF ClockingSetup
  <1>9. ASSUME NEW p \in Proc, VerifyStatus(p) PROVE FloatInv'
    BY <1>9 DEF VerifyStatus, Status
  <1>10. ASSUME NEW p \in Proc, FlushCrash(p) PROVE FloatInv'
    BY <1>10 DEF FlushCrash
  <1>11. CASE SwitchReady
    BY <1>11 DEF SwitchReady, GetReady
  <1>12. CASE UNCHANGED vars
    BY <1>12
  <1> QED
    BY <1>1, <1>2, <1>3, <1>4, <1>5, <1>6, <1>7, <1>8, <1>9, <1>10, <1>11, <1>12
    DEF Next, FlushStep

(***************************************************************************)
(* A switch left without a configuration is reported as such.              *)
(***************************************************************************)
THEOREM FloatingReported ==
    ASSUME NEW q, Proc = {q} PROVE Spec => []FloatingIsReported
  <1>1. Init => FloatInv
    BY DEF Init, FloatInv, DownInv, FloatingIsReported
  <1>2. TypeOK /\ FloatInv /\ [Next]_vars => FloatInv'
    BY FloatStep
  <1>3. FloatInv => FloatingIsReported
    BY DEF FloatInv
  <1> QED
    BY <1>1, <1>2, <1>3, TypeCorrect, PTL DEF Spec
-----------------------------------------------------------------------------
(***************************************************************************)
(* The stream of messages the switch has received is the part of the       *)
(* configuration that has been sent since the reset.                       *)
(***************************************************************************)
Streaming ==
    \A p \in Proc : pc[p] \in {"poll", "upload"} /\ ~dry[p] =>
      /\ running = None
      /\ ~load.bad /\ ~load.ids
      /\ load.got = idx[p]
      /\ idx[p] > 0 => load.cfg = mem[p]

Delivered ==
    \A p \in Proc : pc[p] \in {"clock", "verify"} /\ ~dry[p] /\ mem[p].dev = HwDevice =>
      /\ running = mem[p]
      /\ ~load.bad /\ ~load.ids

ClockPorts == \A p \in Proc : pc[p] = "clock" => idx[p] \in Ports

PollsAtStart == \A p \in Proc : pc[p] = "poll" => idx[p] = 0

HealInv == Streaming /\ Delivered /\ ClockPorts /\ PollsAtStart /\ RetryHeals

LEMMA ConfigIsNotNone == ASSUME NEW c \in Config, c.dev = HwDevice PROVE c # None
  BY HwDeviceAssumption, NoDeviceIsNoId DEF None

LEMMA HealStep ==
    ASSUME NEW q, Proc = {q}, Outcomes = {"ok"}
    PROVE  TypeOK /\ HealInv /\ [Next]_vars => HealInv'
  <1> SUFFICES ASSUME TypeOK, HealInv, [Next]_vars PROVE HealInv'
    OBVIOUS
  <1>0. /\ pc \in [Proc -> FlushLabels \cup {"idle"}] /\ rc \in [Proc -> ErrorCodes]
        /\ mem \in [Proc -> Config] /\ dry \in [Proc -> BOOLEAN]
        /\ idx \in [Proc -> Nat] /\ retries \in [Proc -> 0..MaxRetries]
        /\ load \in LoadType
    BY DEF TypeOK, LoadType
  <1> USE <1>0 DEF HealInv, Streaming, Delivered, ClockPorts, PollsAtStart, RetryHeals
  <1>1. ASSUME NEW p \in Proc, StartFlush(p) PROVE HealInv'
    BY <1>1 DEF StartFlush
  <1>2. ASSUME NEW p \in Proc, FlushCheckValid(p) PROVE HealInv'
    BY <1>2 DEF FlushCheckValid, Acceptable
  <1>3. ASSUME NEW p \in Proc, InhibitTx(p) PROVE HealInv'
    BY <1>3 DEF InhibitTx
  <1>4. ASSUME NEW p \in Proc, ColdReset(p) PROVE HealInv'
    <2>1. pc'[p] \in {"poll", "upload"} /\ idx'[p] = 0
      BY <1>4 DEF ColdReset
    <2>2. ~dry[p] => running' = None /\ load' = NoLoad
      BY <1>4 DEF ColdReset, Transfer, TakeColdReset
    <2> QED
      BY <1>4, <2>1, <2>2 DEF ColdReset, NoLoad
  <1>5. ASSUME NEW p \in Proc, PollBusy(p) PROVE HealInv'
    <2>1. pc'[p] = "flushed" => rc'[p] = "HW_NOT_RESPONDING" /\ retries'[p] = 0
      BY <1>5 DEF PollBusy
    <2>2. pc'[p] \in {"poll", "upload", "flushed"}
      BY <1>5 DEF PollBusy
    <2> QED
      BY <1>5, <2>1, <2>2 DEF PollBusy
  <1>6. ASSUME NEW p \in Proc, UploadRefused(p) PROVE HealInv'
    BY <1>6, HwDeviceAssumption DEF UploadRefused, Acceptable
  <1>7. ASSUME NEW p \in Proc, UploadChunk(p) PROVE HealInv'
    <2> DEFINE c == mem[p]  n == idx[p]
    <2>0. /\ pc[p] = "upload" /\ UNCHANGED <<mem, dry, retries>>
          /\ \/ pc'[p] = "upload" /\ n + 1 < Chunks(c) /\ idx'[p] = n + 1
             \/ pc'[p] = "clock" /\ ~(n + 1 < Chunks(c)) /\ idx'[p] = 1
      BY <1>7 DEF UploadChunk
    <2>1. Ports = 1..NumPorts /\ 1 \in Ports
      BY NumPortsAssumption DEF Ports
    <2>2. CASE dry[p]
      BY <2>0, <2>1, <2>2
    <2>3. CASE ~dry[p]
      <3>1. TakeChunk(c, n)
        BY <1>7, <2>3 DEF UploadChunk, Transfer
      <3>2. ~(running # None \/ load.bad \/ load.ids) /\ ~(n # load.got \/ (n > 0 /\ c # load.cfg))
        BY <2>0, <2>3
      <3>3. CASE n + 1 < Chunks(c)
        <4>1. load' = [load EXCEPT !.cfg = c, !.got = n + 1] /\ UNCHANGED running
          BY <3>1, <3>2, <3>3 DEF TakeChunk
        <4>2. load'.cfg = c /\ load'.got = n + 1 /\ ~load'.bad /\ ~load'.ids
          BY <3>2, <4>1 DEF LoadType
        <4> QED
          BY <2>0, <3>2, <3>3, <4>1, <4>2
      <3>4. CASE ~(n + 1 < Chunks(c))
        <4>1. /\ load' = [load EXCEPT !.cfg = c, !.got = n + 1, !.ids = c.dev # HwDevice]
              /\ running' = IF c.dev = HwDevice THEN c ELSE None
          BY <3>1, <3>2, <3>4 DEF TakeChunk
        <4>2. c.dev = HwDevice => running' = c /\ ~load'.bad /\ ~load'.ids
          BY <3>2, <4>1 DEF LoadType
        <4> QED
          BY <2>0, <2>1, <3>4, <4>2
      <3> QED
        BY <3>3, <3>4
    <2> QED
      BY <2>2, <2>3
  <1>8. ASSUME NEW p \in Proc, ClockingSetup(p) PROVE HealInv'
    <2>1. UNCHANGED <<running, load, mem, dry, retries>> /\ pc[p] = "clock" /\ idx[p] \in Ports
      BY <1>8 DEF ClockingSetup, Transfer, SetClock
    <2>2. pc'[p] \in {"clock", "verify", "flushed"}
      BY <1>8 DEF ClockingSetup, NextPort
    <2>3. pc'[p] = "clock" => idx'[p] \in Ports
      BY <1>8, <2>1, NumPortsAssumption DEF ClockingSetup, NextPort, Ports
    <2>4. pc'[p] = "flushed" /\ ~dry[p] => ~Acceptable(mem[p])
      <3>1. SUFFICES ASSUME Acceptable(mem[p]), ~dry[p] PROVE pc'[p] # "flushed"
        OBVIOUS
      <3>2. /\ Speed(mem[p], idx[p]) \in {1, 2, 3}
            /\ Mode(mem[p], idx[p]) \in {0, 1, 2}
                 \/ (Mode(mem[p], idx[p]) = 3 /\ IsPQRS(HwDevice))
        BY <2>1, <3>1 DEF Acceptable
      <3> QED
        BY <1>8, <3>1, <3>2 DEF ClockingSetup, NextPort, SetupDevice
    <2>5. Acceptable(mem[p])' => Acceptable(mem[p])
      BY <2>1 DEF Acceptable, CheckValid, Speed, Mode, Count, Full, FrameMemory
    <2> QED
      BY <2>1, <2>2, <2>3, <2>4, <2>5
  <1>9. ASSUME NEW p \in Proc, VerifyStatus(p) PROVE HealInv'
    <2>1. CASE Acceptable(mem[p]) /\ ~dry[p]
      <3>1. running # None /\ ~load.bad /\ ~load.ids
        BY <1>9, <2>1, ConfigIsNotNone DEF VerifyStatus, Acceptable
      <3> QED
        BY <1>9, <3>1 DEF VerifyStatus, Status
    <2>2. CASE ~(Acceptable(mem[p]) /\ ~dry[p])
      BY <1>9, <2>2 DEF VerifyStatus
    <2> QED
      BY <2>1, <2>2
  <1>10. ASSUME NEW p \in Proc, FlushCrash(p) PROVE HealInv'
    BY <1>10 DEF FlushCrash
  <1>11. CASE SwitchReady
    BY <1>11 DEF SwitchReady, GetReady
  <1>12. CASE UNCHANGED vars
    BY <1>12
  <1> QED
    BY <1>1, <1>2, <1>3, <1>4, <1>5, <1>6, <1>7, <1>8, <1>9, <1>10, <1>11, <1>12
    DEF Next, FlushStep

(***************************************************************************)
(* When no transfer fails, a flush of an acceptable configuration succeeds *)
(* wherever an earlier one was killed.                                     *)
(***************************************************************************)
THEOREM FlushHeals ==
    ASSUME NEW q, Proc = {q}, Outcomes = {"ok"} PROVE Spec => []RetryHeals
  <1>1. Init => HealInv
    BY DEF Init, HealInv, Streaming, Delivered, ClockPorts, PollsAtStart, RetryHeals
  <1>2. TypeOK /\ HealInv /\ [Next]_vars => HealInv'
    BY HealStep
  <1>3. HealInv => RetryHeals
    BY DEF HealInv
  <1> QED
    BY <1>1, <1>2, <1>3, TypeCorrect, PTL DEF Spec
-----------------------------------------------------------------------------
(***************************************************************************)
(* static_config_flush, run by one process at a time on real hardware,     *)
(* implements SwitchUpdate.                                                *)
(***************************************************************************)

USE SoleUploaderAssumption DEF Goto, Return, Fail, toolVars, hwVars, flushVars, vars

\* No flush is in dry run, because none is started in dry run.
OnHardware == ~dry[Uploader]

LEMMA HardwareStep == TypeOK /\ OnHardware /\ [Next]_vars => OnHardware'
  <1> SUFFICES ASSUME TypeOK, OnHardware, [Next]_vars PROVE OnHardware'
    OBVIOUS
  <1>1. CASE StartFlush(Uploader)
    BY <1>1, OnHardwareAssumption DEF StartFlush, TypeOK, OnHardware
  <1>2. CASE FlushStep(Uploader)
    BY <1>2 DEF OnHardware, FlushStep, FlushCheckValid, InhibitTx, ColdReset, PollBusy,
         UploadRefused, UploadChunk, ClockingSetup, VerifyStatus
  <1>3. CASE FlushCrash(Uploader) \/ SwitchReady
    BY <1>3 DEF OnHardware, FlushCrash, SwitchReady
  <1>4. CASE UNCHANGED vars
    BY <1>4 DEF OnHardware
  <1> QED
    BY <1>1, <1>2, <1>3, <1>4 DEF Next

RefinementInv == TypeOK /\ SoleInv /\ OnHardware

LEMMA RefinementInvariant == Spec => []RefinementInv
  <1>1. Init => OnHardware
    BY DEF Init, OnHardware
  <1>2. Init => SoleInv
    BY DEF Init, SoleInv, RunsOwn, AfterReset, OkMeansRunning, Succeeded
  <1>3. TypeOK /\ SoleInv /\ [Next]_vars => SoleInv'
    BY SoleStep
  <1> QED
    BY <1>1, <1>2, <1>3, HardwareStep, TypeCorrect, PTL DEF Spec, RefinementInv

-----------------------------------------------------------------------------
LEMMA RefinesInit == Init => Update!UpdateInit
  BY DEF Init, Update!UpdateInit, VerdictOf

LEMMA RefinesStep == RefinementInv /\ [Next]_vars => [Update!UpdateNext]_(Update!updateVars)
  <1> SUFFICES ASSUME RefinementInv, [Next]_vars
               PROVE  [Update!UpdateNext]_(Update!updateVars)
    OBVIOUS
  <1> DEFINE q == Uploader
  <1>0. /\ pc \in [Proc -> FlushLabels \cup {"idle"}] /\ rc \in [Proc -> ErrorCodes]
        /\ mem \in [Proc -> Config] /\ ~dry[q]
    BY DEF RefinementInv, TypeOK, OnHardware
  <1> USE <1>0 DEF VerdictOf, Update!UpdateNext, Update!updateVars
  <1>1. CASE StartFlush(q)
    <2>1. mem'[q] \in {u.cfg : u \in Uploads}
      BY <1>1 DEF StartFlush
    <2>2. pc'[q] = "flush" /\ UNCHANGED running
      BY <1>1 DEF StartFlush
    <2> QED
      BY <2>1, <2>2 DEF Update!Request
  <1>2. CASE FlushCheckValid(q)
    BY <1>2 DEF FlushCheckValid, Update!GiveUp
  <1>3. CASE InhibitTx(q)
    BY <1>3 DEF InhibitTx, Transfer, InhibitEgress, Update!GiveUp
  <1>4. CASE ColdReset(q)
    <2>1. /\ pc[q] = "reset" /\ UNCHANGED mem
          /\ pc'[q] \in {"poll", "upload"} \/ (pc'[q] = "flushed" /\ rc'[q] = "HW_LEFT_FLOATING")
      BY <1>4 DEF ColdReset
    <2>2. CASE running' = None
      BY <2>1, <2>2 DEF Update!TakeDown
    <2>3. CASE running' = running /\ pc'[q] = "flushed" /\ rc'[q] # "OK"
      BY <2>1, <2>3 DEF Update!GiveUp
    <2> QED
      BY <1>4, <2>2, <2>3 DEF ColdReset, Transfer, TakeColdReset
  <1>5. CASE PollBusy(q)
    BY <1>5 DEF PollBusy, Update!GiveUp
  <1>6. CASE UploadRefused(q)
    BY <1>6 DEF UploadRefused, Update!GiveUp
  <1>7. CASE UploadChunk(q)
    <2>1. /\ pc[q] = "upload" /\ UNCHANGED mem
          /\ pc'[q] \in {"upload", "clock"} \/ (pc'[q] = "flushed" /\ rc'[q] = "HW_LEFT_FLOATING")
      BY <1>7 DEF UploadChunk
    <2>2. running' = running \/ (running = None /\ running' \in {None, mem[q]})
      BY <1>7 DEF UploadChunk, Transfer, TakeChunk
    <2>3. CASE running' = running
      BY <2>1, <2>3 DEF Update!GiveUp
    <2>4. CASE running = None /\ running' = mem[q]
      BY <2>1, <2>4 DEF Update!BringUp
    <2> QED
      BY <2>2, <2>3, <2>4
  <1>8. CASE ClockingSetup(q)
    <2>1. UNCHANGED running
      BY <1>8 DEF ClockingSetup, Transfer, SetClock
    <2>2. /\ pc[q] = "clock" /\ UNCHANGED mem
          /\ pc'[q] \in {"clock", "verify"} \/ (pc'[q] = "flushed" /\ rc'[q] = "HW_LEFT_FLOATING")
      BY <1>8 DEF ClockingSetup, NextPort
    <2> QED
      BY <2>1, <2>2 DEF Update!GiveUp
  <1>9. CASE VerifyStatus(q)
    <2>1. running \in {None, mem[q]}
      BY <1>9 DEF VerifyStatus, RefinementInv, SoleInv, RunsOwn, AfterReset
    <2> QED
      BY <1>9, <2>1 DEF VerifyStatus, Status, Update!Confirm, Update!GiveUp
  <1>10. CASE FlushCrash(q)
    BY <1>10 DEF FlushCrash, Update!GiveUp
  <1>11. CASE SwitchReady
    BY <1>11 DEF SwitchReady, GetReady
  <1>12. CASE UNCHANGED vars
    BY <1>12
  <1> QED
    BY <1>1, <1>2, <1>3, <1>4, <1>5, <1>6, <1>7, <1>8, <1>9, <1>10, <1>11, <1>12
    DEF Next, FlushStep

(***************************************************************************)
(* Every step of a flush is a step of the abstract update or changes       *)
(* nothing the update speaks of.                                           *)
(***************************************************************************)
THEOREM FlushImplementsUpdate == Spec => ImplementsSwitchUpdate
  BY RefinesInit, RefinesStep, RefinementInvariant, PTL
  DEF Spec, ImplementsSwitchUpdate, Update!UpdateSpec
=============================================================================
