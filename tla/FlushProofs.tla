----------------------------- MODULE FlushProofs -----------------------------
(***************************************************************************)
(* Theorems about static_config_flush, for every number of ports, every    *)
(* table size, every set of configurations and, where it says so, every    *)
(* number of invocations.                                                  *)
(***************************************************************************)
EXTENDS Flush, TLAPS

USE DEF Goto, Return, Fail, toolVars, hwVars, flushVars, vars

(***************************************************************************)
(* Type correctness.  The poll loop enters with MaxRetries > 0 and leaves  *)
(* when the count reaches 0, so a poll never finds 0 retries left.         *)
(***************************************************************************)
PollsRemain == \A p \in Proc : pc[p] = "poll" => retries[p] > 0

TypeInv == TypeOK /\ PollsRemain

LEMMA NoDeviceIsNoId == NoDevice \notin DeviceIds
  BY DEF NoDevice, DeviceIds

LEMMA EmptyConfigType == EmptyConfig(NoDevice) \in Config
  BY DEF EmptyConfig, Config

LEMMA TypeInit == Init => TypeInv
  <1> SUFFICES ASSUME Init PROVE TypeInv
    OBVIOUS
  <1>1. mem \in [Proc -> Config]
    BY EmptyConfigType DEF Init
  <1>2. load \in [cfg : Config \cup {None}, got : Nat, bad : BOOLEAN, ids : BOOLEAN]
    BY DEF Init, NoLoad
  <1>3. rc \in [Proc -> ErrorCodes]
    BY DEF Init, ErrorCodes
  <1>4. pc \in [Proc -> FlushLabels \cup {"idle"}]
    BY DEF Init
  <1>5. retries \in [Proc -> 0..MaxRetries]
    BY MaxRetriesAssumption DEF Init
  <1>6. clk \in [Ports -> {Unset} \cup (Nat \X Nat)]
    BY DEF Init
  <1> QED
    BY <1>1, <1>2, <1>3, <1>4, <1>5, <1>6 DEF Init, TypeOK, PollsRemain, TypeInv

(***************************************************************************)
(* What the switch does with a message keeps its registers well typed.     *)
(***************************************************************************)
HwTypeOK ==
    /\ running \in Config \cup {None}
    /\ load \in [cfg : Config \cup {None}, got : Nat, bad : BOOLEAN, ids : BOOLEAN]
    /\ clk \in [Ports -> {Unset} \cup (Nat \X Nat)]
    /\ inhibited \in BOOLEAN
    /\ busy \in BOOLEAN

LoadType == [cfg : Config \cup {None}, got : Nat, bad : BOOLEAN, ids : BOOLEAN]

LEMMA NoLoadTyped == NoLoad \in LoadType
  BY DEF NoLoad, LoadType

LEMMA ResetTyped == HwTypeOK /\ TakeColdReset => HwTypeOK'
  <1> SUFFICES ASSUME HwTypeOK, TakeColdReset PROVE HwTypeOK'
    OBVIOUS
  <1>1. load' \in LoadType
    BY NoLoadTyped DEF TakeColdReset
  <1>2. clk' \in [Ports -> {Unset} \cup (Nat \X Nat)]
    BY DEF TakeColdReset
  <1> QED
    BY <1>1, <1>2 DEF HwTypeOK, TakeColdReset, LoadType

LEMMA ChunkTyped ==
    ASSUME NEW c \in Config, NEW n \in Nat, HwTypeOK, TakeChunk(c, n)
    PROVE  HwTypeOK'
  <1>1. running' \in Config \cup {None}
    BY DEF HwTypeOK, TakeChunk
  <1>2. load' \in [cfg : Config \cup {None}, got : Nat, bad : BOOLEAN, ids : BOOLEAN]
    <2>1. CASE UNCHANGED load
      BY <2>1 DEF HwTypeOK
    <2>2. CASE load' = [load EXCEPT !.bad = TRUE]
      BY <2>2 DEF HwTypeOK
    <2>3. CASE load' = [load EXCEPT !.cfg = c, !.got = n + 1]
      <3>1. load' = [cfg |-> c, got |-> n + 1, bad |-> load.bad, ids |-> load.ids]
        BY <2>3 DEF HwTypeOK
      <3> QED
        BY <3>1 DEF HwTypeOK
    <2>4. CASE load' = [load EXCEPT !.cfg = c, !.got = n + 1,
                                    !.ids = c.dev # HwDevice]
      <3>1. load' = [cfg |-> c, got |-> n + 1, bad |-> load.bad,
                     ids |-> c.dev # HwDevice]
        BY <2>4 DEF HwTypeOK
      <3> QED
        BY <3>1 DEF HwTypeOK
    <2> QED
      BY <2>1, <2>2, <2>3, <2>4 DEF TakeChunk
  <1> QED
    BY <1>1, <1>2 DEF HwTypeOK, TakeChunk

LEMMA TypeStep == TypeInv /\ [Next]_vars => TypeInv'
  <1> SUFFICES ASSUME TypeInv, [Next]_vars PROVE TypeInv'
    OBVIOUS
  <1> USE DEF TypeInv, TypeOK, PollsRemain, FlushLabels, ErrorCodes
  <1>0. HwTypeOK
    BY DEF HwTypeOK
  <1>1. ASSUME NEW p \in Proc, StartFlush(p) PROVE TypeInv'
    <2>1. mem' \in [Proc -> Config] /\ dry' \in [Proc -> BOOLEAN]
      BY <1>1, UploadsAssumption DEF StartFlush
    <2> QED
      BY <1>1, <2>1 DEF StartFlush
  <1>2. ASSUME NEW p \in Proc, FlushCheckValid(p) PROVE TypeInv'
    BY <1>2 DEF FlushCheckValid
  <1>3. ASSUME NEW p \in Proc, InhibitTx(p) PROVE TypeInv'
    BY <1>3 DEF InhibitTx, Transfer, InhibitEgress
  <1>4. ASSUME NEW p \in Proc, ColdReset(p) PROVE TypeInv'
    <2>1. HwTypeOK'
      BY <1>0, <1>4, ResetTyped DEF ColdReset, Transfer, HwTypeOK
    <2>2. down' \in [Proc -> BOOLEAN]
      BY <1>4 DEF ColdReset
    <2>3. retries' \in [Proc -> 0..MaxRetries] /\ retries'[p] > 0
      BY <1>4, MaxRetriesAssumption DEF ColdReset
    <2> QED
      BY <1>4, <2>1, <2>2, <2>3 DEF ColdReset, HwTypeOK
  <1>5. ASSUME NEW p \in Proc, PollBusy(p) PROVE TypeInv'
    <2>1. CASE UNCHANGED retries
      BY <1>5, <2>1 DEF PollBusy
    <2>2. CASE retries' = [retries EXCEPT ![p] = @ - 1]
      <3>1. retries[p] \in 1..MaxRetries
        BY <1>5 DEF PollBusy
      <3>2. retries' \in [Proc -> 0..MaxRetries]
        BY <2>2, <3>1, MaxRetriesAssumption
      <3>3. CASE retries[p] = 1
        BY <1>5, <2>2, <3>2, <3>3 DEF PollBusy
      <3>4. CASE retries[p] # 1
        BY <1>5, <2>2, <3>1, <3>2, <3>4, MaxRetriesAssumption DEF PollBusy
      <3> QED
        BY <3>3, <3>4
    <2> QED
      BY <1>5, <2>1, <2>2 DEF PollBusy
  <1>6. ASSUME NEW p \in Proc, UploadRefused(p) PROVE TypeInv'
    BY <1>6 DEF UploadRefused
  <1>7. ASSUME NEW p \in Proc, UploadChunk(p) PROVE TypeInv'
    <2>1. HwTypeOK'
      BY <1>0, <1>7, ChunkTyped DEF UploadChunk, Transfer, HwTypeOK
    <2> QED
      BY <1>7, <2>1 DEF UploadChunk, HwTypeOK
  <1>8. ASSUME NEW p \in Proc, ClockingSetup(p) PROVE TypeInv'
    <2>1. HwTypeOK'
      <3>1. CASE UNCHANGED hwVars
        BY <1>0, <3>1 DEF HwTypeOK
      <3>2. CASE /\ ClockSetting(mem[p], idx[p]) \in Nat \X Nat
                 /\ SetClock(idx[p], ClockSetting(mem[p], idx[p]))
        BY <1>0, <3>2 DEF HwTypeOK, SetClock
      <3> QED
        BY <1>8, <3>1, <3>2 DEF ClockingSetup, Transfer, ClockSetting
    <2>2. idx' \in [Proc -> Nat]
      BY <1>8 DEF ClockingSetup, NextPort
    <2> QED
      BY <1>8, <2>1, <2>2 DEF ClockingSetup, NextPort, HwTypeOK
  <1>9. ASSUME NEW p \in Proc, VerifyStatus(p) PROVE TypeInv'
    BY <1>9 DEF VerifyStatus
  <1>10. ASSUME NEW p \in Proc, FlushCrash(p) PROVE TypeInv'
    BY <1>10 DEF FlushCrash
  <1>11. CASE SwitchReady
    BY <1>11 DEF SwitchReady, GetReady
  <1>12. CASE UNCHANGED vars
    BY <1>12
  <1> QED
    BY <1>1, <1>2, <1>3, <1>4, <1>5, <1>6, <1>7, <1>8, <1>9, <1>10, <1>11, <1>12
    DEF Next, FlushStep

(***************************************************************************)
(* Every variable keeps its type, for any number of interleaved flushes.   *)
(***************************************************************************)
THEOREM TypeCorrect == Spec => []TypeOK
  <1>1. Spec => []TypeInv
    BY TypeInit, TypeStep, PTL DEF Spec
  <1>2. TypeInv => TypeOK
    BY DEF TypeInv
  <1> QED
    BY <1>1, <1>2, PTL

-----------------------------------------------------------------------------
(***************************************************************************)
(* Any number of flushes at a time.  Past its first step a flush holds a   *)
(* configuration that has passed check_valid, and only flushes past their  *)
(* first step send anything.                                               *)
(***************************************************************************)
Session == {"inhibit", "reset", "poll", "upload", "clock", "verify"}

SessionsValid == \A p \in Proc : pc[p] \in Session => CheckValid(mem[p])

ValidInv == SessionsValid /\ OnlyValidRuns

LEMMA ChunkIsValid ==
    ASSUME NEW c, NEW n, CheckValid(c), OnlyValidRuns, TakeChunk(c, n)
    PROVE  OnlyValidRuns'
  <1>1. CASE UNCHANGED running
    BY <1>1 DEF OnlyValidRuns
  <1>2. CASE running' = IF c.dev = HwDevice THEN c ELSE None
    BY <1>2 DEF OnlyValidRuns
  <1> QED
    BY <1>1, <1>2 DEF TakeChunk

\* Whatever else the process may be doing, at labels of its own.
LEMMA ValidFlush ==
    ASSUME NEW Labels, pc \in [Proc -> Labels], mem \in [Proc -> Config],
           ValidInv, NEW p \in Proc, FlushStep(p)
    PROVE  ValidInv'
  <1> USE DEF ValidInv, SessionsValid, Session
  <1>1. CASE FlushCheckValid(p)
    BY <1>1 DEF FlushCheckValid, OnlyValidRuns
  <1>2. CASE InhibitTx(p)
    <2>1. UNCHANGED running
      BY <1>2 DEF InhibitTx, Transfer, InhibitEgress
    <2> QED
      BY <1>2, <2>1 DEF InhibitTx, OnlyValidRuns
  <1>3. CASE ColdReset(p)
    <2>1. running' = running \/ running' = None
      BY <1>3 DEF ColdReset, Transfer, TakeColdReset
    <2>2. OnlyValidRuns'
      BY <2>1 DEF OnlyValidRuns
    <2> QED
      BY <1>3, <2>2 DEF ColdReset
  <1>4. CASE PollBusy(p)
    BY <1>4 DEF PollBusy, OnlyValidRuns
  <1>5. CASE UploadRefused(p)
    BY <1>5 DEF UploadRefused, OnlyValidRuns
  <1>6. CASE UploadChunk(p)
    <2>1. CheckValid(mem[p])
      BY <1>6 DEF UploadChunk
    <2>2. TakeChunk(mem[p], idx[p]) \/ UNCHANGED hwVars
      BY <1>6 DEF UploadChunk, Transfer
    <2>3. OnlyValidRuns'
      BY <2>1, <2>2, ChunkIsValid DEF OnlyValidRuns
    <2> QED
      BY <1>6, <2>3 DEF UploadChunk
  <1>7. CASE ClockingSetup(p)
    <2>1. UNCHANGED running
      BY <1>7 DEF ClockingSetup, Transfer, SetClock
    <2> QED
      BY <1>7, <2>1 DEF ClockingSetup, NextPort, OnlyValidRuns
  <1>8. CASE VerifyStatus(p)
    BY <1>8 DEF VerifyStatus, OnlyValidRuns
  <1> QED
    BY <1>1, <1>2, <1>3, <1>4, <1>5, <1>6, <1>7, <1>8 DEF FlushStep

LEMMA ValidStep == TypeOK /\ ValidInv /\ [Next]_vars => ValidInv'
  <1> SUFFICES ASSUME TypeOK, ValidInv, [Next]_vars PROVE ValidInv'
    OBVIOUS
  <1>0. pc \in [Proc -> FlushLabels \cup {"idle"}] /\ mem \in [Proc -> Config]
    BY DEF TypeOK
  <1>1. ASSUME NEW p \in Proc, StartFlush(p) PROVE ValidInv'
    BY <1>0, <1>1 DEF ValidInv, SessionsValid, Session, StartFlush, OnlyValidRuns
  <1>2. ASSUME NEW p \in Proc, FlushStep(p) PROVE ValidInv'
    BY <1>0, <1>2, ValidFlush
  <1>3. ASSUME NEW p \in Proc, FlushCrash(p) PROVE ValidInv'
    BY <1>0, <1>3 DEF ValidInv, SessionsValid, Session, FlushCrash, OnlyValidRuns
  <1>4. CASE SwitchReady
    BY <1>4 DEF ValidInv, SessionsValid, Session, SwitchReady, GetReady, OnlyValidRuns
  <1>5. CASE UNCHANGED vars
    BY <1>5 DEF ValidInv, SessionsValid, Session, OnlyValidRuns
  <1> QED
    BY <1>1, <1>2, <1>3, <1>4, <1>5 DEF Next

(***************************************************************************)
(* However many flushes interleave, fail or die, the switch never runs a   *)
(* configuration that check_valid refuses or that is for another device.   *)
(***************************************************************************)
THEOREM OnlyValidConfigurationsRun == Spec => []OnlyValidRuns
  <1>1. Init => ValidInv
    BY DEF Init, ValidInv, SessionsValid, Session, OnlyValidRuns
  <1>2. ValidInv => OnlyValidRuns
    BY DEF ValidInv
  <1> QED
    BY <1>1, <1>2, TypeCorrect, ValidStep, PTL DEF Spec

(***************************************************************************)
(* The strengthening of SomeoneReports: while the switch has no            *)
(* configuration, some process has not ended with a success on hardware.   *)
(***************************************************************************)
SomeoneKnows == running = None => \E p \in Proc : ~Succeeded(p)

LEMMA KnowsStep == TypeOK /\ SomeoneKnows /\ [Next]_vars => SomeoneKnows'
  <1> SUFFICES ASSUME TypeOK, SomeoneKnows, [Next]_vars PROVE SomeoneKnows'
    OBVIOUS
  <1>0. pc \in [Proc -> FlushLabels \cup {"idle"}] /\ rc \in [Proc -> ErrorCodes]
    BY DEF TypeOK
  <1> USE <1>0 DEF SomeoneKnows, Succeeded
  \* A process that is not at "flushed" with OK on hardware after its step.
  <1>a. ASSUME NEW p \in Proc, ~Succeeded(p)' PROVE SomeoneKnows'
    BY <1>a
  <1>1. ASSUME NEW p \in Proc, StartFlush(p) PROVE SomeoneKnows'
    BY <1>1, <1>a DEF StartFlush
  <1>2. ASSUME NEW p \in Proc, FlushCheckValid(p) PROVE SomeoneKnows'
    BY <1>2, <1>a DEF FlushCheckValid
  <1>3. ASSUME NEW p \in Proc, InhibitTx(p) PROVE SomeoneKnows'
    BY <1>3, <1>a DEF InhibitTx
  <1>4. ASSUME NEW p \in Proc, ColdReset(p) PROVE SomeoneKnows'
    BY <1>4, <1>a DEF ColdReset
  <1>5. ASSUME NEW p \in Proc, PollBusy(p) PROVE SomeoneKnows'
    BY <1>5, <1>a DEF PollBusy
  <1>6. ASSUME NEW p \in Proc, UploadRefused(p) PROVE SomeoneKnows'
    BY <1>6, <1>a DEF UploadRefused
  <1>7. ASSUME NEW p \in Proc, UploadChunk(p) PROVE SomeoneKnows'
    BY <1>7, <1>a DEF UploadChunk
  <1>8. ASSUME NEW p \in Proc, ClockingSetup(p) PROVE SomeoneKnows'
    <2>1. pc'[p] # "flushed" \/ rc'[p] # "OK" \/ dry'[p]
      BY <1>8 DEF ClockingSetup, NextPort
    <2> QED
      BY <2>1, <1>a
  <1>9. ASSUME NEW p \in Proc, VerifyStatus(p) PROVE SomeoneKnows'
    <2>1. CASE rc'[p] # "OK"
      BY <2>1, <1>a
    <2>2. CASE rc'[p] = "OK"
      BY <1>9, <2>2 DEF VerifyStatus, Status
    <2> QED
      BY <2>1, <2>2
  <1>10. ASSUME NEW p \in Proc, FlushCrash(p) PROVE SomeoneKnows'
    BY <1>10, <1>a DEF FlushCrash
  <1>11. CASE SwitchReady
    BY <1>11 DEF SwitchReady, GetReady
  <1>12. CASE UNCHANGED vars
    BY <1>12
  <1> QED
    BY <1>1, <1>2, <1>3, <1>4, <1>5, <1>6, <1>7, <1>8, <1>9, <1>10, <1>11, <1>12
    DEF Next, FlushStep

(***************************************************************************)
(* Flushes that spoil each other are not all told that they succeeded.     *)
(***************************************************************************)
THEOREM FloatingIsNoticed == ASSUME Proc # {} PROVE Spec => []SomeoneReports
  <1>1. Init => SomeoneKnows
    BY DEF Init, SomeoneKnows, Succeeded
  <1>2. SomeoneKnows => SomeoneReports
    BY DEF SomeoneKnows, SomeoneReports, Succeeded
  <1> QED
    BY <1>1, <1>2, TypeCorrect, KnowsStep, PTL DEF Spec
-----------------------------------------------------------------------------
(***************************************************************************)
(* One flush at a time: since its reset the switch has had no              *)
(* configuration or the one being uploaded.                                *)
(***************************************************************************)
AfterReset == {"poll", "upload", "clock", "verify"}

RunsOwn ==
    \A p \in Proc :
      pc[p] \in AfterReset /\ ~dry[p] => running \in {None, mem[p]}

SoleInv == RunsOwn /\ OkMeansRunning

\* Whatever else the process may be doing, at labels of its own.
LEMMA SoleFlush ==
    ASSUME NEW q, Proc = {q}, NEW Labels, pc \in [Proc -> Labels],
           rc \in [Proc -> ErrorCodes], mem \in [Proc -> Config], dry \in [Proc -> BOOLEAN],
           SoleInv, NEW p \in Proc, FlushStep(p)
    PROVE  SoleInv'
  <1> USE DEF SoleInv, RunsOwn, AfterReset, OkMeansRunning, Succeeded
  <1>1. CASE FlushCheckValid(p)
    BY <1>1 DEF FlushCheckValid
  <1>2. CASE InhibitTx(p)
    BY <1>2 DEF InhibitTx
  <1>3. CASE ColdReset(p)
    <2>1. pc'[p] \in {"poll", "upload"} /\ ~dry[p] => running' = None
      BY <1>3 DEF ColdReset, Transfer, TakeColdReset
    <2>2. pc'[p] \in {"poll", "upload"} \/ rc'[p] # "OK"
      BY <1>3 DEF ColdReset
    <2> QED
      BY <1>3, <2>1, <2>2 DEF ColdReset
  <1>4. CASE PollBusy(p)
    BY <1>4 DEF PollBusy
  <1>5. CASE UploadRefused(p)
    BY <1>5 DEF UploadRefused
  <1>6. CASE UploadChunk(p)
    <2>1. ~dry[p] => running' \in {None, mem[p]}
      BY <1>6 DEF UploadChunk, Transfer, TakeChunk
    <2>2. pc'[p] \in {"upload", "clock"} \/ rc'[p] # "OK"
      BY <1>6 DEF UploadChunk
    <2> QED
      BY <1>6, <2>1, <2>2 DEF UploadChunk
  <1>7. CASE ClockingSetup(p)
    <2>1. UNCHANGED running
      BY <1>7 DEF ClockingSetup, Transfer, SetClock
    <2>2. pc'[p] \in {"clock", "verify"} \/ rc'[p] # "OK" \/ dry'[p]
      BY <1>7 DEF ClockingSetup, NextPort
    <2> QED
      BY <1>7, <2>1, <2>2 DEF ClockingSetup
  <1>8. CASE VerifyStatus(p)
    BY <1>8 DEF VerifyStatus, Status
  <1> QED
    BY <1>1, <1>2, <1>3, <1>4, <1>5, <1>6, <1>7, <1>8 DEF FlushStep

LEMMA SoleStep ==
    ASSUME NEW q, Proc = {q}
    PROVE  TypeOK /\ SoleInv /\ [Next]_vars => SoleInv'
  <1> SUFFICES ASSUME TypeOK, SoleInv, [Next]_vars PROVE SoleInv'
    OBVIOUS
  <1>0. /\ pc \in [Proc -> FlushLabels \cup {"idle"}] /\ rc \in [Proc -> ErrorCodes]
        /\ mem \in [Proc -> Config] /\ dry \in [Proc -> BOOLEAN]
    BY DEF TypeOK
  <1>1. ASSUME NEW p \in Proc, FlushStep(p) PROVE SoleInv'
    BY <1>0, <1>1, SoleFlush
  <1> USE <1>0 DEF SoleInv, RunsOwn, AfterReset, OkMeansRunning, Succeeded
  <1>2. ASSUME NEW p \in Proc, StartFlush(p) PROVE SoleInv'
    BY <1>2 DEF StartFlush
  <1>3. ASSUME NEW p \in Proc, FlushCrash(p) PROVE SoleInv'
    BY <1>3 DEF FlushCrash
  <1>4. CASE SwitchReady
    BY <1>4 DEF SwitchReady, GetReady
  <1>5. CASE UNCHANGED vars
    BY <1>5
  <1> QED
    BY <1>1, <1>2, <1>3, <1>4, <1>5 DEF Next

(***************************************************************************)
(* One flush at a time: 0 means that the switch runs the configuration.    *)
(***************************************************************************)
THEOREM SuccessMeansRunning ==
    ASSUME NEW q, Proc = {q} PROVE Spec => []OkMeansRunning
  <1>1. Init => SoleInv
    BY DEF Init, SoleInv, RunsOwn, AfterReset, OkMeansRunning, Succeeded
  <1>2. TypeOK /\ SoleInv /\ [Next]_vars => SoleInv'
    BY SoleStep
  <1>3. SoleInv => OkMeansRunning
    BY DEF SoleInv
  <1> QED
    BY <1>1, <1>2, <1>3, TypeCorrect, PTL DEF Spec

(***************************************************************************)
(* One flush at a time: the mask written by sja1105_inhibit_tx is still    *)
(* there when the reset is sent.                                           *)
(***************************************************************************)
QuietBeforeReset ==
    \A p \in Proc : pc[p] = "reset" /\ ~dry[p] => inhibited

LEMMA QuietStep ==
    ASSUME NEW q, Proc = {q}
    PROVE  TypeOK /\ QuietBeforeReset /\ [Next]_vars => QuietBeforeReset'
  <1> SUFFICES ASSUME TypeOK, QuietBeforeReset, [Next]_vars PROVE QuietBeforeReset'
    OBVIOUS
  <1>0. pc \in [Proc -> FlushLabels \cup {"idle"}]
    BY DEF TypeOK
  <1> USE <1>0 DEF QuietBeforeReset
  <1>1. ASSUME NEW p \in Proc, InhibitTx(p) PROVE QuietBeforeReset'
    BY <1>1 DEF InhibitTx, Transfer, InhibitEgress
  <1>2. ASSUME NEW p \in Proc, pc'[p] # "reset" PROVE QuietBeforeReset'
    BY <1>2
  <1>3. ASSUME NEW p \in Proc, FlushStep(p), ~InhibitTx(p) PROVE pc'[p] # "reset"
    BY <1>3
    DEF FlushStep, FlushCheckValid, ColdReset, PollBusy, UploadRefused, UploadChunk,
        ClockingSetup, NextPort, VerifyStatus
  <1>4. ASSUME NEW p \in Proc, StartFlush(p) \/ FlushCrash(p) PROVE pc'[p] # "reset"
    BY <1>4 DEF StartFlush, FlushCrash
  <1>5. CASE SwitchReady
    BY <1>5 DEF SwitchReady, GetReady
  <1>6. CASE UNCHANGED vars
    BY <1>6
  <1> QED
    BY <1>1, <1>2, <1>3, <1>4, <1>5, <1>6 DEF Next

LEMMA OnlyResetsTakeDown ==
    ASSUME NEW p \in Proc, FlushStep(p), running # None, running' = None
    PROVE  ColdReset(p) /\ ~dry[p]
  BY DEF FlushStep, FlushCheckValid, InhibitTx, InhibitEgress, ColdReset, PollBusy,
         UploadRefused, UploadChunk, ClockingSetup, SetClock, VerifyStatus, Transfer, TakeChunk

(***************************************************************************)
(* One flush at a time: the switch loses its configuration only while the  *)
(* egress of its ports is inhibited.                                       *)
(***************************************************************************)
THEOREM ResetsAreQuiet ==
    ASSUME NEW q, Proc = {q} PROVE Spec => ResetOnlyWhenQuiet
  <1>1. Init => QuietBeforeReset
    BY DEF Init, QuietBeforeReset
  <1>2. TypeOK /\ QuietBeforeReset /\ [Next]_vars => QuietBeforeReset'
    BY QuietStep
  <1>3. QuietBeforeReset /\ [Next]_vars => [running # None /\ running' = None => inhibited]_vars
    <2> SUFFICES ASSUME QuietBeforeReset, Next, running # None, running' = None
                 PROVE  inhibited
      OBVIOUS
    <2>1. PICK p \in Proc : FlushStep(p)
      BY DEF Next, StartFlush, FlushCrash, SwitchReady, GetReady
    <2>2. ColdReset(p) /\ ~dry[p]
      BY <2>1, OnlyResetsTakeDown
    <2> QED
      BY <2>2 DEF ColdReset, QuietBeforeReset
  <1> QED
    BY <1>1, <1>2, <1>3, TypeCorrect, PTL DEF Spec, ResetOnlyWhenQuiet
=============================================================================
