------------------------------- MODULE Flush -------------------------------
(***************************************************************************)
(* static_config_flush (tool/staging-area.c) with the functions it calls:  *)
(* check_valid, sja1105_inhibit_tx, sja1105_cold_reset, static_config_upload *)
(* and its message loop, sja1105_clocking_setup, and the status checks.    *)
(*                                                                         *)
(* The SPI device is locked for one transfer at a time                     *)
(* (sja1105_spi_transfer), so every transfer is a step of its own and the  *)
(* transfers of two invocations interleave.                                *)
(***************************************************************************)
EXTENDS Tool, Switch

CONSTANTS
    MaxRetries,     \* polls of L2BUSYS before giving up: 100 in the code
    Outcomes,       \* what one SPI transfer may do, see Transfer
    Uploads         \* [cfg, dry] of the flushes that may be started

VARIABLES
    idx,            \* next message of the upload, next port of the CGU setup
    retries,        \* polls left
    down            \* history: this flush has put the switch through a reset

flushVars == <<idx, retries, down>>
vars == <<toolVars, hwVars, flushVars>>

ASSUME MaxRetriesAssumption == MaxRetries \in Nat \ {0}
ASSUME OutcomesAssumption == {"ok"} \subseteq Outcomes /\ Outcomes \subseteq {"ok", "lost", "late"}
ASSUME UploadsAssumption == Uploads \subseteq [cfg : Config, dry : BOOLEAN]

(***************************************************************************)
(* sja1105_spi_transfer: the switch takes the message and the call returns *)
(* 0 ("ok"); locking or the ioctl fails ("lost"); or the message went out  *)
(* but unlocking failed or the byte count is short ("late").  In dry run   *)
(* nothing is sent and the call succeeds.                                  *)
(***************************************************************************)
Transfer(p, outcome, Effect) ==
    IF dry[p] THEN outcome = "ok" /\ UNCHANGED hwVars
    ELSE IF outcome = "lost" THEN UNCHANGED hwVars
    ELSE Effect

Fail(p, code) == Return(p, code, "flushed")

\* Mutant: the configuration is not checked.
FlushCheckValid_Unchecked(p) ==
    /\ pc[p] = "flush"
    /\ Goto(p, "inhibit")
    /\ UNCHANGED <<mem, dry, hwVars, flushVars>>

\* The first lines of static_config_flush: nothing has been sent yet.
FlushCheckValid(p) ==
    /\ pc[p] = "flush"
    /\ IF CheckValid(mem[p]) THEN Goto(p, "inhibit")
       ELSE Fail(p, "STAGING_AREA_INVALID")
    /\ UNCHANGED <<mem, dry, hwVars, flushVars>>

\* Mutant: what sja1105_inhibit_tx returns is not looked at.
InhibitTx_Unchecked(p) ==
    /\ pc[p] = "inhibit"
    /\ \E o \in Outcomes : Transfer(p, o, InhibitEgress)
    /\ Goto(p, "reset")
    /\ UNCHANGED <<mem, dry, flushVars>>

InhibitTx(p) ==
    /\ pc[p] = "inhibit"
    /\ \E o \in Outcomes :
         /\ Transfer(p, o, InhibitEgress)
         /\ IF o = "ok" THEN Goto(p, "reset") ELSE Fail(p, "HW_NOT_RESPONDING")
    /\ UNCHANGED <<mem, dry, flushVars>>

\* Mutant: a failed reset is reported like a switch that does not respond.
ColdReset_WrongCode(p) ==
    /\ pc[p] = "reset"
    /\ \E o \in Outcomes :
         /\ Transfer(p, o, TakeColdReset)
         /\ IF o # "ok" THEN Fail(p, "HW_NOT_RESPONDING")
            ELSE IF ~dry[p] /\ Count(mem[p], "l2_lookup") > 0 THEN Goto(p, "poll")
            ELSE Goto(p, "upload")
         /\ down' = [down EXCEPT ![p] = ~dry[p] /\ o # "lost"]
    /\ retries' = [retries EXCEPT ![p] = MaxRetries]
    /\ idx' = [idx EXCEPT ![p] = 0]
    /\ UNCHANGED <<mem, dry>>

\* Mutant: the upload goes on where the last one stopped.
ColdReset_KeepsIndex(p) ==
    /\ pc[p] = "reset"
    /\ \E o \in Outcomes :
         /\ Transfer(p, o, TakeColdReset)
         /\ IF o # "ok" THEN Fail(p, "HW_LEFT_FLOATING")
            ELSE IF ~dry[p] /\ Count(mem[p], "l2_lookup") > 0 THEN Goto(p, "poll")
            ELSE Goto(p, "upload")
         /\ down' = [down EXCEPT ![p] = ~dry[p] /\ o # "lost"]
    /\ retries' = [retries EXCEPT ![p] = MaxRetries]
    /\ UNCHANGED <<mem, dry, idx>>

\* Cold reset; L2BUSYS is polled only with static FDB entries on real hardware.
ColdReset(p) ==
    /\ pc[p] = "reset"
    /\ \E o \in Outcomes :
         /\ Transfer(p, o, TakeColdReset)
         /\ IF o # "ok" THEN Fail(p, "HW_LEFT_FLOATING")
            ELSE IF ~dry[p] /\ Count(mem[p], "l2_lookup") > 0 THEN Goto(p, "poll")
            ELSE Goto(p, "upload")
         /\ down' = [down EXCEPT ![p] = ~dry[p] /\ o # "lost"]
    /\ retries' = [retries EXCEPT ![p] = MaxRetries]
    /\ idx' = [idx EXCEPT ![p] = 0]
    /\ UNCHANGED <<mem, dry>>

\* Mutant: the retry counter is tested before it is decremented.
PollBusy_OneTooMany(p) ==
    /\ pc[p] = "poll"
    /\ \E o \in Outcomes :
         IF o # "ok" THEN Fail(p, "HW_NOT_RESPONDING") /\ UNCHANGED retries
         ELSE IF ~Status.l2busys THEN Goto(p, "upload") /\ UNCHANGED retries
         ELSE /\ retries' = [retries EXCEPT ![p] = @ - 1]
              /\ IF retries[p] = 0 THEN Fail(p, "HW_NOT_RESPONDING")
                 ELSE Goto(p, "poll")
    /\ UNCHANGED <<mem, dry, hwVars, idx, down>>

\* Mutant: the counter is decremented but not tested, and wraps.
PollBusy_Forever(p) ==
    /\ pc[p] = "poll"
    /\ \E o \in Outcomes :
         IF o # "ok" THEN Fail(p, "HW_NOT_RESPONDING") /\ UNCHANGED retries
         ELSE IF ~Status.l2busys THEN Goto(p, "upload") /\ UNCHANGED retries
         ELSE /\ retries' = [retries EXCEPT ![p] = IF @ = 0 THEN MaxRetries ELSE @ - 1]
              /\ Goto(p, "poll")
    /\ UNCHANGED <<mem, dry, hwVars, idx, down>>

PollBusy(p) ==
    /\ pc[p] = "poll"
    /\ \E o \in Outcomes :
         IF o # "ok" THEN Fail(p, "HW_NOT_RESPONDING") /\ UNCHANGED retries
         ELSE IF ~Status.l2busys THEN Goto(p, "upload") /\ UNCHANGED retries
         ELSE /\ retries' = [retries EXCEPT ![p] = @ - 1]
              /\ IF retries[p] = 1 THEN Fail(p, "HW_NOT_RESPONDING")
                 ELSE Goto(p, "poll")
    /\ UNCHANGED <<mem, dry, hwVars, idx, down>>

\* static_config_upload: pack refuses an unknown device id before anything
\* is sent; then sja1105_spi_send_long_packed_buf sends message after message.
UploadRefused(p) ==
    /\ pc[p] = "upload"
    /\ mem[p].dev \notin DeviceIds
    /\ Fail(p, "HW_LEFT_FLOATING")
    /\ UNCHANGED <<mem, dry, hwVars, flushVars>>

UploadChunk(p) ==
    /\ pc[p] = "upload"
    /\ mem[p].dev \in DeviceIds
    /\ \E o \in Outcomes :
         /\ Transfer(p, o, TakeChunk(mem[p], idx[p]))
         /\ IF o # "ok"
            THEN Fail(p, "HW_LEFT_FLOATING") /\ UNCHANGED idx
            ELSE IF idx[p] + 1 < Chunks(mem[p])
            THEN Goto(p, "upload") /\ idx' = [idx EXCEPT ![p] = @ + 1]
            ELSE Goto(p, "clock") /\ idx' = [idx EXCEPT ![p] = 1]
    /\ UNCHANGED <<mem, dry, retries, down>>

(***************************************************************************)
(* sja1105_clocking_setup, one port a step.  Modes are XMII_SPEED_MII 0,   *)
(* RMII 1, RGMII 2, SGMII 3.  What the per-mode setup functions return is  *)
(* not looked at; SGMII needs no transfer and is accepted on P/Q/R/S, whose *)
(* device id is unknown in a dry run.                                      *)
(***************************************************************************)
Speed(c, i) == c.tab["mac_config"][i][1]
Mode(c, i) == c.tab["xmii_params"][1][i]
ClockSetting(c, i) == <<Mode(c, i), Speed(c, i)>>
SetupDevice(p) == IF dry[p] THEN NoDevice ELSE HwDevice

NextPort(p) ==
    IF idx[p] < NumPorts
    THEN Goto(p, "clock") /\ idx' = [idx EXCEPT ![p] = @ + 1]
    ELSE /\ IF dry[p] THEN Return(p, "OK", "flushed") ELSE Goto(p, "verify")
         /\ UNCHANGED idx

ClockingSetup(p) ==
    /\ pc[p] = "clock"
    /\ LET i == idx[p] IN
       IF Speed(mem[p], i) \notin {1, 2, 3}
       THEN Fail(p, "HW_LEFT_FLOATING") /\ UNCHANGED <<hwVars, idx>>
       ELSE IF Mode(mem[p], i) \in {0, 1, 2}
       THEN /\ \E o \in Outcomes :
                 Transfer(p, o, SetClock(i, ClockSetting(mem[p], i)))
            /\ NextPort(p)
       ELSE IF Mode(mem[p], i) = 3 /\ IsPQRS(SetupDevice(p))
       THEN NextPort(p) /\ UNCHANGED hwVars
       ELSE Fail(p, "HW_LEFT_FLOATING") /\ UNCHANGED <<hwVars, idx>>
    /\ UNCHANGED <<mem, dry, retries, down>>

\* Mutant: the status is read and none of its bits looked at.
VerifyStatus_Unread(p) ==
    /\ pc[p] = "verify"
    /\ \E o \in Outcomes :
         IF o # "ok" THEN Fail(p, "HW_LEFT_FLOATING") ELSE Return(p, "OK", "flushed")
    /\ UNCHANGED <<mem, dry, hwVars, flushVars>>

VerifyStatus(p) ==
    /\ pc[p] = "verify"
    /\ \E o \in Outcomes :
         IF o # "ok" \/ Status.ids \/ Status.crcchkl \/ Status.crcchkg
                     \/ ~Status.configs
         THEN Fail(p, "HW_LEFT_FLOATING")
         ELSE Return(p, "OK", "flushed")
    /\ UNCHANGED <<mem, dry, hwVars, flushVars>>

FlushStep(p) ==
    \/ FlushCheckValid(p)
    \/ InhibitTx(p)
    \/ ColdReset(p)
    \/ PollBusy(p)
    \/ UploadRefused(p)
    \/ UploadChunk(p)
    \/ ClockingSetup(p)
    \/ VerifyStatus(p)
-----------------------------------------------------------------------------
\* A flush is started, the first one or another one after the last.
StartFlush(p) ==
    /\ pc[p] \in {"idle", "flushed"}
    /\ \E u \in Uploads :
         /\ mem' = [mem EXCEPT ![p] = u.cfg]
         /\ dry' = [dry EXCEPT ![p] = u.dry]
    /\ Return(p, "OK", "flush")
    /\ down' = [down EXCEPT ![p] = FALSE]
    /\ UNCHANGED <<hwVars, idx, retries>>

\* The process is killed or the host loses power; the switch keeps going.
FlushCrash(p) ==
    /\ pc[p] \notin {"idle", "flushed"}
    /\ Goto(p, "idle")
    /\ UNCHANGED <<mem, dry, hwVars, flushVars>>

SwitchReady == GetReady /\ UNCHANGED <<toolVars, flushVars>>

Init ==
    /\ pc = [p \in Proc |-> "idle"]
    /\ mem = [p \in Proc |-> EmptyConfig(NoDevice)]
    /\ rc = [p \in Proc |-> "OK"]
    /\ dry = [p \in Proc |-> FALSE]
    /\ running = None
    /\ load = NoLoad
    /\ clk = [i \in Ports |-> Unset]
    /\ inhibited = FALSE
    /\ busy = FALSE
    /\ idx = [p \in Proc |-> 0]
    /\ retries = [p \in Proc |-> 0]
    /\ down = [p \in Proc |-> FALSE]

Next ==
    \/ \E p \in Proc : StartFlush(p) \/ FlushStep(p) \/ FlushCrash(p)
    \/ SwitchReady

Spec == Init /\ [][Next]_vars
-----------------------------------------------------------------------------
FlushLabels == {"flush", "inhibit", "reset", "poll", "upload", "clock",
                "verify", "flushed"}

TypeOK ==
    /\ pc \in [Proc -> FlushLabels \cup {"idle"}]
    /\ mem \in [Proc -> Config]
    /\ rc \in [Proc -> ErrorCodes]
    /\ dry \in [Proc -> BOOLEAN]
    /\ running \in Config \cup {None}
    /\ load \in [cfg : Config \cup {None}, got : Nat, bad : BOOLEAN, ids : BOOLEAN]
    /\ clk \in [Ports -> {Unset} \cup (Nat \X Nat)]
    /\ inhibited \in BOOLEAN
    /\ busy \in BOOLEAN
    /\ idx \in [Proc -> Nat]
    /\ retries \in [Proc -> 0..MaxRetries]
    /\ down \in [Proc -> BOOLEAN]

Succeeded(p) == pc[p] = "flushed" /\ rc[p] = "OK" /\ ~dry[p]

(***************************************************************************)
(* One flush at a time: when it returns 0, the switch runs the             *)
(* configuration it was given, not an older one and not none, whatever     *)
(* transfers failed and whatever an earlier crash left behind.             *)
(***************************************************************************)
OkMeansRunning == \A p \in Proc : Succeeded(p) => running = mem[p]

(***************************************************************************)
(* Any number of flushes at a time, their transfers interleaved: what the  *)
(* switch runs has passed check_valid and carries its device id.           *)
(***************************************************************************)
OnlyValidRuns ==
    running # None => CheckValid(running) /\ running.dev = HwDevice

(***************************************************************************)
(* A flush that reset the switch and leaves it without a configuration     *)
(* says so: HW_LEFT_FLOATING, or HW_NOT_RESPONDING when the wait for       *)
(* L2BUSYS failed, which happens only with static FDB entries.  One flush  *)
(* at a time.                                                              *)
(***************************************************************************)
FloatingIsReported ==
    \A p \in Proc :
      pc[p] = "flushed" /\ down[p] /\ running = None =>
        \/ rc[p] = "HW_LEFT_FLOATING"
        \/ rc[p] = "HW_NOT_RESPONDING" /\ Count(mem[p], "l2_lookup") > 0

(***************************************************************************)
(* Two flushes whose transfers interleave spoil each other's stream or     *)
(* reset the switch under each other.  When both have ended on real        *)
(* hardware and the switch has no configuration, at least one says so.     *)
(***************************************************************************)
SomeoneReports ==
    (\A p \in Proc : pc[p] = "flushed" /\ ~dry[p]) /\ running = None =>
      \E p \in Proc : rc[p] # "OK"

(***************************************************************************)
(* A configuration the code and the switch can accept, and what a flush of *)
(* it returns when no transfer fails: 0, whatever state a crash or a       *)
(* failure left the switch in, unless L2BUSYS was still set at every poll. *)
(***************************************************************************)
Acceptable(c) ==
    /\ CheckValid(c)
    /\ c.dev = HwDevice
    /\ \A i \in Ports : /\ Speed(c, i) \in {1, 2, 3}
                         /\ Mode(c, i) \in {0, 1, 2} \cup
                              (IF IsPQRS(HwDevice) THEN {3} ELSE {})

RetryHeals ==
    \A p \in Proc :
      pc[p] = "flushed" /\ ~dry[p] /\ Acceptable(mem[p]) =>
        rc[p] = "OK" \/ (rc[p] = "HW_NOT_RESPONDING" /\ retries[p] = 0)

(***************************************************************************)
(* The switch never loses its configuration while its ports may be         *)
(* transmitting: the comments in static_config_flush promise it.           *)
(***************************************************************************)
ResetOnlyWhenQuiet ==
    [][running # None /\ running' = None => inhibited]_vars

\* Action: the switch changes in a way it does not change by itself.
SwitchTouched == (busy' /\ ~busy) \/ ~UNCHANGED <<running, load, clk, inhibited>>

\* Action: p makes a step, of those that may send something.
Moved(p) == <<pc'[p], idx'[p]>> # <<pc[p], idx[p]>>

(***************************************************************************)
(* A flush ends, even if L2BUSYS never clears and whatever fails.          *)
(***************************************************************************)
FlushTerminates ==
    \A p \in Proc : pc[p] = "flush" ~> pc[p] \in {"flushed", "idle"}
=============================================================================
