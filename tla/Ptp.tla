--------------------------------- MODULE Ptp ---------------------------------
(***************************************************************************)
(* lib/ptp/ptp.c: setting and reading the switch's IEEE 1588 clocks, the   *)
(* Qbv schedule and the clock pin, and reading egress timestamps.  A clock *)
(* counts ticks of TickNs nanoseconds.  The moduli are powers of two, of   *)
(* the exponents named below, in the program.                              *)
(***************************************************************************)
EXTENDS LibraryCall

CONSTANTS
    TickNs,         \* nanoseconds of a tick: 8
    ClockMod,       \* of a clock and of uint64_t: 64
    LowBytesMod,    \* of a 64-bit register without its top byte: 56
    WordMod,        \* of a 32-bit register: 32
    StampMod,       \* of an egress timestamp of an E/T chip: 24
    One,            \* a ratio of 1.0 counted in the last bit of the largest
                    \* double below it: 53
    RateUnit,       \* the last bit of PTPCLKRATE, in the same unit: 22
    Tsn             \* SUPPORTS_TSN: the chip is a T or a Q/S

ASSUME PtpAssumption ==
    /\ {TickNs, ClockMod, LowBytesMod, WordMod, StampMod, One, RateUnit} \subseteq Nat \ {0}
    /\ ClockMod % StampMod = 0
    /\ WordMod * RateUnit = 2 * One
    /\ WordMod % 2 = 0 /\ RateUnit % 2 = 0
    /\ WordMod <= LowBytesMod
    /\ Tsn \in BOOLEAN

VARIABLES
    clk,            \* chip: PTPCLK and PTPTSCLK
    add,            \* chip: PTPCLKADD, a write to PTPCLKVAL is added
    source,         \* chip: CORRCLK4TS, the clock timestamps are taken from
    reg,            \* chip: the other registers
    doing,          \* chip: the schedule and the pin, as last commanded
    egr,            \* chip: one egress timestamp register
    taken           \* the timestamp a poll has read and not yet completed

chipVars == <<clk, add, source, reg, doing, egr>>
ptpVars == <<chipVars, taken>>

Clocks == {"ptpclk", "ptptsclk"}
Registers == {"rate", "pinst", "pindur", "corp", "schtm"}

(***************************************************************************)
(* A timestamp: the low bits of the clock, and as history which clock it   *)
(* was and how many ticks ago; Stale when that is more than the bits can   *)
(* tell or the clock has been stepped since.                               *)
(***************************************************************************)
Stale == StampMod + 1
NoStamp == [update |-> FALSE, part |-> 0, of |-> "ptptsclk", age |-> Stale]

Older(s, c) == IF s.of = c /\ s.age < Stale THEN [s EXCEPT !.age = @ + 1] ELSE s
Stepped(s, C) == IF s.of \in C THEN [s EXCEPT !.age = Stale] ELSE s

\* The clocks in C jump: no timestamp taken of them before counts any more.
Step(C) ==
    /\ egr' = Stepped(egr, C)
    /\ taken' = [a \in App |-> Stepped(taken[a], C)]

(***************************************************************************)
(* sja1105_timespec_to_ptp_time divides a signed number of nanoseconds,    *)
(* which C rounds towards zero, and stores it as unsigned;                 *)
(* sja1105_ptp_time_to_timespec multiplies modulo 2^64.                    *)
(***************************************************************************)
Ticks(ns) == (IF ns >= 0 THEN ns \div TickNs ELSE -((-ns) \div TickNs)) % ClockMod
Nanoseconds(n) == (n * TickNs) % ClockMod

(***************************************************************************)
(* What an 8-byte register gets of n.  gtable_pack loses the top byte of a *)
(* 64-bit field or keeps it (Gtable, ShiftBy64).                           *)
(***************************************************************************)
Sent8(n) == {n % LowBytesMod, n}
-----------------------------------------------------------------------------
(***************************************************************************)
(* The fields of the command that each call sets.  Each builds it in a     *)
(* structure cleared to zero, so every other field is written as 0.        *)
(***************************************************************************)
CommandOf(c) ==
    CASE c.op = "qbv_start" -> {"ptpstrtsch"}
      [] c.op = "qbv_stop" -> {"ptpstopsch"}
      [] c.op = "pin_toggle_start" -> {"startptpcp"}
      [] c.op = "pin_toggle_stop" -> {"stopptpcp"}
      [] c.op = "reset" -> {"resptp"}
      [] c.op = "corrclk4ts_set" /\ c.source = "ptpclk" -> {"corrclk4ts"}
      [] c.op = "clk_add" -> {"ptpclkadd"}
      [] OTHER -> {}

CommandOps == {"qbv_start", "qbv_stop", "pin_toggle_start", "pin_toggle_stop", "reset", "corrclk4ts_set"}

\* The chip takes a command: modes follow their bits, the others trigger.
TakeCommand(fields) ==
    /\ add' = ("ptpclkadd" \in fields)
    /\ source' = IF "corrclk4ts" \in fields THEN "ptpclk" ELSE "ptptsclk"
    /\ doing' = [ sched |-> IF "ptpstrtsch" \in fields THEN "started"
                            ELSE IF "ptpstopsch" \in fields THEN "stopped" ELSE doing.sched,
                  pin |-> (doing.pin \/ "startptpcp" \in fields) /\ "stopptpcp" \notin fields ]
    /\ IF "resptp" \in fields THEN clk' = [c \in Clocks |-> 0] /\ Step(Clocks)
       ELSE UNCHANGED <<clk, egr, taken>>
    /\ UNCHANGED reg

\* sja1105_ptp_cmd_commit.
Commit(a, o) ==
    /\ IF Transferred(o) THEN TakeCommand(CommandOf(call[a])) ELSE UNCHANGED ptpVars
    /\ Disturb(a, o)

\* The calls that are one command.
Command(a) ==
    /\ pc[a] = "command"
    /\ \E o \in Outcomes : Commit(a, o) /\ LeaveAfter(a, o)

\* Mutant: clk_set does not look at what sja1105_ptp_add_mode_set returns.
AddModeSet_Unchecked(a) ==
    /\ pc[a] = "mode"
    /\ \E o \in Outcomes :
         /\ Commit(a, o)
         /\ IF o = "ok" \/ call[a].op = "clk_set" THEN Continue(a, "value") ELSE Leave(a, "ERRNO")

\* clk_set and clk_add begin by choosing what a write to PTPCLKVAL does.
AddModeSet(a) ==
    /\ pc[a] = "mode"
    /\ \E o \in Outcomes :
         /\ Commit(a, o)
         /\ IF o = "ok" THEN Continue(a, "value") ELSE Leave(a, "ERRNO")

\* PTPCLKVAL is written: set or added to, as the chip has been told last.
TakeClock(n) ==
    /\ clk' = [clk EXCEPT !["ptpclk"] = IF add THEN (@ + n) % ClockMod ELSE n]
    /\ Step({"ptpclk"})
    /\ UNCHANGED <<add, source, reg, doing>>

ClkWrite(a) ==
    /\ pc[a] = "value"
    /\ \E o \in Outcomes, n \in Sent8(Ticks(call[a].ns)) :
         /\ IF Transferred(o) THEN TakeClock(n) ELSE UNCHANGED ptpVars
         /\ LeaveAfter(a, o)
         /\ Disturb(a, o)
-----------------------------------------------------------------------------
(***************************************************************************)
(* sja1105_ptpclkrate_from_ratio.  Adding 1 to a ratio below 1 rounds it   *)
(* to the last bit of the doubles above 1; the ratio just below 1 becomes  *)
(* 2.0, whose fraction is 0.  None: refused.                               *)
(***************************************************************************)
None == -1

RoundToEven(r) == IF r % 2 = 0 THEN r ELSE IF r % 4 = 3 THEN r + 1 ELSE r - 1

FractionBits(r) == ((r % One) \div RateUnit)

RateFromRatio(r) ==
    IF r <= 0 \/ r >= 2 * One THEN None
    ELSE IF r < One THEN FractionBits(RoundToEven(r))
    ELSE FractionBits(r) + One \div RateUnit

(***************************************************************************)
(* What a call that writes one register is going to send, or None when it  *)
(* returns -ERANGE instead.                                                *)
(***************************************************************************)
\* Mutant: a period that does not fit its register is written all the same.
ValueToWrite_Unchecked(c) ==
    CASE c.op = "clk_rate_set" -> RateFromRatio(c.ratio)
      [] OTHER -> Ticks(c.ns)

ValueToWrite(c) ==
    CASE c.op = "clk_rate_set" -> RateFromRatio(c.ratio)
      [] c.op \in {"pin_duration_set", "qbv_correction_period_set"} ->
           IF Ticks(c.ns) >= WordMod - 1 THEN None ELSE Ticks(c.ns)
      [] OTHER -> Ticks(c.ns)

RegisterOf ==
    [ clk_rate_set |-> "rate", pin_start_time_set |-> "pinst",
      pin_duration_set |-> "pindur", qbv_correction_period_set |-> "corp",
      qbv_start_time_set |-> "schtm" ]

(***************************************************************************)
(* Times are signed numbers of nanoseconds.  They have 63 bits, of which a *)
(* clock of ticks needs less than it has even when they are negative; a    *)
(* ratio is any number.                                                    *)
(***************************************************************************)
TimedOps == {"clk_set", "clk_add"} \cup (DOMAIN RegisterOf \ {"clk_rate_set"})

IsTime(ns) ==
    ns \in Int /\ -(ClockMod - LowBytesMod) * TickNs <= ns /\ ns < ClockMod * TickNs

ASSUME WorkloadsAssumption ==
    \A w \in Workloads : \A a \in App : \A c \in w[a] :
        /\ c.op \in TimedOps => IsTime(c.ns)
        /\ c.op = "clk_rate_set" => c.ratio \in Int

\* What the register gets: 4 or 8 bytes are sent.
LongRegisters == {"pinst", "schtm"}
Sent(r, n) == IF r \in LongRegisters THEN Sent8(n) ELSE {n % WordMod}

RegWrite(a) ==
    /\ pc[a] = "register"
    /\ LET c == call[a]
           r == RegisterOf[c.op]
       IN  IF ValueToWrite(c) = None
           THEN Leave(a, "ERANGE") /\ UNCHANGED <<ptpVars, alone>>
           ELSE \E o \in Outcomes, n \in Sent(r, ValueToWrite(c)) :
                  /\ IF Transferred(o)
                     THEN /\ reg' = [reg EXCEPT ![r] = n]
                          /\ UNCHANGED <<clk, add, source, doing, egr, taken>>
                     ELSE UNCHANGED ptpVars
                  /\ LeaveAfter(a, o)
                  /\ Disturb(a, o)
-----------------------------------------------------------------------------
\* sja1105_ptp_clk_get, which refuses 0, and sja1105_ptp_ts_clk_get.
ClkGet(a) ==
    /\ pc[a] = "read"
    /\ \E o \in Outcomes :
         LET c == IF call[a].op = "clk_get" THEN "ptpclk" ELSE "ptptsclk"
         IN  IF o # "ok" THEN Leave(a, "ERRNO")
             ELSE IF c = "ptpclk" /\ clk[c] = 0 THEN Leave(a, "EAGAIN")
             ELSE LeaveWith(a, "ok", Nanoseconds(clk[c]))
    /\ UNCHANGED <<ptpVars, alone>>

\* sja1105_ptp_qbv_running: 0 means started, 1 stopped.
QbvRunning(a) ==
    /\ pc[a] = "control"
    /\ \E o \in Outcomes :
         IF o # "ok" THEN Leave(a, "ERRNO")
         ELSE IF doing.sched = "started" THEN Leave(a, "ok")
         ELSE IF doing.sched = "stopped" THEN LeaveWith(a, "stopped", 1)
         ELSE Leave(a, "EINVAL")
    /\ UNCHANGED <<ptpVars, alone>>

(***************************************************************************)
(* sja1105_ptpegr_ts_poll, first transfer: reading the register clears its *)
(* update bit, whatever becomes of the answer.                             *)
(***************************************************************************)
\* Mutant: the update bit is not looked at.
PollStamp_OldOne(a) ==
    /\ pc[a] = "stamp"
    /\ \E o \in Outcomes :
         /\ egr' = IF Transferred(o) THEN [egr EXCEPT !.update = FALSE] ELSE egr
         /\ IF o # "ok" THEN Leave(a, "ERRNO") /\ UNCHANGED taken
            ELSE Continue(a, "clock") /\ taken' = [taken EXCEPT ![a] = egr]
    /\ UNCHANGED <<clk, add, source, reg, doing, alone>>

PollStamp(a) ==
    /\ pc[a] = "stamp"
    /\ \E o \in Outcomes :
         /\ egr' = IF Transferred(o) THEN [egr EXCEPT !.update = FALSE] ELSE egr
         /\ IF o # "ok" THEN Leave(a, "ERRNO") /\ UNCHANGED taken
            ELSE IF ~egr.update THEN Leave(a, "EAGAIN") /\ UNCHANGED taken
            ELSE Continue(a, "clock") /\ taken' = [taken EXCEPT ![a] = egr]
    /\ UNCHANGED <<clk, add, source, reg, doing, alone>>

(***************************************************************************)
(* The full time of a partial timestamp, from a later reading of the clock *)
(* that has wrapped around at most once since.                             *)
(***************************************************************************)
\* Mutant: a clock that shows the low bits of the timestamp again has not wrapped.
Reconstruct_Strict(now, part) ==
    (now - (now % StampMod) + part - (IF now % StampMod < part THEN StampMod ELSE 0)) % ClockMod

Reconstruct(now, part) ==
    (now - (now % StampMod) + part - (IF now % StampMod <= part THEN StampMod ELSE 0)) % ClockMod

\* The second transfer reads the clock that the caller has named.
PollClock(a) ==
    /\ pc[a] = "clock"
    /\ \E o \in Outcomes :
         IF o # "ok" THEN Leave(a, "ERRNO")
         ELSE LeaveWith(a, "ok", Nanoseconds(Reconstruct(clk[call[a].source], taken[a].part)))
    /\ taken' = [taken EXCEPT ![a] = NoStamp]
    /\ UNCHANGED <<chipVars, alone>>
-----------------------------------------------------------------------------
\* Calls of the schedule check for a T or Q/S chip, starting and stopping apart.
NeedsTsn == {"qbv_running", "qbv_correction_period_set", "qbv_start_time_set"}

FirstTransfer(c) ==
    CASE c.op \in CommandOps -> "command"
      [] c.op \in {"clk_set", "clk_add"} -> "mode"
      [] c.op \in DOMAIN RegisterOf -> "register"
      [] c.op \in {"clk_get", "ts_clk_get"} -> "read"
      [] c.op = "qbv_running" -> "control"
      [] OTHER -> "stamp"

PtpOps ==
    CommandOps \cup DOMAIN RegisterOf
      \cup {"clk_set", "clk_add", "clk_get", "ts_clk_get", "qbv_running", "ts_poll"}

Refused(a) == pc[a] = "idle" /\ Leave(a, "EINVAL") /\ UNCHANGED alone

PtpEnter(a) ==
    /\ \E c \in work[a] :
         /\ c.op \in PtpOps
         /\ IF c.op \in NeedsTsn /\ ~Tsn THEN Refused(a) ELSE Enter(a, c, FirstTransfer(c))
    /\ UNCHANGED ptpVars

PtpCall(a) ==
    \/ PtpEnter(a) \/ Command(a) \/ AddModeSet(a) \/ ClkWrite(a) \/ RegWrite(a)
    \/ ClkGet(a) \/ QbvRunning(a) \/ PollStamp(a) \/ PollClock(a)

\* A clock is of interest, and frames ask for timestamps, when some call does.
Called(ops) == \E a \in App : \E k \in work[a] : k.op \in ops
Polled(c) == \E a \in App : \E k \in work[a] : k.op = "ts_poll" /\ k.source = c
Watched(c) ==
    Polled(c) \/ Called(IF c = "ptpclk" THEN {"clk_set", "clk_add", "clk_get"} ELSE {"ts_clk_get"})

\* The clocks run, each at its own pace.
Tick(c) ==
    /\ Watched(c)
    /\ clk' = [clk EXCEPT ![c] = (@ + 1) % ClockMod]
    /\ egr' = Older(egr, c)
    /\ taken' = [a \in App |-> Older(taken[a], c)]
    /\ UNCHANGED <<add, source, reg, doing, callVars>>

\* A frame that asked for a timestamp leaves the switch.
StampFrame ==
    /\ Called({"ts_poll"})
    /\ egr' = [update |-> TRUE, part |-> clk[source] % StampMod, of |-> source, age |-> 0]
    /\ UNCHANGED <<clk, add, source, reg, doing, taken, callVars>>

PtpChip == (\E c \in Clocks : Tick(c)) \/ StampFrame

PtpInit ==
    /\ clk = [c \in Clocks |-> 0]
    /\ add = FALSE
    /\ source = "ptptsclk"
    /\ reg = [r \in Registers |-> 0]
    /\ doing = [sched |-> "none", pin |-> FALSE]
    /\ egr = NoStamp
    /\ taken = [a \in App |-> NoStamp]
-----------------------------------------------------------------------------
(***************************************************************************)
(* A poll that succeeds returns the time at which the frame left, whatever *)
(* the other application did and the clocks ran between its two transfers, *)
(* as long as they ran for one to StampMod ticks and were not stepped, and *)
(* the caller named the clock the timestamp was taken from.                *)
(***************************************************************************)
Tells(a) == taken[a].of = call[a].source /\ taken[a].age \in 1..StampMod

TimestampIsExact ==
    [][\A a \in App : Succeeds(a, "clock") /\ Tells(a) =>
         ret'[a].value = Nanoseconds((clk[call[a].source] - taken[a].age) % ClockMod)]_<<callVars, ptpVars>>

(***************************************************************************)
(* When no other application wrote between the two transfers of clk_set or *)
(* clk_add and it returns 0, the clock has been set to the time, or moved  *)
(* by it, whatever failed before and whatever mode an earlier call has     *)
(* left.  The top byte of the time, which not every machine sends, may be  *)
(* missing (EveryValueFits is about that), nothing else.                   *)
(***************************************************************************)
StepIsAsAsked ==
    [][\A a \in App : Succeeds(a, "value") /\ alone[a] =>
         LET n == Ticks(call[a].ns)
         IN  \E m \in {n, n % LowBytesMod} :
               clk'["ptpclk"] = IF call[a].op = "clk_set" THEN m ELSE (clk["ptpclk"] + m) % ClockMod
      ]_<<callVars, ptpVars>>

(***************************************************************************)
(* A register write that returns 0 has left in the register the period or  *)
(* time asked for, less the part of a tick, and the rate asked for to its  *)
(* last bit: nothing is cut to 32 bits on the way.  The ratio next below 1 *)
(* is the exception: it stops the clock.                                   *)
(***************************************************************************)
Holds(n, ns) == ns - n * TickNs \in 1 - TickNs..TickNs - 1

RegistersHoldWhatWasAsked ==
    [][\A a \in App : Succeeds(a, "register") =>
         LET c == call[a]
             n == reg'[RegisterOf[c.op]]
         IN  IF c.op = "clk_rate_set"
             THEN c.ratio # One - 1 => c.ratio - n * RateUnit \in -1..RateUnit - 1
             ELSE (RegisterOf[c.op] \in LongRegisters => Ticks(c.ns) < LowBytesMod) => Holds(n, c.ns)
      ]_<<callVars, ptpVars>>
=============================================================================
