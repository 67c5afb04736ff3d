--------------------------- MODULE LibraryProofs ----------------------------
(***************************************************************************)
(* The calls of lib/ptp, lib/dynamic-config and lib/control, for clocks,   *)
(* timestamps and registers of any width, any number of applications,      *)
(* whatever else they call and whatever transfers fail: the timestamps a   *)
(* poll returns are exact, a clock is set or moved as asked, a register, a *)
(* route and a shaper are what was asked for.                              *)
(***************************************************************************)
EXTENDS Library, TLAPS

(***************************************************************************)
(* Division with remainder: the remainder is unique, adding the modulus    *)
(* does not change it, and taking it by a multiple first does not either.  *)
(***************************************************************************)
LEMMA DivMod ==
  ASSUME NEW x \in Int, NEW m \in Nat \ {0}
  PROVE  /\ x % m \in 0..m - 1
         /\ x \div m \in Int
         /\ x = m * (x \div m) + (x % m)
  BY SMT

LEMMA Distributes ==
  ASSUME NEW a \in Int, NEW b \in Int, NEW c \in Int
  PROVE  a * (b + c) = a * b + a * c
  BY SMT

LEMMA ModUnique ==
  ASSUME NEW m \in Nat \ {0}, NEW q \in Int, NEW r \in 0..m - 1
  PROVE  (m * q + r) % m = r
  <1> DEFINE x == m * q + r
             d == q - (x \div m)
  <1>1. x \in Int
    BY SMT
  <1>2. /\ x % m \in 0..m - 1
        /\ x \div m \in Int
        /\ x = m * (x \div m) + (x % m)
    BY <1>1, DivMod
  <1>3. m * d = (x % m) - r
    BY <1>2, SMT
  <1>4. d < 1
    <2>1. ASSUME d >= 1 PROVE m * d >= m
      BY <2>1, <1>2, SMT
    <2> QED BY <2>1, <1>2, <1>3, SMT
  <1>5. d > -1
    <2>1. ASSUME d <= -1 PROVE m * d <= -m
      BY <2>1, <1>2, SMT
    <2> QED BY <2>1, <1>2, <1>3, SMT
  <1>6. d = 0
    BY <1>2, <1>4, <1>5, SMT
  <1> QED BY <1>2, <1>3, <1>6, SMT

LEMMA ModShift ==
  ASSUME NEW x \in Int, NEW m \in Nat \ {0}
  PROVE  (x + m) % m = x % m
  <1> DEFINE q == (x \div m) + 1
             r == x % m
  <1>1. q \in Int /\ r \in 0..m - 1 /\ x + m = m * q + r
    <2>1. r \in 0..m - 1 /\ x \div m \in Int /\ x = m * (x \div m) + r
      BY DivMod
    <2>2. m * q = m * (x \div m) + m
      BY <2>1, SMT
    <2> QED BY <2>1, <2>2, SMT
  <1> HIDE DEF q, r
  <1>2. (m * q + r) % m = r
    BY <1>1, ModUnique
  <1> QED BY <1>1, <1>2 DEF r

LEMMA ModMod ==
  ASSUME NEW x \in Int, NEW m \in Nat \ {0}, NEW k \in Nat \ {0}
  PROVE  (x % (k * m)) % m = x % m
  <1> DEFINE c == k * m
             y == x % c
             p == x \div c
             q == k * p + (y \div m)
             r == y % m
  <1>1. c \in Nat \ {0}
    BY SMT
  <1>2. y \in 0..c - 1 /\ p \in Int /\ x = c * p + y
    <2> HIDE DEF c
    <2> QED BY <1>1, DivMod
  <1>3. r \in 0..m - 1 /\ y \div m \in Int /\ y = m * (y \div m) + r
    <2>1. y \in Int
      BY <1>1, <1>2, SMT
    <2> HIDE DEF y
    <2> QED BY <2>1, DivMod
  <1>4. x = m * q + r /\ q \in Int
    <2> HIDE DEF y, p, r
    <2>1. c * p = m * (k * p)
      BY <1>2, SMT
    <2>2. k * p \in Int
      BY <1>2, SMT
    <2>3. m * q = m * (k * p) + m * (y \div m)
      <3> HIDE DEF c
      <3>1. y \div m \in Int
        BY <1>3
      <3> QED BY <2>2, <3>1, Distributes
    <2> QED BY <1>1, <1>2, <1>3, <2>1, <2>2, <2>3, SMT
  <1> HIDE DEF q, r
  <1>5. (m * q + r) % m = r
    BY <1>3, <1>4, ModUnique
  <1> QED BY <1>4, <1>5 DEF r, y, c
-----------------------------------------------------------------------------
\* ClockMod is a multiple of StampMod: both are powers of two.
LEMMA Moduli ==
  /\ ClockMod \in Nat \ {0} /\ StampMod \in Nat \ {0}
  /\ \E k \in Nat \ {0} : ClockMod = k * StampMod
  <1>1. ClockMod \in Nat \ {0} /\ StampMod \in Nat \ {0} /\ ClockMod % StampMod = 0
    BY PtpAssumption
  <1>2. ClockMod = StampMod * (ClockMod \div StampMod) /\ ClockMod \div StampMod \in Int
    BY <1>1, DivMod, SMT
  <1>3. ClockMod \div StampMod \in Nat \ {0}
    BY <1>1, <1>2, SMT
  <1>4. ClockMod = (ClockMod \div StampMod) * StampMod
    BY <1>1, <1>2, SMT
  <1> QED BY <1>1, <1>3, <1>4

(***************************************************************************)
(* Reconstruct finds the full time of a timestamp taken one to StampMod    *)
(* ticks before the clock showed now: sja1105_ptpegr_ts_poll, from the     *)
(* partial timestamp and the full reading.                                 *)
(***************************************************************************)
THEOREM ReconstructIsExact ==
  ASSUME NEW now \in 0..ClockMod - 1, NEW age \in 1..StampMod
  PROVE  Reconstruct(now, ((now - age) % ClockMod) % StampMod) = (now - age) % ClockMod
  <1> DEFINE r == now % StampMod
             q == now \div StampMod
             part == ((now - age) % ClockMod) % StampMod
  <1>0. ClockMod \in Nat \ {0} /\ StampMod \in Nat \ {0}
    BY Moduli
  <1>1. part = (now - age) % StampMod
    <2>1. now - age \in Int
      BY <1>0, SMT
    <2>2. PICK k \in Nat \ {0} : ClockMod = k * StampMod
      BY Moduli
    <2>3. ((now - age) % (k * StampMod)) % StampMod = (now - age) % StampMod
      BY <1>0, <2>1, ModMod
    <2> QED BY <2>2, <2>3
  <1>2. r \in 0..StampMod - 1 /\ q \in Int /\ now = StampMod * q + r
    BY <1>0, DivMod, SMT
  <1>3. CASE age <= r
    <2>1. now - age = StampMod * q + (r - age) /\ r - age \in 0..StampMod - 1
      BY <1>0, <1>2, <1>3, SMT
    <2>2. part = r - age
      BY <1>0, <1>1, <1>2, <2>1, ModUnique
    <2>3. ~(r <= part) /\ now - r + part - 0 = now - age
      BY <1>0, <1>2, <2>2, SMT
    <2> QED BY <2>3 DEF Reconstruct
  <1>4. CASE age > r
    <2>1. now - age = StampMod * (q - 1) + (r - age + StampMod) /\ r - age + StampMod \in 0..StampMod - 1
      BY <1>0, <1>2, <1>4, SMT
    <2>2. part = r - age + StampMod
      <3>1. q - 1 \in Int
        BY <1>2, SMT
      <3> QED BY <1>0, <1>1, <2>1, <3>1, ModUnique
    <2>3. r <= part /\ now - r + part - StampMod = now - age
      BY <1>0, <1>2, <2>2, SMT
    <2> QED BY <2>3 DEF Reconstruct
  <1> QED BY <1>0, <1>2, <1>3, <1>4, SMT
-----------------------------------------------------------------------------
(***************************************************************************)
(* The inductive invariant: a timestamp that still counts holds the low    *)
(* bits of what its clock showed, age ticks before what it shows now.      *)
(***************************************************************************)
Total(f) == f = [x \in App |-> f[x]]

Labels == {"idle", "command", "mode", "value", "register", "read", "control",
           "stamp", "clock", "route", "window", "slopes", "shaper"}

Suits(c, label) ==
  /\ label = "register" => c.op \in DOMAIN RegisterOf
  /\ label \in {"slopes", "shaper"} => c.op = "cbs_commit"
  /\ label \in {"route", "window"} => c.op \in {"mgmt_route_get", "mgmt_route_set"}

Placed(a) ==
  /\ pc[a] \in Labels
  /\ pc[a] # "idle" => call[a] \in work[a] /\ Suits(call[a], pc[a])

CallInv ==
  /\ work \in Workloads
  /\ Total(pc) /\ Total(call) /\ Total(ret)
  /\ \A a \in App : Placed(a)
  /\ \A a \in App : pc[a] \in {"mode", "value"} => call[a].ns \in Int

Stamps == [update : BOOLEAN, part : Int, of : Clocks, age : 0..Stale]

ClockTimes == [Clocks -> 0..ClockMod - 1]

Dated(s, k) == s.age < Stale => s.part = ((k[s.of] - s.age) % ClockMod) % StampMod

StampInv ==
  /\ clk \in ClockTimes
  /\ source \in Clocks
  /\ egr \in Stamps
  /\ taken \in [App -> Stamps]
  /\ Dated(egr, clk)
  /\ \A a \in App : Dated(taken[a], clk)

LEMMA CallInvInit == LibraryInit => CallInv
  BY DEF LibraryInit, CallInit, CallInv, Total, Pending, NoCall, Placed, Labels

LEMMA StampInvInit == LibraryInit => StampInv
  <1> SUFFICES ASSUME LibraryInit PROVE StampInv
    OBVIOUS
  <1>1. StampMod \in Nat \ {0} /\ ClockMod \in Nat \ {0}
    BY Moduli
  <1>2. NoStamp \in Stamps /\ NoStamp.age = Stale /\ ~(Stale < Stale)
    BY <1>1, SMT DEF NoStamp, Stamps, Clocks, Stale
  <1> QED BY <1>1, <1>2, SMT DEF LibraryInit, PtpInit, StampInv, Dated, ClockTimes, Clocks

LEMMA TicksInRange ==
  ASSUME NEW ns \in Int, NEW n \in Sent8(Ticks(ns))
  PROVE  n \in 0..ClockMod - 1
  <1>1. ClockMod \in Nat \ {0} /\ LowBytesMod \in Nat \ {0} /\ TickNs \in Nat \ {0}
    BY PtpAssumption
  <1> DEFINE v == IF ns >= 0 THEN ns \div TickNs ELSE -((-ns) \div TickNs)
  <1>2. v \in Int
    BY <1>1, SMT
  <1>3. v % ClockMod \in 0..ClockMod - 1
    <2> HIDE DEF v
    <2> QED BY <1>1, <1>2, DivMod
  <1>4. Ticks(ns) \in 0..ClockMod - 1
    BY <1>3 DEF Ticks
  <1> HIDE DEF v
  <1>5. Ticks(ns) % LowBytesMod \in 0..ClockMod - 1
    <2> DEFINE t == Ticks(ns)
               r == t % LowBytesMod
               q == t \div LowBytesMod
    <2>1. t \in 0..ClockMod - 1
      BY <1>4
    <2> HIDE DEF t
    <2>2. r \in 0..LowBytesMod - 1 /\ q \in Int /\ t = LowBytesMod * q + r
      BY <1>1, <2>1, DivMod, SMT
    <2> HIDE DEF r, q
    <2>3. q >= 0
      <3>1. ASSUME q <= -1 PROVE LowBytesMod * q <= -LowBytesMod
        BY <1>1, <2>2, <3>1, SMT
      <3> QED BY <1>1, <2>1, <2>2, <3>1, SMT
    <2>4. LowBytesMod * q >= 0
      BY <1>1, <2>2, <2>3, SMT
    <2>5. r \in 0..ClockMod - 1
      BY <1>1, <2>1, <2>2, <2>4, SMT
    <2> QED BY <2>5 DEF r, t
  <1> QED BY <1>4, <1>5 DEF Sent8
-----------------------------------------------------------------------------
(***************************************************************************)
(* What a tick and a step of a clock do to a timestamp.                    *)
(***************************************************************************)
LEMMA OlderStaysDated ==
  ASSUME NEW s \in Stamps, NEW k \in ClockTimes, NEW c \in Clocks, Dated(s, k)
  PROVE  LET k1 == [k EXCEPT ![c] = (@ + 1) % ClockMod]
         IN  k1 \in ClockTimes /\ Older(s, c) \in Stamps /\ Dated(Older(s, c), k1)
  <1> DEFINE k1 == [k EXCEPT ![c] = (@ + 1) % ClockMod]
             t == Older(s, c)
             m == ClockMod
             n == k[c]
  <1>1. m \in Nat \ {0} /\ StampMod \in Nat \ {0}
    BY Moduli
  <1>2. n \in 0..m - 1
    BY DEF ClockTimes
  <1>3. (n + 1) % m \in 0..m - 1
    <2> HIDE DEF m, n
    <2> QED BY <1>1, <1>2, DivMod
  <1>4. k1 \in ClockTimes /\ k1[c] = (n + 1) % m /\ \A d \in Clocks : d # c => k1[d] = k[d]
    BY <1>3 DEF ClockTimes
  <1>5. t \in Stamps
    BY <1>1, SMT DEF Older, Stamps, Stale
  <1>6. Dated(t, k1)
    <2>1. CASE s.of = c /\ s.age < Stale
      <3>1. /\ s.age \in Nat /\ s.part \in Int
            /\ s.part = ((n - s.age) % m) % StampMod
            /\ t.age = s.age + 1 /\ t.part = s.part /\ t.of = c
        BY <2>1, SMT DEF Stamps, Older, Dated
      <3>2. (((n + 1) % m) - (s.age + 1)) % m = (n - s.age) % m
        <4> HIDE DEF m, n
        <4>1. CASE n + 1 < m
          <5>1. n + 1 = m * 0 + (n + 1) /\ n + 1 \in 0..m - 1
            BY <1>1, <1>2, <4>1, SMT
          <5>2. (n + 1) % m = n + 1
            BY <1>1, <5>1, ModUnique
          <5>3. (n + 1) - (s.age + 1) = n - s.age
            BY <1>2, <3>1, SMT
          <5> QED BY <5>2, <5>3
        <4>2. CASE n + 1 = m
          <5>1. (0 + m) % m = 0 % m /\ 0 % m = 0
            BY <1>1, ModShift, SMT
          <5>2. (n + 1) % m = 0
            BY <1>1, <4>2, <5>1, SMT
          <5>3. n - s.age = (0 - (s.age + 1)) + m /\ 0 - (s.age + 1) \in Int
            BY <1>1, <1>2, <3>1, <4>2, SMT
          <5> QED BY <1>1, <5>2, <5>3, ModShift
        <4> QED BY <1>1, <1>2, <4>1, <4>2, SMT
      <3> QED BY <1>4, <3>1, <3>2 DEF Dated
    <2>2. CASE ~(s.of = c /\ s.age < Stale)
      <3>1. t = s
        BY <2>2 DEF Older
      <3>2. s.of \in Clocks
        BY DEF Stamps
      <3> QED BY <1>4, <2>2, <3>1, <3>2 DEF Dated
    <2> QED BY <2>1, <2>2
  <1> QED BY <1>4, <1>5, <1>6

LEMMA SteppedStaysDated ==
  ASSUME NEW s \in Stamps, NEW k \in ClockTimes, NEW k1, NEW C \in SUBSET Clocks, Dated(s, k),
         \A d \in Clocks \ C : k1[d] = k[d]
  PROVE  Stepped(s, C) \in Stamps /\ Dated(Stepped(s, C), k1)
  <1>1. StampMod \in Nat \ {0}
    BY Moduli
  <1>2. CASE s.of \in C
    BY <1>1, <1>2, SMT DEF Stepped, Stamps, Stale, Dated
  <1>3. CASE s.of \notin C
    <2>1. s.of \in Clocks
      BY DEF Stamps
    <2> QED BY <1>3, <2>1 DEF Stepped, Dated
  <1> QED BY <1>2, <1>3

\* A step of the clocks in C keeps the invariant, whatever they show then.
LEMMA StepKeepsStamps ==
  ASSUME StampInv, NEW C \in SUBSET Clocks, Step(C), clk' \in ClockTimes, source' \in Clocks,
         \A d \in Clocks \ C : clk'[d] = clk[d]
  PROVE  StampInv'
  <1>1. egr' \in Stamps /\ Dated(egr', clk')
    BY SteppedStaysDated DEF StampInv, Step
  <1>2. taken' \in [App -> Stamps] /\ \A a \in App : Dated(taken'[a], clk')
    BY SteppedStaysDated DEF StampInv, Step
  <1> QED BY <1>1, <1>2 DEF StampInv, Dated, ClockTimes

LEMMA TakeCommandKeepsStamps ==
  ASSUME StampInv, NEW F, TakeCommand(F)
  PROVE  StampInv'
  <1>1. source' \in Clocks
    BY DEF TakeCommand, Clocks
  <1>2. CASE "resptp" \in F
    <2>1. clk' = [c \in Clocks |-> 0] /\ Step(Clocks)
      BY <1>2 DEF TakeCommand
    <2>2. clk' \in ClockTimes
      BY <2>1, Moduli, SMT DEF ClockTimes
    <2> QED BY <1>1, <2>1, <2>2, StepKeepsStamps
  <1>3. CASE "resptp" \notin F
    BY <1>1, <1>3 DEF TakeCommand, StampInv, Dated, ClockTimes, Clocks
  <1> QED BY <1>2, <1>3

LEMMA TakeClockKeepsStamps ==
  ASSUME StampInv, NEW n \in 0..ClockMod - 1, TakeClock(n)
  PROVE  StampInv'
  <1> DEFINE old == clk["ptpclk"]
             new == IF add THEN (old + n) % ClockMod ELSE n
  <1>0. ClockMod \in Nat \ {0} /\ old \in 0..ClockMod - 1
    BY Moduli DEF StampInv, ClockTimes, Clocks
  <1>1. new \in 0..ClockMod - 1
    <2> HIDE DEF old
    <2>1. old + n \in Int
      BY <1>0, SMT
    <2>2. (old + n) % ClockMod \in 0..ClockMod - 1
      BY <1>0, <2>1, DivMod
    <2> QED BY <2>2
  <1>2. clk' = [clk EXCEPT !["ptpclk"] = new] /\ Step({"ptpclk"}) /\ source' = source
    BY DEF TakeClock
  <1> HIDE DEF new
  <1>3. clk' \in ClockTimes /\ \A d \in Clocks \ {"ptpclk"} : clk'[d] = clk[d]
    BY <1>1, <1>2 DEF StampInv, ClockTimes, Clocks
  <1> QED BY <1>2, <1>3, StepKeepsStamps DEF StampInv, Clocks
-----------------------------------------------------------------------------
(***************************************************************************)
(* The calls, for the locations and arguments.                             *)
(***************************************************************************)
LEMMA EnterKeepsCalls ==
  ASSUME CallInv, NEW a \in App, NEW c \in work[a], NEW l, Enter(a, c, l),
         l = "mode" => c.op \in {"clk_set", "clk_add"}, l # "value",
         l \in Labels, Suits(c, l)
  PROVE  CallInv'
  <1>1. l = "mode" => c.ns \in Int
    BY WorkloadsAssumption DEF CallInv, TimedOps, IsTime
  <1> QED BY <1>1 DEF CallInv, Enter, Total, Placed

LEMMA ContinueKeepsCalls ==
  ASSUME CallInv, NEW a \in App, NEW l, Continue(a, l), l = "value" => pc[a] = "mode", l # "mode",
         pc[a] # "idle", l \in Labels, Suits(call[a], l)
  PROVE  CallInv'
  BY DEF CallInv, Continue, Total, Placed

LEMMA LeaveKeepsCalls ==
  ASSUME CallInv, NEW a \in App, NEW code, NEW v, LeaveWith(a, code, v)
  PROVE  CallInv'
  BY DEF CallInv, LeaveWith, Total, Placed, Labels

\* Every step of a call enters, continues or leaves.
LEMMA PtpCallKeepsCalls ==
  ASSUME CallInv, NEW a \in App, PtpCall(a)
  PROVE  CallInv'
  <1>1. CASE PtpEnter(a)
    <2>1. PICK c \in work[a] :
            IF c.op \in NeedsTsn /\ ~Tsn THEN Refused(a) ELSE Enter(a, c, FirstTransfer(c))
      BY <1>1 DEF PtpEnter
    <2>2. /\ FirstTransfer(c) # "value"
          /\ FirstTransfer(c) = "mode" => c.op \in {"clk_set", "clk_add"}
          /\ FirstTransfer(c) \in Labels /\ Suits(c, FirstTransfer(c))
      BY DEF FirstTransfer, Labels, Suits
    <2> QED BY <2>1, <2>2, EnterKeepsCalls, LeaveKeepsCalls DEF Refused, Leave
  <1>2. CASE Command(a)
    BY <1>2, LeaveKeepsCalls DEF Command, LeaveAfter, Leave
  <1>3. CASE AddModeSet(a)
    <2>1. PICK o \in Outcomes : IF o = "ok" THEN Continue(a, "value") ELSE Leave(a, "ERRNO")
      BY <1>3 DEF AddModeSet
    <2>2. pc[a] = "mode"
      BY <1>3 DEF AddModeSet
    <2>3. CASE Continue(a, "value")
      BY <2>2, <2>3, ContinueKeepsCalls DEF Labels, Suits
    <2> QED BY <2>1, <2>3, LeaveKeepsCalls DEF Leave
  <1>4. CASE ClkWrite(a)
    BY <1>4, LeaveKeepsCalls DEF ClkWrite, LeaveAfter, Leave
  <1>5. CASE RegWrite(a)
    BY <1>5, LeaveKeepsCalls DEF RegWrite, LeaveAfter, Leave
  <1>6. CASE ClkGet(a)
    BY <1>6, LeaveKeepsCalls DEF ClkGet, Leave
  <1>7. CASE QbvRunning(a)
    BY <1>7, LeaveKeepsCalls DEF QbvRunning, Leave
  <1>8. CASE PollStamp(a)
    <2>1. Continue(a, "clock") \/ \E code : LeaveWith(a, code, 0)
      BY <1>8 DEF PollStamp, Leave
    <2>2. CASE Continue(a, "clock")
      BY <1>8, <2>2, ContinueKeepsCalls DEF Labels, Suits, PollStamp
    <2> QED BY <2>1, <2>2, LeaveKeepsCalls
  <1>9. CASE PollClock(a)
    BY <1>9, LeaveKeepsCalls DEF PollClock, Leave
  <1> QED BY <1>1, <1>2, <1>3, <1>4, <1>5, <1>6, <1>7, <1>8, <1>9 DEF PtpCall

LEMMA DynamicCallKeepsCalls ==
  ASSUME CallInv, NEW a \in App, DynamicCall(a)
  PROVE  CallInv'
  <1>1. CASE DynamicEnter(a)
    <2>1. PICK c \in work[a] :
            /\ c.op \in DynamicOps
            /\ Enter(a, c, IF c.op = "cbs_commit" THEN "slopes" ELSE "route")
      BY <1>1 DEF DynamicEnter
    <2> DEFINE l == IF c.op = "cbs_commit" THEN "slopes" ELSE "route"
    <2>2. l # "mode" /\ l # "value" /\ l \in Labels /\ Suits(c, l)
      BY <2>1 DEF Labels, Suits, DynamicOps
    <2> HIDE DEF l
    <2>3. Enter(a, c, l)
      BY <2>1 DEF l
    <2> QED BY <2>2, <2>3, EnterKeepsCalls
  <1>2. CASE RouteCommit(a)
    <2>1. Continue(a, "window") \/ \E code : LeaveWith(a, code, 0)
      BY <1>2 DEF RouteCommit, LeaveAfter, Leave
    <2>2. CASE Continue(a, "window")
      <3>1. pc[a] = "route" /\ Suits(call[a], "route")
        BY <1>2 DEF RouteCommit, CallInv, Placed
      <3>2. Suits(call[a], "window")
        BY <3>1 DEF Suits
      <3> QED BY <2>2, <3>1, <3>2, ContinueKeepsCalls DEF Labels
    <2> QED BY <2>1, <2>2, LeaveKeepsCalls
  <1>3. CASE RouteRead(a)
    BY <1>3, LeaveKeepsCalls DEF RouteRead, Leave
  <1>4. CASE CbsData(a)
    <2>1. Continue(a, "shaper") \/ \E code : LeaveWith(a, code, 0)
      BY <1>4 DEF CbsData, Leave
    <2>2. pc[a] = "slopes" /\ call[a].op = "cbs_commit"
      BY <1>4 DEF CbsData, CallInv, Placed, Suits
    <2>3. CASE Continue(a, "shaper")
      BY <2>2, <2>3, ContinueKeepsCalls DEF Labels, Suits
    <2> QED BY <2>1, <2>3, LeaveKeepsCalls
  <1>5. CASE CbsCommand(a)
    BY <1>5, LeaveKeepsCalls DEF CbsCommand, LeaveAfter, Leave
  <1> QED BY <1>1, <1>2, <1>3, <1>4, <1>5 DEF DynamicCall

LEMMA CallInvStep == CallInv /\ [LibraryNext]_libraryVars => CallInv'
  <1> SUFFICES ASSUME CallInv, [LibraryNext]_libraryVars PROVE CallInv'
    OBVIOUS
  <1>1. ASSUME NEW a \in App, Killed(a) PROVE CallInv'
    BY <1>1, LeaveKeepsCalls DEF Killed, Leave
  <1>2. CASE PtpChip
    BY <1>2 DEF PtpChip, Tick, StampFrame, callVars, CallInv, Total, Placed
  <1>3. CASE UNCHANGED libraryVars
    BY <1>3 DEF libraryVars, callVars, CallInv, Total, Placed
  <1> QED BY <1>1, <1>2, <1>3, PtpCallKeepsCalls, DynamicCallKeepsCalls DEF LibraryNext
-----------------------------------------------------------------------------
(***************************************************************************)
(* The calls and the chip, for the clocks and timestamps.                  *)
(***************************************************************************)
LEMMA StillKeepsStamps ==
  ASSUME StampInv, UNCHANGED ptpVars
  PROVE  StampInv'
  BY DEF StampInv, ptpVars, chipVars, Dated, ClockTimes

LEMMA CommitKeepsStamps ==
  ASSUME StampInv, NEW a \in App, NEW o, Commit(a, o)
  PROVE  StampInv'
  BY TakeCommandKeepsStamps, StillKeepsStamps DEF Commit

LEMMA PtpCallKeepsStamps ==
  ASSUME CallInv, StampInv, NEW a \in App, PtpCall(a)
  PROVE  StampInv'
  <1>1. CASE PtpEnter(a)
    BY <1>1, StillKeepsStamps DEF PtpEnter
  <1>2. CASE Command(a)
    BY <1>2, CommitKeepsStamps DEF Command
  <1>3. CASE AddModeSet(a)
    BY <1>3, CommitKeepsStamps DEF AddModeSet
  <1>4. CASE ClkWrite(a)
    <2>1. PICK o \in Outcomes, n \in Sent8(Ticks(call[a].ns)) :
            IF Transferred(o) THEN TakeClock(n) ELSE UNCHANGED ptpVars
      BY <1>4 DEF ClkWrite
    <2>2. call[a].ns \in Int
      BY <1>4 DEF ClkWrite, CallInv
    <2>3. n \in 0..ClockMod - 1
      BY <2>2, TicksInRange
    <2> QED BY <2>1, <2>3, TakeClockKeepsStamps, StillKeepsStamps
  <1>5. CASE RegWrite(a)
    <2>1. UNCHANGED <<clk, source, egr, taken>>
      BY <1>5 DEF RegWrite, ptpVars, chipVars
    <2> QED BY <2>1 DEF StampInv, Dated, ClockTimes
  <1>6. CASE ClkGet(a)
    BY <1>6, StillKeepsStamps DEF ClkGet
  <1>7. CASE QbvRunning(a)
    BY <1>7, StillKeepsStamps DEF QbvRunning
  <1>8. CASE PollStamp(a)
    <2>1. UNCHANGED <<clk, source>>
      BY <1>8 DEF PollStamp
    <2>2. egr' = egr \/ egr' = [egr EXCEPT !.update = FALSE]
      BY <1>8 DEF PollStamp
    <2>3. egr' \in Stamps /\ Dated(egr', clk)
      BY <2>2 DEF StampInv, Stamps, Dated
    <2>4. taken' = taken \/ taken' = [taken EXCEPT ![a] = egr]
      BY <1>8 DEF PollStamp
    <2>5. taken' \in [App -> Stamps] /\ \A x \in App : Dated(taken'[x], clk)
      BY <2>4 DEF StampInv
    <2> QED BY <2>1, <2>3, <2>5 DEF StampInv, Dated, ClockTimes
  <1>9. CASE PollClock(a)
    <2>1. UNCHANGED chipVars /\ taken' = [taken EXCEPT ![a] = NoStamp]
      BY <1>9 DEF PollClock
    <2>2. NoStamp \in Stamps /\ Dated(NoStamp, clk)
      BY Moduli, SMT DEF NoStamp, Stamps, Dated, Stale, Clocks
    <2>3. taken' \in [App -> Stamps] /\ \A x \in App : Dated(taken'[x], clk)
      BY <2>1, <2>2 DEF StampInv
    <2> QED BY <2>1, <2>3 DEF StampInv, chipVars, Dated, ClockTimes
  <1> QED BY <1>1, <1>2, <1>3, <1>4, <1>5, <1>6, <1>7, <1>8, <1>9 DEF PtpCall

LEMMA ChipKeepsStamps ==
  ASSUME StampInv, PtpChip
  PROVE  StampInv'
  <1>1. ASSUME NEW c \in Clocks, Tick(c) PROVE StampInv'
    <2>1. /\ clk' = [clk EXCEPT ![c] = (@ + 1) % ClockMod] /\ source' = source
          /\ egr' = Older(egr, c) /\ taken' = [a \in App |-> Older(taken[a], c)]
      BY <1>1 DEF Tick
    <2>2. clk' \in ClockTimes /\ egr' \in Stamps /\ Dated(egr', clk')
      BY <2>1, OlderStaysDated DEF StampInv
    <2>3. \A a \in App : taken'[a] \in Stamps /\ Dated(taken'[a], clk')
      BY <2>1, OlderStaysDated DEF StampInv
    <2>4. taken' \in [App -> Stamps]
      BY <2>1, <2>3
    <2> QED BY <2>1, <2>2, <2>3, <2>4 DEF StampInv, Dated, ClockTimes
  <1>2. CASE StampFrame
    <2> DEFINE now == clk[source]
               low == now % StampMod
    <2>1. /\ egr' = [update |-> TRUE, part |-> low, of |-> source, age |-> 0]
          /\ UNCHANGED <<clk, source, taken>>
      BY <1>2 DEF StampFrame
    <2>2. ClockMod \in Nat \ {0} /\ StampMod \in Nat \ {0} /\ now \in 0..ClockMod - 1
      BY Moduli DEF StampInv, ClockTimes
    <2>3. low \in Int /\ (now - 0) % ClockMod = now
      <3> HIDE DEF now
      <3>1. now = ClockMod * 0 + now
        BY <2>2, SMT
      <3>2. now % ClockMod = now
        BY <2>2, <3>1, ModUnique
      <3> QED BY <2>2, <3>2, DivMod, SMT
    <2>4. egr' \in Stamps
      BY <2>1, <2>2, <2>3, SMT DEF StampInv, Stamps, Stale
    <2>5. Dated(egr', clk)
      BY <2>1, <2>3 DEF Dated
    <2> QED BY <2>1, <2>4, <2>5 DEF StampInv, Dated, ClockTimes
  <1> QED BY <1>1, <1>2 DEF PtpChip

LEMMA StampInvStep == CallInv /\ StampInv /\ [LibraryNext]_libraryVars => StampInv'
  <1> SUFFICES ASSUME CallInv, StampInv, [LibraryNext]_libraryVars PROVE StampInv'
    OBVIOUS
  <1>1. CASE UNCHANGED libraryVars
    BY <1>1, StillKeepsStamps DEF libraryVars
  <1> QED BY <1>1, PtpCallKeepsStamps, ChipKeepsStamps, StillKeepsStamps DEF LibraryNext
-----------------------------------------------------------------------------
(***************************************************************************)
(* A step moves one application, and only PollClock leaves from "clock"    *)
(* with 0.                                                                 *)
(***************************************************************************)
Moved(x) == \E l : pc' = [pc EXCEPT ![x] = l]

LEMMA CallMovesOne ==
  ASSUME NEW x \in App, PtpCall(x) \/ DynamicCall(x) \/ Killed(x)
  PROVE  Moved(x)
  <1> USE DEF Moved, Continue, LeaveAfter, Leave, LeaveWith
  <1>1. CASE PtpEnter(x)
    BY <1>1 DEF PtpEnter, Enter, Refused
  <1>2. CASE Command(x)
    BY <1>2 DEF Command
  <1>3. CASE AddModeSet(x)
    BY <1>3 DEF AddModeSet
  <1>4. CASE ClkWrite(x)
    BY <1>4 DEF ClkWrite
  <1>5. CASE RegWrite(x)
    BY <1>5 DEF RegWrite
  <1>6. CASE ClkGet(x) \/ QbvRunning(x)
    BY <1>6 DEF ClkGet, QbvRunning
  <1>7. CASE PollStamp(x) \/ PollClock(x)
    BY <1>7 DEF PollStamp, PollClock
  <1>8. CASE DynamicEnter(x)
    BY <1>8 DEF DynamicEnter, Enter
  <1>9. CASE RouteCommit(x) \/ RouteRead(x)
    BY <1>9 DEF RouteCommit, RouteRead
  <1>10. CASE CbsData(x) \/ CbsCommand(x)
    BY <1>10 DEF CbsData, CbsCommand
  <1>11. CASE Killed(x)
    BY <1>11 DEF Killed
  <1> QED BY <1>1, <1>2, <1>3, <1>4, <1>5, <1>6, <1>7, <1>8, <1>9, <1>10, <1>11 DEF PtpCall, DynamicCall

\* Whoever a step moves is the one whose call returns in it.
LEMMA WhoReturns ==
  ASSUME CallInv, LibraryNext, NEW a \in App, NEW label, label # "idle", Succeeds(a, label)
  PROVE  PtpCall(a) \/ DynamicCall(a)
  <1>1. pc[a] = label /\ pc'[a] = "idle" /\ ret'[a].rc = "ok"
    BY DEF Succeeds
  <1>2. ASSUME NEW x \in App, PtpCall(x) \/ DynamicCall(x) \/ Killed(x) PROVE x = a
    BY <1>1, <1>2, CallMovesOne DEF Moved, CallInv, Total
  <1>3. ~Killed(a)
    <2>1. ASSUME Killed(a) PROVE ret'[a].rc = "killed"
      BY <2>1 DEF Killed, Leave, LeaveWith, CallInv, Total
    <2> QED BY <1>1, <2>1
  <1>4. ~PtpChip
    BY <1>1 DEF PtpChip, Tick, StampFrame, callVars
  <1> QED BY <1>2, <1>3, <1>4 DEF LibraryNext

LEMMA OnlyPollClock ==
  ASSUME CallInv, LibraryNext, NEW a \in App, Succeeds(a, "clock")
  PROVE  PollClock(a)
  <1>1. pc[a] = "clock"
    BY DEF Succeeds
  <1>2. PtpCall(a) \/ DynamicCall(a)
    BY WhoReturns
  <1> QED BY <1>1, <1>2 DEF PtpCall, DynamicCall, PtpEnter, Enter, Refused, Command, AddModeSet,
            ClkWrite, RegWrite, ClkGet, QbvRunning, PollStamp, DynamicEnter, RouteCommit, RouteRead,
            CbsData, CbsCommand

LEMMA PollIsExact ==
  ASSUME CallInv, StampInv, NEW a \in App, PollClock(a), Succeeds(a, "clock"), Tells(a)
  PROVE  ret'[a].value = Nanoseconds((clk[call[a].source] - taken[a].age) % ClockMod)
  <1> DEFINE s == taken[a]
             now == clk[call[a].source]
  <1>1. ret'[a].value = Nanoseconds(Reconstruct(now, s.part))
    <2>1. PICK o \in Outcomes :
            IF o # "ok" THEN Leave(a, "ERRNO") ELSE LeaveWith(a, "ok", Nanoseconds(Reconstruct(now, s.part)))
      BY DEF PollClock
    <2>2. CASE o # "ok"
      BY <2>1, <2>2 DEF Leave, LeaveWith, Succeeds, CallInv, Total
    <2>3. CASE o = "ok"
      BY <2>1, <2>3 DEF LeaveWith, CallInv, Total
    <2> QED BY <2>2, <2>3
  <1>2. s \in Stamps /\ Dated(s, clk) /\ clk \in ClockTimes
    BY DEF StampInv
  <1>3. s.of = call[a].source /\ s.age \in 1..StampMod /\ s.of \in Clocks
    BY <1>2 DEF Tells, Stamps
  <1>4. now \in 0..ClockMod - 1
    BY <1>2, <1>3 DEF ClockTimes
  <1>5. s.part = ((now - s.age) % ClockMod) % StampMod
    <2>1. s.age < Stale
      BY <1>3, Moduli, SMT DEF Stale
    <2> QED BY <1>2, <1>3, <2>1 DEF Dated
  <1>6. Reconstruct(now, s.part) = (now - s.age) % ClockMod
    BY <1>3, <1>4, <1>5, ReconstructIsExact
  <1> QED BY <1>1, <1>6

(***************************************************************************)
(* Every timestamp that a poll returns is the time at which the frame left *)
(* the switch, for any clock and timestamp width and any number of         *)
(* applications, under the conditions of Tells.                            *)
(***************************************************************************)
THEOREM TimestampsAreExact == LibrarySpec => TimestampIsExact
  <1> DEFINE Exact == \A a \in App : Succeeds(a, "clock") /\ Tells(a) =>
                        ret'[a].value = Nanoseconds((clk[call[a].source] - taken[a].age) % ClockMod)
  <1>1. LibraryInit => CallInv /\ StampInv
    BY CallInvInit, StampInvInit
  <1>2. CallInv /\ StampInv /\ [LibraryNext]_libraryVars => CallInv' /\ StampInv'
    BY CallInvStep, StampInvStep
  <1>3. CallInv /\ StampInv /\ [LibraryNext]_libraryVars => [Exact]_<<callVars, ptpVars>>
    <2> SUFFICES ASSUME CallInv, StampInv, [LibraryNext]_libraryVars,
                        ~UNCHANGED <<callVars, ptpVars>>,
                        NEW a \in App, Succeeds(a, "clock"), Tells(a)
                 PROVE  ret'[a].value = Nanoseconds((clk[call[a].source] - taken[a].age) % ClockMod)
      OBVIOUS
    <2>1. LibraryNext
      BY DEF libraryVars
    <2> QED BY <2>1, OnlyPollClock, PollIsExact
  <1> HIDE DEF Exact
  <1>4. LibrarySpec => [][Exact]_<<callVars, ptpVars>>
    BY <1>1, <1>2, <1>3, PTL DEF LibrarySpec
  <1> QED BY <1>4 DEF TimestampIsExact, Exact
-----------------------------------------------------------------------------
(***************************************************************************)
(* The mode of the clock: a caller that has sent its mode and has not been *)
(* disturbed finds PTPCLKADD as it asked.                                  *)
(***************************************************************************)
ModeInv ==
  /\ Total(alone)
  /\ \A a \in App :
       /\ pc[a] \in {"mode", "value"} => call[a].op \in {"clk_set", "clk_add"}
       /\ pc[a] = "value" /\ alone[a] => (add <=> call[a].op = "clk_add")

\* What a step of x leaves to the others.
SparesOthers(x) ==
  \A a \in App \ {x} :
    /\ pc'[a] = pc[a] /\ call'[a] = call[a]
    /\ alone'[a] => pc[a] = "idle" \/ (alone[a] /\ add' = add)

LEMMA ModeInvInit == LibraryInit => ModeInv
  BY DEF LibraryInit, CallInit, ModeInv, Total

LEMMA CommitSpares ==
  ASSUME ModeInv, NEW x \in App, NEW o, Commit(x, o)
  PROVE  \A a \in App \ {x} : alone'[a] => pc[a] = "idle" \/ (alone[a] /\ add' = add)
  BY DEF Commit, Disturb, ptpVars, chipVars

LEMMA PtpCallSpares ==
  ASSUME CallInv, ModeInv, NEW x \in App, PtpCall(x)
  PROVE  SparesOthers(x) /\ Total(alone')
  <1> USE DEF SparesOthers, Continue, LeaveAfter, Leave, LeaveWith, CallInv, ModeInv, Total, ptpVars, chipVars
  <1>1. CASE PtpEnter(x)
    BY <1>1 DEF PtpEnter, Enter, Refused
  <1>2. CASE Command(x)
    BY <1>2, CommitSpares DEF Command, Commit, Disturb
  <1>3. CASE AddModeSet(x)
    BY <1>3, CommitSpares DEF AddModeSet, Commit, Disturb
  <1>4. CASE ClkWrite(x)
    BY <1>4 DEF ClkWrite, TakeClock, Disturb
  <1>5. CASE RegWrite(x)
    BY <1>5 DEF RegWrite, Disturb
  <1>6. CASE ClkGet(x) \/ QbvRunning(x)
    BY <1>6 DEF ClkGet, QbvRunning
  <1>7. CASE PollStamp(x)
    BY <1>7 DEF PollStamp
  <1>8. CASE PollClock(x)
    BY <1>8 DEF PollClock
  <1> QED BY <1>1, <1>2, <1>3, <1>4, <1>5, <1>6, <1>7, <1>8 DEF PtpCall

LEMMA DynamicCallSpares ==
  ASSUME CallInv, ModeInv, NEW x \in App, DynamicCall(x), UNCHANGED ptpVars
  PROVE  SparesOthers(x) /\ Total(alone')
  <1> USE DEF SparesOthers, Continue, LeaveAfter, Leave, LeaveWith, CallInv, ModeInv, Total, ptpVars, chipVars
  <1>1. CASE DynamicEnter(x)
    BY <1>1 DEF DynamicEnter, Enter
  <1>2. CASE RouteCommit(x) \/ RouteRead(x)
    BY <1>2 DEF RouteCommit, RouteRead, Disturb
  <1>3. CASE CbsData(x) \/ CbsCommand(x)
    BY <1>3 DEF CbsData, CbsCommand, Disturb
  <1> QED BY <1>1, <1>2, <1>3 DEF DynamicCall

\* The caller itself: only AddModeSet leads to "value", with the mode it sent.
LEMMA OwnMode ==
  ASSUME CallInv, ModeInv, NEW x \in App, PtpCall(x) \/ DynamicCall(x) \/ Killed(x)
  PROVE  /\ pc'[x] \in {"mode", "value"} => call'[x].op \in {"clk_set", "clk_add"}
         /\ pc'[x] = "value" => (add' <=> call'[x].op = "clk_add")
  <1> USE DEF Continue, LeaveAfter, Leave, LeaveWith, CallInv, ModeInv, Total
  <1>1. CASE PtpEnter(x)
    BY <1>1 DEF PtpEnter, Enter, Refused, FirstTransfer
  <1>2. CASE Command(x)
    BY <1>2 DEF Command
  <1>3. CASE AddModeSet(x)
    <2>1. PICK o \in Outcomes :
            Commit(x, o) /\ IF o = "ok" THEN Continue(x, "value") ELSE Leave(x, "ERRNO")
      BY <1>3 DEF AddModeSet
    <2>2. CASE o # "ok"
      BY <2>1, <2>2
    <2>3. CASE o = "ok"
      <3>1. add' = ("ptpclkadd" \in CommandOf(call[x]))
        BY <2>1, <2>3 DEF Commit, Transferred, TakeCommand
      <3>2. call[x].op \in {"clk_set", "clk_add"} /\ call' = call
        BY <1>3, <2>1, <2>3 DEF AddModeSet
      <3>3. "ptpclkadd" \in CommandOf(call[x]) <=> call[x].op = "clk_add"
        BY <3>2 DEF CommandOf
      <3> QED BY <3>1, <3>2, <3>3
    <2> QED BY <2>2, <2>3
  <1>4. CASE ClkWrite(x) \/ RegWrite(x)
    BY <1>4 DEF ClkWrite, RegWrite
  <1>5. CASE ClkGet(x) \/ QbvRunning(x)
    BY <1>5 DEF ClkGet, QbvRunning
  <1>6. CASE PollStamp(x) \/ PollClock(x)
    BY <1>6 DEF PollStamp, PollClock
  <1>7. CASE DynamicEnter(x)
    BY <1>7 DEF DynamicEnter, Enter
  <1>8. CASE RouteCommit(x) \/ RouteRead(x)
    BY <1>8 DEF RouteCommit, RouteRead
  <1>9. CASE CbsData(x) \/ CbsCommand(x)
    BY <1>9 DEF CbsData, CbsCommand
  <1>10. CASE Killed(x)
    BY <1>10 DEF Killed
  <1> QED BY <1>1, <1>2, <1>3, <1>4, <1>5, <1>6, <1>7, <1>8, <1>9, <1>10 DEF PtpCall, DynamicCall

LEMMA ModeInvStep == CallInv /\ ModeInv /\ [LibraryNext]_libraryVars => ModeInv'
  <1> SUFFICES ASSUME CallInv, ModeInv, [LibraryNext]_libraryVars PROVE ModeInv'
    OBVIOUS
  <1>1. ASSUME NEW x \in App, PtpCall(x) \/ DynamicCall(x) \/ Killed(x), SparesOthers(x), Total(alone')
        PROVE  ModeInv'
    <2>1. ASSUME NEW a \in App
          PROVE  /\ pc'[a] \in {"mode", "value"} => call'[a].op \in {"clk_set", "clk_add"}
                 /\ pc'[a] = "value" /\ alone'[a] => (add' <=> call'[a].op = "clk_add")
      <3>1. CASE a = x
        BY <1>1, <3>1, OwnMode
      <3>2. CASE a # x
        BY <1>1, <3>2 DEF SparesOthers, ModeInv
      <3> QED BY <3>1, <3>2
    <2> QED BY <1>1, <2>1 DEF ModeInv, Total
  <1>2. ASSUME NEW x \in App, PtpCall(x) PROVE ModeInv'
    BY <1>1, <1>2, PtpCallSpares
  <1>3. ASSUME NEW x \in App, DynamicCall(x), UNCHANGED ptpVars PROVE ModeInv'
    BY <1>1, <1>3, DynamicCallSpares
  <1>4. ASSUME NEW x \in App, Killed(x), UNCHANGED ptpVars PROVE ModeInv'
    <2>1. SparesOthers(x) /\ Total(alone')
      BY <1>4 DEF SparesOthers, Killed, Leave, LeaveWith, CallInv, ModeInv, Total, ptpVars, chipVars
    <2> QED BY <1>1, <1>4, <2>1
  <1>5. CASE PtpChip
    BY <1>5 DEF PtpChip, Tick, StampFrame, callVars, ModeInv, Total
  <1>6. CASE UNCHANGED libraryVars
    BY <1>6 DEF libraryVars, callVars, ptpVars, chipVars, ModeInv, Total
  <1> QED BY <1>2, <1>3, <1>4, <1>5, <1>6 DEF LibraryNext

(***************************************************************************)
(* clk_set sets and clk_add adds: for any number of applications, any time *)
(* and any failures, when no other application has written in between.     *)
(***************************************************************************)
THEOREM StepsAreAsAsked == LibrarySpec => StepIsAsAsked
  <1> DEFINE AsAsked ==
        \A a \in App : Succeeds(a, "value") /\ alone[a] =>
         LET n == Ticks(call[a].ns)
         IN  \E m \in {n, n % LowBytesMod} :
               clk'["ptpclk"] = IF call[a].op = "clk_set" THEN m ELSE (clk["ptpclk"] + m) % ClockMod
  <1>1. LibraryInit => CallInv /\ StampInv /\ ModeInv
    BY CallInvInit, StampInvInit, ModeInvInit
  <1>2. CallInv /\ StampInv /\ ModeInv /\ [LibraryNext]_libraryVars => CallInv' /\ StampInv' /\ ModeInv'
    BY CallInvStep, StampInvStep, ModeInvStep
  <1>3. CallInv /\ StampInv /\ ModeInv /\ [LibraryNext]_libraryVars => [AsAsked]_<<callVars, ptpVars>>
    <2> SUFFICES ASSUME CallInv, StampInv, ModeInv, [LibraryNext]_libraryVars,
                        ~UNCHANGED <<callVars, ptpVars>>,
                        NEW a \in App, Succeeds(a, "value"), alone[a],
                        NEW n, n = Ticks(call[a].ns)
                 PROVE  \E m \in {n, n % LowBytesMod} :
                          clk'["ptpclk"] = IF call[a].op = "clk_set" THEN m
                                           ELSE (clk["ptpclk"] + m) % ClockMod
      OBVIOUS
    <2>1. pc[a] = "value" /\ call[a].op \in {"clk_set", "clk_add"} /\ (add <=> call[a].op = "clk_add")
      BY DEF Succeeds, ModeInv
    <2>2. ClkWrite(a)
      <3>1. LibraryNext
        BY DEF libraryVars
      <3>2. PtpCall(a) \/ DynamicCall(a)
        BY <3>1, WhoReturns
      <3> QED BY <2>1, <3>2 DEF PtpCall, DynamicCall, PtpEnter, Enter, Refused, Command, AddModeSet,
                RegWrite, ClkGet, QbvRunning, PollStamp, PollClock, DynamicEnter, RouteCommit,
                RouteRead, CbsData, CbsCommand
    <2>3. PICK o \in Outcomes, v \in Sent8(n) :
            /\ IF Transferred(o) THEN TakeClock(v) ELSE UNCHANGED ptpVars
            /\ LeaveAfter(a, o)
      BY <2>2 DEF ClkWrite
    <2>4. o = "ok"
      BY <2>3 DEF LeaveAfter, Leave, LeaveWith, Succeeds, CallInv, Total
    <2>5. v \in {n, n % LowBytesMod}
      BY <2>3 DEF Sent8
    <2>6. TakeClock(v)
      BY <2>3, <2>4 DEF Transferred
    <2>7. clk'["ptpclk"] = IF call[a].op = "clk_set" THEN v ELSE (clk["ptpclk"] + v) % ClockMod
      BY <2>1, <2>6 DEF TakeClock, StampInv, ClockTimes, Clocks
    <2> QED BY <2>5, <2>7
  <1> HIDE DEF AsAsked
  <1>4. LibrarySpec => [][AsAsked]_<<callVars, ptpVars>>
    BY <1>1, <1>2, <1>3, PTL DEF LibrarySpec
  <1> QED BY <1>4 DEF StepIsAsAsked, AsAsked
-----------------------------------------------------------------------------
(***************************************************************************)
(* The windows: a caller that has named its route or filled the data       *)
(* registers of the shapers, and has not been disturbed, finds there what  *)
(* it left.                                                                *)
(***************************************************************************)
WindowOf(a) ==
  pc[a] = "window" /\ alone[a] => window = [index |-> call[a].index, entry |-> route[call[a].index]]

SlopesOf(a) == pc[a] = "shaper" /\ alone[a] => slopes = call[a].slopes

WindowInv ==
  /\ DOMAIN shaper = Shapers
  /\ \A a \in App : WindowOf(a) /\ SlopesOf(a)

\* What a step of x leaves of the windows to the others.
SparesWindows(x) ==
  \A a \in App \ {x} :
    /\ pc'[a] = pc[a] /\ call'[a] = call[a]
    /\ alone'[a] => pc[a] = "idle" \/ (alone[a] /\ UNCHANGED <<route, window, slopes>>)

LEMMA WindowInvInit == LibraryInit => WindowInv
  BY DEF LibraryInit, CallInit, DynamicInit, WindowInv, WindowOf, SlopesOf

LEMMA SparedWindow ==
  ASSUME WindowInv, NEW x \in App, SparesWindows(x), NEW a \in App \ {x}
  PROVE  WindowOf(a)' /\ SlopesOf(a)'
  BY DEF WindowInv, WindowOf, SlopesOf, SparesWindows

LEMMA DynamicSpares ==
  ASSUME CallInv, ModeInv, NEW x \in App, DynamicCall(x)
  PROVE  SparesWindows(x)
  <1> USE DEF SparesWindows, Continue, LeaveAfter, Leave, LeaveWith, CallInv, ModeInv, Total
  <1>1. CASE DynamicEnter(x)
    BY <1>1 DEF DynamicEnter, Enter, dynamicVars
  <1>2. CASE RouteCommit(x)
    BY <1>2 DEF RouteCommit, Disturb
  <1>3. CASE RouteRead(x)
    BY <1>3 DEF RouteRead, dynamicVars
  <1>4. CASE CbsData(x)
    BY <1>4 DEF CbsData, Disturb
  <1>5. CASE CbsCommand(x)
    BY <1>5 DEF CbsCommand, Disturb
  <1> QED BY <1>1, <1>2, <1>3, <1>4, <1>5 DEF DynamicCall

\* The caller itself.
LEMMA OwnWindow ==
  ASSUME CallInv, ModeInv, WindowInv, NEW x \in App, DynamicCall(x)
  PROVE  WindowOf(x)' /\ SlopesOf(x)' /\ DOMAIN shaper' = Shapers
  <1> USE DEF Continue, LeaveAfter, Leave, LeaveWith, CallInv, Total, WindowInv, WindowOf, SlopesOf
  <1>1. CASE DynamicEnter(x)
    BY <1>1 DEF DynamicEnter, Enter, dynamicVars
  <1>2. CASE RouteCommit(x)
    <2>1. PICK o \in Outcomes :
            /\ IF Transferred(o) THEN RouteCommand(call[x]) ELSE UNCHANGED <<route, window>>
            /\ IF o = "ok" /\ call[x].op = "mgmt_route_get" THEN Continue(x, "window")
               ELSE LeaveAfter(x, o)
            /\ UNCHANGED <<shaper, slopes>>
      BY <1>2 DEF RouteCommit
    <2>2. CASE o = "ok" /\ call[x].op = "mgmt_route_get"
      BY <2>1, <2>2 DEF Transferred, RouteCommand
    <2>3. CASE ~(o = "ok" /\ call[x].op = "mgmt_route_get")
      BY <2>1, <2>3
    <2> QED BY <2>2, <2>3
  <1>3. CASE RouteRead(x)
    BY <1>3 DEF RouteRead, dynamicVars
  <1>4. CASE CbsData(x)
    <2>1. PICK o \in Outcomes :
            /\ IF Transferred(o) THEN slopes' = call[x].slopes /\ StrayCommand(call[x].slopes)
               ELSE UNCHANGED <<slopes, shaper>>
            /\ IF o = "ok" THEN Continue(x, "shaper") ELSE Leave(x, "ERRNO")
      BY <1>4 DEF CbsData
    <2>2. DOMAIN shaper' = Shapers
      BY <2>1 DEF StrayCommand
    <2>3. pc'[x] # "window" /\ (pc'[x] = "shaper" => slopes' = call'[x].slopes)
      BY <2>1 DEF Transferred
    <2> QED BY <2>2, <2>3
  <1>5. CASE CbsCommand(x)
    BY <1>5 DEF CbsCommand
  <1> QED BY <1>1, <1>2, <1>3, <1>4, <1>5 DEF DynamicCall

LEMMA PtpStaysOut ==
  ASSUME CallInv, NEW x \in App, PtpCall(x) \/ Killed(x)
  PROVE  pc'[x] \notin {"window", "shaper"}
  <1> USE DEF Continue, LeaveAfter, Leave, LeaveWith, CallInv, Total
  <1>1. CASE PtpEnter(x)
    BY <1>1 DEF PtpEnter, Enter, Refused, FirstTransfer
  <1>2. CASE Command(x) \/ AddModeSet(x)
    BY <1>2 DEF Command, AddModeSet
  <1>3. CASE ClkWrite(x) \/ RegWrite(x)
    BY <1>3 DEF ClkWrite, RegWrite
  <1>4. CASE ClkGet(x) \/ QbvRunning(x)
    BY <1>4 DEF ClkGet, QbvRunning
  <1>5. CASE PollStamp(x) \/ PollClock(x)
    BY <1>5 DEF PollStamp, PollClock
  <1>6. CASE Killed(x)
    BY <1>6 DEF Killed
  <1> QED BY <1>1, <1>2, <1>3, <1>4, <1>5, <1>6 DEF PtpCall

LEMMA WindowInvStep == CallInv /\ ModeInv /\ WindowInv /\ [LibraryNext]_libraryVars => WindowInv'
  <1> SUFFICES ASSUME CallInv, ModeInv, WindowInv, [LibraryNext]_libraryVars PROVE WindowInv'
    OBVIOUS
  <1>1. ASSUME NEW x \in App, DynamicCall(x) PROVE WindowInv'
    <2>1. WindowOf(x)' /\ SlopesOf(x)' /\ DOMAIN shaper' = Shapers
      BY <1>1, OwnWindow
    <2>2. \A a \in App \ {x} : WindowOf(a)' /\ SlopesOf(a)'
      BY <1>1, DynamicSpares, SparedWindow
    <2> QED BY <2>1, <2>2 DEF WindowInv
  <1>2. ASSUME NEW x \in App, PtpCall(x) \/ Killed(x), SparesOthers(x), UNCHANGED dynamicVars
        PROVE  WindowInv'
    <2>1. WindowOf(x)' /\ SlopesOf(x)'
      BY <1>2, PtpStaysOut DEF WindowOf, SlopesOf
    <2>2. SparesWindows(x)
      BY <1>2 DEF SparesOthers, SparesWindows, dynamicVars
    <2>3. \A a \in App \ {x} : WindowOf(a)' /\ SlopesOf(a)'
      BY <2>2, SparedWindow
    <2> QED BY <1>2, <2>1, <2>3 DEF WindowInv, dynamicVars
  <1>3. ASSUME NEW x \in App, PtpCall(x), UNCHANGED dynamicVars PROVE WindowInv'
    BY <1>2, <1>3, PtpCallSpares
  <1>4. ASSUME NEW x \in App, Killed(x), UNCHANGED <<ptpVars, dynamicVars>> PROVE WindowInv'
    <2>1. SparesOthers(x)
      BY <1>4 DEF SparesOthers, Killed, Leave, LeaveWith, CallInv, ModeInv, Total, ptpVars, chipVars
    <2> QED BY <1>2, <1>4, <2>1
  <1>5. CASE UNCHANGED <<pc, call, alone, dynamicVars>>
    BY <1>5 DEF WindowInv, WindowOf, SlopesOf, dynamicVars
  <1>6. CASE PtpChip /\ UNCHANGED dynamicVars
    BY <1>5, <1>6 DEF PtpChip, Tick, StampFrame, callVars
  <1>7. CASE UNCHANGED libraryVars
    BY <1>5, <1>7 DEF libraryVars, callVars
  <1> QED BY <1>1, <1>3, <1>4, <1>6, <1>7 DEF LibraryNext

\* Whose call returns from a window.
LEMMA OnlyDynamic ==
  ASSUME CallInv, LibraryNext, NEW a \in App, NEW label \in {"window", "shaper"}, Succeeds(a, label)
  PROVE  DynamicCall(a)
  <1>1. pc[a] = label
    BY DEF Succeeds
  <1>2. PtpCall(a) \/ DynamicCall(a)
    BY WhoReturns
  <1> QED BY <1>1, <1>2 DEF PtpCall, PtpEnter, Enter, Refused, Command, AddModeSet, ClkWrite,
                RegWrite, ClkGet, QbvRunning, PollStamp, PollClock

\* While somebody is to read the window, it shows a route as the switch has it.
ShownInv ==
  /\ DOMAIN route = Routes
  /\ (\E a \in App : pc[a] = "window") => window.entry = route[window.index]

LEMMA ShownInvInit == LibraryInit => ShownInv
  BY DEF LibraryInit, CallInit, DynamicInit, ShownInv

LEMMA NobodyNew ==
  ASSUME ShownInv, UNCHANGED <<route, window>>, \A a \in App : pc'[a] = "window" => pc[a] = "window"
  PROVE  ShownInv'
  BY DEF ShownInv

LEMMA CommandShows ==
  ASSUME CallInv, ShownInv, NEW x \in App, pc[x] = "route", RouteCommand(call[x])
  PROVE  ShownInv'
  <1>1. call[x].op \in {"mgmt_route_get", "mgmt_route_set"} /\ call[x].index \in Routes
    <2>1. call[x] \in work[x] /\ work \in Workloads
          /\ call[x].op \in {"mgmt_route_get", "mgmt_route_set"}
      BY DEF CallInv, Placed, Suits
    <2> QED BY <2>1, IndicesAssumption
  <1> QED BY <1>1 DEF RouteCommand, ShownInv

LEMMA DynamicShows ==
  ASSUME CallInv, ShownInv, NEW x \in App, DynamicCall(x)
  PROVE  ShownInv'
  <1> USE DEF Continue, LeaveAfter, Leave, LeaveWith, CallInv, Total
  <1>1. CASE RouteCommit(x)
    <2>1. PICK o \in Outcomes :
            /\ pc[x] = "route"
            /\ IF Transferred(o) THEN RouteCommand(call[x]) ELSE UNCHANGED <<route, window>>
            /\ IF o = "ok" /\ call[x].op = "mgmt_route_get" THEN Continue(x, "window")
               ELSE LeaveAfter(x, o)
      BY <1>1 DEF RouteCommit
    <2>2. CASE Transferred(o)
      BY <2>1, <2>2, CommandShows
    <2>3. CASE ~Transferred(o)
      <3>1. LeaveAfter(x, o)
        BY <2>1, <2>3 DEF Transferred
      <3> QED BY <2>1, <2>3, <3>1, NobodyNew
    <2> QED BY <2>2, <2>3
  <1>2. CASE DynamicEnter(x)
    BY <1>2, NobodyNew DEF DynamicEnter, Enter, dynamicVars
  <1>3. CASE RouteRead(x)
    BY <1>3, NobodyNew DEF RouteRead, dynamicVars
  <1>4. CASE CbsData(x) \/ CbsCommand(x)
    BY <1>4, NobodyNew DEF CbsData, CbsCommand
  <1> QED BY <1>1, <1>2, <1>3, <1>4 DEF DynamicCall

LEMMA ShownInvStep == CallInv /\ ModeInv /\ ShownInv /\ [LibraryNext]_libraryVars => ShownInv'
  <1> SUFFICES ASSUME CallInv, ModeInv, ShownInv, [LibraryNext]_libraryVars PROVE ShownInv'
    OBVIOUS
  <1>1. ASSUME NEW x \in App, DynamicCall(x) PROVE ShownInv'
    BY <1>1, DynamicShows
  <1>2. ASSUME NEW x \in App, PtpCall(x) \/ (Killed(x) /\ UNCHANGED ptpVars), UNCHANGED dynamicVars
        PROVE  ShownInv'
    <2>1. SparesOthers(x)
      <3>1. CASE Killed(x)
        <4>1. CASE UNCHANGED ptpVars
          BY <3>1, <4>1
          DEF SparesOthers, Killed, Leave, LeaveWith, CallInv, ModeInv, Total, ptpVars, chipVars
        <4> QED BY <1>2, <4>1, PtpCallSpares
      <3> QED BY <1>2, <3>1, PtpCallSpares
    <2>2. \A a \in App : pc'[a] = "window" => pc[a] = "window"
      BY <1>2, <2>1, PtpStaysOut DEF SparesOthers
    <2> QED BY <1>2, <2>2, NobodyNew DEF dynamicVars
  <1>3. CASE UNCHANGED <<pc, dynamicVars>>
    BY <1>3, NobodyNew DEF dynamicVars
  <1>4. CASE PtpChip /\ UNCHANGED dynamicVars
    BY <1>3, <1>4 DEF PtpChip, Tick, StampFrame, callVars
  <1>5. CASE UNCHANGED libraryVars
    BY <1>3, <1>5 DEF libraryVars, callVars
  <1> QED BY <1>1, <1>2, <1>4, <1>5 DEF LibraryNext

(***************************************************************************)
(* A get returns a route as the switch has it, under its own index,        *)
(* whatever other applications do between its transfers; when none of them *)
(* writes in between, it is the route asked for.  Any number of routes and *)
(* applications, whatever transfers fail.                                  *)
(***************************************************************************)
THEOREM RoutesAnswerTheQuestion == LibrarySpec => RouteAnswersTheQuestion
  <1> DEFINE Answers ==
        \A a \in App : Succeeds(a, "window") =>
          LET got == ret'[a].value
          IN  /\ got.entry = route[got.index]
              /\ alone[a] => got.index = call[a].index
  <1>1. LibraryInit => CallInv /\ ModeInv /\ WindowInv /\ ShownInv
    BY CallInvInit, ModeInvInit, WindowInvInit, ShownInvInit
  <1>2. CallInv /\ ModeInv /\ WindowInv /\ ShownInv /\ [LibraryNext]_libraryVars
          => CallInv' /\ ModeInv' /\ WindowInv' /\ ShownInv'
    BY CallInvStep, ModeInvStep, WindowInvStep, ShownInvStep
  <1>3. CallInv /\ WindowInv /\ ShownInv /\ [LibraryNext]_libraryVars
          => [Answers]_<<callVars, dynamicVars>>
    <2> SUFFICES ASSUME CallInv, WindowInv, ShownInv, [LibraryNext]_libraryVars,
                        ~UNCHANGED <<callVars, dynamicVars>>,
                        NEW a \in App, Succeeds(a, "window"), NEW got, got = ret'[a].value
                 PROVE  got.entry = route[got.index] /\ (alone[a] => got.index = call[a].index)
      OBVIOUS
    <2>1. LibraryNext /\ pc[a] = "window"
      BY DEF libraryVars, Succeeds
    <2>2. RouteRead(a)
      BY <2>1, OnlyDynamic DEF DynamicCall, DynamicEnter, Enter, RouteCommit, CbsData, CbsCommand
    <2>3. PICK o \in Outcomes :
            IF o = "ok" THEN LeaveWith(a, "ok", window) ELSE Leave(a, "ERRNO")
      BY <2>2 DEF RouteRead
    <2>4. got = window
      BY <2>3 DEF Leave, LeaveWith, Succeeds, CallInv, Total
    <2> QED BY <2>1, <2>4 DEF WindowInv, WindowOf, ShownInv
  <1> HIDE DEF Answers
  <1>4. LibrarySpec => [][Answers]_<<callVars, dynamicVars>>
    BY <1>1, <1>2, <1>3, PTL DEF LibrarySpec
  <1> QED BY <1>4 DEF RouteAnswersTheQuestion, Answers

(***************************************************************************)
(* A commit that no other application disturbs and that returns 0 has left *)
(* the shaper with the slopes and the queue asked for, whatever the words  *)
(* that were sent too many have done to any shaper before.                 *)
(***************************************************************************)
THEOREM ShapersAreAsAsked == LibrarySpec => ShaperIsAsAsked
  <1> DEFINE AsAsked ==
        \A a \in App : Succeeds(a, "shaper") /\ alone[a] =>
          LET c == call[a]
          IN  shaper'[c.index] = [data |-> c.slopes, bound |-> c.bound]
  <1>1. LibraryInit => CallInv /\ ModeInv /\ WindowInv
    BY CallInvInit, ModeInvInit, WindowInvInit
  <1>2. CallInv /\ ModeInv /\ WindowInv /\ [LibraryNext]_libraryVars
          => CallInv' /\ ModeInv' /\ WindowInv'
    BY CallInvStep, ModeInvStep, WindowInvStep
  <1>3. CallInv /\ WindowInv /\ [LibraryNext]_libraryVars => [AsAsked]_<<callVars, dynamicVars>>
    <2> SUFFICES ASSUME CallInv, WindowInv, [LibraryNext]_libraryVars,
                        ~UNCHANGED <<callVars, dynamicVars>>,
                        NEW a \in App, Succeeds(a, "shaper"), alone[a]
                 PROVE  shaper'[call[a].index] = [data |-> call[a].slopes, bound |-> call[a].bound]
      OBVIOUS
    <2>1. LibraryNext /\ pc[a] = "shaper"
      BY DEF libraryVars, Succeeds
    <2>2. CbsCommand(a)
      BY <2>1, OnlyDynamic DEF DynamicCall, DynamicEnter, Enter, RouteCommit, RouteRead, CbsData
    <2>3. PICK o \in Outcomes :
            /\ shaper' = IF Transferred(o)
                         THEN [shaper EXCEPT ![call[a].index] =
                                 [data |-> slopes, bound |-> call[a].bound]]
                         ELSE shaper
            /\ LeaveAfter(a, o)
      BY <2>2 DEF CbsCommand
    <2>4. o = "ok"
      BY <2>3 DEF LeaveAfter, Leave, LeaveWith, Succeeds, CallInv, Total
    <2>5. call[a].index \in Shapers
      <3>1. call[a] \in work[a] /\ call[a].op = "cbs_commit" /\ work \in Workloads
        BY <2>1 DEF CallInv, Placed, Suits
      <3> QED BY <3>1, IndicesAssumption
    <2>6. slopes = call[a].slopes /\ DOMAIN shaper = Shapers
      BY <2>1 DEF WindowInv, SlopesOf
    <2> QED BY <2>3, <2>4, <2>5, <2>6 DEF Transferred
  <1> HIDE DEF AsAsked
  <1>4. LibrarySpec => [][AsAsked]_<<callVars, dynamicVars>>
    BY <1>1, <1>2, <1>3, PTL DEF LibrarySpec
  <1> QED BY <1>4 DEF ShaperIsAsAsked, AsAsked
-----------------------------------------------------------------------------
(***************************************************************************)
(* What the registers hold.                                                *)
(***************************************************************************)
LEMMA SmallMod ==
  ASSUME NEW m \in Nat \ {0}, NEW n \in 0..m - 1 PROVE n % m = n
  <1>1. m * 0 + n = n
    BY SMT
  <1> QED BY <1>1, ModUnique

LEMMA DivUnique ==
  ASSUME NEW m \in Nat \ {0}, NEW q \in Int, NEW r \in 0..m - 1, NEW x \in Int, x = m * q + r
  PROVE  x \div m = q
  <1>1. PICK d : d = x \div m
    OBVIOUS
  <1>2. x % m = r
    BY ModUnique
  <1>3. d \in Int /\ x = m * d + r
    BY <1>1, <1>2, DivMod
  <1>4. m * (q - d) = 0
    BY <1>3, SMT
  <1>5. q - d = 0
    <2>1. ASSUME q - d >= 1 PROVE m * (q - d) >= m
      BY <1>3, <2>1, SMT
    <2>2. ASSUME q - d <= -1 PROVE m * (q - d) <= -m
      BY <1>3, <2>2, SMT
    <2> QED BY <1>3, <1>4, <2>1, <2>2, SMT
  <1> QED BY <1>1, <1>3, <1>5, SMT

\* A product with a positive number keeps the order.
LEMMA Cancels ==
  ASSUME NEW m \in Nat \ {0}, NEW a \in Int, NEW b \in Int
  PROVE  /\ m * a < m * b => a < b
         /\ m * a <= m * b => a <= b
  <1>1. ASSUME a - b >= 0 PROVE m * (a - b) >= 0
    BY <1>1, SMT
  <1>2. ASSUME a - b >= 1 PROVE m * (a - b) >= m
    BY <1>2, SMT
  <1>3. m * (a - b) = m * a - m * b /\ m * (a - b) \in Int
    BY SMT
  <1>4. m * a \in Int /\ m * b \in Int
    BY SMT
  <1> QED BY <1>1, <1>2, <1>3, <1>4, SMT

\* Rounding a ratio below one.
LEMMA RoundedIsNear ==
  ASSUME NEW r \in Nat, r > 0
  PROVE  /\ RoundToEven(r) \in {r - 1, r, r + 1} /\ RoundToEven(r) \in Nat
         /\ RoundToEven(r) % 2 = 0
         /\ r % 2 = 0 => RoundToEven(r) = r
  BY SMT DEF RoundToEven

\* An even number leaves an even remainder by an even divisor.
LEMMA EvenRemainder ==
  ASSUME NEW u \in Nat \ {0}, u % 2 = 0, NEW x \in Nat, x % 2 = 0
  PROVE  x % u <= u - 2
  <1>1. PICK h \in Int : u = 2 * h
    BY SMT
  <1>2. PICK y \in Int : x = 2 * y
    BY SMT
  <1>0. x \in Int
    OBVIOUS
  <1>3. PICK q \in Int : x = u * q + (x % u)
    BY <1>0, DivMod
  <1>4. PICK r \in 0..u - 1 : r = x % u
    BY <1>0, DivMod
  <1>5. PICK z \in Int : z = h * q
    BY <1>1, <1>3
  <1>6. u * q = 2 * z
    BY <1>1, <1>5, SMT
  <1>7. r = 2 * (y - z)
    BY <1>2, <1>3, <1>4, <1>6, SMT
  <1> QED BY <1>1, <1>4, <1>7, SMT

(***************************************************************************)
(* PTPCLKRATE has 31 fraction bits, of which a unit is RateUnit.           *)
(***************************************************************************)
LEMMA RateIsHeld ==
  ASSUME NEW r \in Int, RateFromRatio(r) # None, r # One - 1
  PROVE  /\ RateFromRatio(r) \in 0..WordMod - 1
         /\ r - RateFromRatio(r) * RateUnit \in -1..RateUnit - 1
  <1>1. /\ One \in Nat \ {0} /\ RateUnit \in Nat \ {0} /\ WordMod \in Nat \ {0}
        /\ WordMod * RateUnit = 2 * One /\ RateUnit % 2 = 0 /\ WordMod % 2 = 0
    BY PtpAssumption
  <1>2. PICK u \in Nat \ {0} : u = RateUnit /\ u % 2 = 0
    BY <1>1
  <1>3. PICK h \in Nat \ {0} : WordMod = 2 * h
    BY <1>1, SMT
  <1>4. One = u * h
    <2>1. PICK z \in Int : z = u * h
      BY <1>2, <1>3
    <2>2. (2 * h) * u = 2 * z
      BY <1>2, <1>3, <2>1, SMT
    <2> QED BY <1>1, <1>2, <1>3, <2>1, <2>2, SMT
  <1>5. 0 < r /\ r < 2 * One
    BY <1>1, SMT DEF RateFromRatio
  <1>6. One \div RateUnit = h
    <2>1. One = u * h + 0 /\ 0 \in 0..u - 1
      BY <1>1, <1>2, <1>4, SMT
    <2> QED BY <1>1, <1>2, <2>1, DivUnique
  \* A whole number of units below One.
  <1>7. ASSUME NEW x \in 0..One - 1
        PROVE  /\ x \div u \in 0..h - 1
               /\ x = u * (x \div u) + (x % u) /\ x % u \in 0..u - 1
    <2>0. x \in Int
      BY <1>1
    <2>1. PICK q \in Int : q = x \div u /\ x = u * q + (x % u) /\ x % u \in 0..u - 1
      BY <1>2, <2>0, DivMod
    <2>2. u * q < u * h
      BY <1>1, <1>2, <1>4, <2>1, SMT
    <2>3. q < h
      BY <1>2, <1>3, <2>1, <2>2, Cancels
    <2>4. u * (-1) < u * q
      BY <1>2, <2>1, SMT
    <2>5. -1 < q
      BY <1>2, <2>1, <2>4, Cancels
    <2> QED BY <1>3, <2>1, <2>3, <2>5, SMT
  <1>8. CASE r < One
    <2>1. PICK x \in Nat : x = RoundToEven(r) /\ x \in {r - 1, r, r + 1} /\ x % 2 = 0
      BY <1>5, RoundedIsNear, SMT
    <2>2. x \in 0..One - 1
      BY <1>1, <1>8, <2>1, SMT
    <2>3. x % One = x
      BY <1>1, <2>2, SmallMod
    <2>4. RateFromRatio(r) = x \div u
      BY <1>2, <1>5, <1>8, <2>1, <2>3 DEF RateFromRatio, FractionBits
    <2>5. PICK q \in 0..h - 1 : q = x \div u /\ x = u * q + (x % u) /\ x % u \in 0..u - 1
      BY <1>7, <2>2
    <2>6. x % u <= u - 2
      BY <1>2, <2>1, EvenRemainder
    <2>7. PICK p \in Int : p = u * q /\ q * u = p
      BY <1>2, <2>5, SMT
    <2>10. PICK z \in Int : z = x % u /\ 0 <= z /\ z <= u - 2 /\ x = p + z
      BY <1>2, <2>5, <2>6, <2>7
    <2>8. r - q * u \in -1..u - 1
      BY <1>2, <2>1, <2>7, <2>10, SMT
    <2>9. q \in 0..WordMod - 1
      BY <1>3, <2>5, SMT
    <2> QED BY <1>2, <2>4, <2>5, <2>8, <2>9
  <1>9. CASE r >= One
    <2>1. PICK x \in 0..One - 1 : x = r - One
      BY <1>1, <1>5, <1>9, SMT
    <2>2. r % One = x
      <3>1. r = One * 1 + x
        BY <1>1, <2>1, SMT
      <3> QED BY <1>1, <2>1, <3>1, ModUnique
    <2>3. RateFromRatio(r) = (x \div u) + h
      BY <1>1, <1>2, <1>5, <1>6, <1>9, <2>2, SMT DEF RateFromRatio, FractionBits
    <2>4. PICK q \in 0..h - 1 : q = x \div u /\ x = u * q + (x % u) /\ x % u \in 0..u - 1
      BY <1>7
    <2>5. (q + h) * u = u * q + u * h
      BY <1>2, <1>3, <2>4, SMT
    <2>6. r - (q + h) * u = x % u
      BY <1>1, <1>4, <2>1, <2>4, <2>5, SMT
    <2>7. q + h \in 0..WordMod - 1
      BY <1>3, <2>4, SMT
    <2>8. x % u \in -1..u - 1
      BY <1>2, <2>4, SMT
    <2> QED BY <1>2, <2>3, <2>4, <2>6, <2>7, <2>8
  <1> QED BY <1>1, <1>8, <1>9, SMT

\* A time that a 64-bit register holds without its top byte is held to the tick.
LEMMA TimeIsHeld ==
  ASSUME NEW ns, IsTime(ns), Ticks(ns) < LowBytesMod
  PROVE  Ticks(ns) \in 0..LowBytesMod - 1 /\ Holds(Ticks(ns), ns)
  <1>1. /\ TickNs \in Nat \ {0} /\ ClockMod \in Nat \ {0} /\ LowBytesMod \in Nat \ {0}
        /\ ns \in Int
    BY PtpAssumption DEF IsTime
  <1>2. PICK t \in Nat \ {0} : t = TickNs
    BY <1>1
  <1>3. CASE ns >= 0
    <2>1. PICK q \in Int : q = ns \div t /\ ns = t * q + (ns % t) /\ ns % t \in 0..t - 1
      BY <1>1, DivMod
    <2>2. t * q < t * ClockMod /\ t * (-1) < t * q
      <3>1. ClockMod * TickNs = t * ClockMod
        BY <1>1, <1>2, SMT
      <3> QED BY <1>1, <1>2, <1>3, <2>1, <3>1, SMT DEF IsTime
    <2>3. q < ClockMod /\ -1 < q
      BY <1>1, <2>1, <2>2, Cancels
    <2>4. Ticks(ns) = q
      <3>1. q % ClockMod = q
        BY <1>1, <2>1, <2>3, SmallMod
      <3> QED BY <1>2, <1>3, <2>1, <3>1 DEF Ticks
    <2>5. q * t = t * q
      BY <2>1, SMT
    <2>6. ns - q * t \in 1 - t..t - 1
      BY <1>1, <2>1, <2>5, SMT
    <2> QED BY <1>1, <1>2, <2>1, <2>3, <2>4, <2>6, SMT DEF Holds
  <1>4. CASE ns < 0
    <2>0. PICK n \in Int : n = -ns /\ n >= 0
      BY <1>1, <1>4
    <2>1. PICK k \in Int : k = n \div t /\ n = t * k + (n % t) /\ n % t \in 0..t - 1
      BY DivMod
    <2>2. t * k <= t * (ClockMod - LowBytesMod) /\ t * (-1) < t * k
      <3>1. -(ClockMod - LowBytesMod) * TickNs = -(t * (ClockMod - LowBytesMod))
        BY <1>1, <1>2, SMT
      <3>2. t * k \in Int /\ t * (ClockMod - LowBytesMod) \in Int
        BY <1>1, <2>1, SMT
      <3> QED BY <1>1, <1>2, <2>0, <2>1, <3>1, <3>2, SMT DEF IsTime
    <2>3. k <= ClockMod - LowBytesMod /\ -1 < k
      BY <1>1, <2>1, <2>2, Cancels
    <2>4. Ticks(ns) = (-k) % ClockMod
      BY <1>1, <1>2, <1>4, <2>0, <2>1 DEF Ticks
    <2>5. CASE k > 0
      <3>1. -k = ClockMod * (-1) + (ClockMod - k) /\ ClockMod - k \in 0..ClockMod - 1
        BY <1>1, <2>1, <2>3, <2>5, SMT
      <3>2. (-k) % ClockMod = ClockMod - k
        BY <1>1, <3>1, ModUnique
      <3> QED BY <1>1, <2>1, <2>3, <2>4, <3>2, SMT
    <2>6. CASE k = 0
      <3>1. Ticks(ns) = 0
        BY <1>1, <2>4, <2>6, SmallMod, SMT
      <3>2. t * k = 0
        BY <2>6, SMT
      <3>3. 0 * t = 0
        BY <1>2, SMT
      <3>4. ns - 0 * t \in 1 - t..t - 1
        BY <1>1, <1>4, <2>0, <2>1, <3>2, <3>3, SMT
      <3> QED BY <1>1, <1>2, <3>1, <3>4, SMT DEF Holds
    <2> QED BY <2>1, <2>3, <2>5, <2>6, SMT
  <1> QED BY <1>1, <1>3, <1>4, SMT
-----------------------------------------------------------------------------
\* What is sent is what was asked for.
LEMMA RateIsSent ==
  ASSUME NEW r \in Int, RateFromRatio(r) # None, r # One - 1,
         NEW n \in Sent("rate", RateFromRatio(r))
  PROVE  r - n * RateUnit \in -1..RateUnit - 1
  <1>1. RateFromRatio(r) \in 0..WordMod - 1 /\ WordMod \in Nat \ {0}
    BY RateIsHeld, PtpAssumption
  <1>2. n = RateFromRatio(r)
    BY <1>1, SmallMod DEF Sent, LongRegisters
  <1> QED BY <1>2, RateIsHeld

LEMMA TimeIsSent ==
  ASSUME NEW ns, IsTime(ns), NEW reg0 \in Registers \ {"rate"}, NEW n \in Sent(reg0, Ticks(ns)),
         Ticks(ns) < IF reg0 \in LongRegisters THEN LowBytesMod ELSE WordMod
  PROVE  Holds(n, ns)
  <1>1. LowBytesMod \in Nat \ {0} /\ WordMod \in Nat \ {0} /\ WordMod <= LowBytesMod
    BY PtpAssumption
  <1>2. Ticks(ns) \in Int
    <2>1. ns \in Int
      BY DEF IsTime
    <2>2. Ticks(ns) \in Sent8(Ticks(ns))
      BY DEF Sent8
    <2> QED BY <2>1, <2>2, TicksInRange, SMT
  <1>3. Ticks(ns) \in 0..LowBytesMod - 1 /\ Holds(Ticks(ns), ns)
    BY <1>1, <1>2, TimeIsHeld, SMT
  <1>4. n = Ticks(ns)
    <2>1. CASE reg0 \in LongRegisters
      BY <1>1, <1>3, <2>1, SmallMod DEF Sent, Sent8
    <2>2. CASE reg0 \notin LongRegisters
      <3>1. Ticks(ns) \in 0..WordMod - 1
        BY <1>1, <1>3, <2>2, SMT
      <3> QED BY <1>1, <2>2, <3>1, SmallMod DEF Sent
    <2> QED BY <2>1, <2>2
  <1> QED BY <1>3, <1>4

Widths == [r \in Registers |-> IF r \in LongRegisters THEN ClockMod ELSE WordMod]

RegInv == DOMAIN reg = Registers /\ \A r \in Registers : reg[r] \in 0..Widths[r] - 1

LEMMA RegInvInit == LibraryInit => RegInv
  <1>1. ClockMod \in Nat \ {0} /\ WordMod \in Nat \ {0}
    BY PtpAssumption
  <1>2. \A r \in Registers : 0 \in 0..Widths[r] - 1
    BY <1>1, SMT DEF Widths
  <1> QED BY <1>2 DEF LibraryInit, PtpInit, RegInv

\* The write of a register, for the call that returns from it.
Write(c, n) ==
  /\ RegisterOf[c.op] \in Registers /\ c.op \in DOMAIN RegisterOf
  /\ ValueToWrite(c) # None /\ n \in Sent(RegisterOf[c.op], ValueToWrite(c))
  /\ c.op = "clk_rate_set" => c.ratio \in Int
  /\ c.op # "clk_rate_set" => IsTime(c.ns)

LEMMA RegistersOfOps ==
  /\ DOMAIN RegisterOf = {"clk_rate_set", "pin_start_time_set", "pin_duration_set",
                          "qbv_correction_period_set", "qbv_start_time_set"}
  /\ RegisterOf["clk_rate_set"] = "rate"
  /\ RegisterOf["pin_start_time_set"] = "pinst"
  /\ RegisterOf["pin_duration_set"] = "pindur"
  /\ RegisterOf["qbv_correction_period_set"] = "corp"
  /\ RegisterOf["qbv_start_time_set"] = "schtm"
  BY DEF RegisterOf

LEMMA WritesAre ==
  ASSUME CallInv, NEW a \in App, RegWrite(a)
  PROVE  \/ UNCHANGED ptpVars /\ ret'[a].rc # "ok"
         \/ \E n : /\ Write(call[a], n)
                   /\ reg' = [reg EXCEPT ![RegisterOf[call[a].op]] = n]
                   /\ UNCHANGED <<clk, add, source, doing, egr, taken>>
  <1>1. /\ call[a] \in work[a] /\ work \in Workloads
        /\ call[a].op \in DOMAIN RegisterOf /\ pc[a] = "register"
    BY DEF RegWrite, CallInv, Placed, Suits
  <1>2. /\ call[a].op = "clk_rate_set" => call[a].ratio \in Int
        /\ call[a].op # "clk_rate_set" => IsTime(call[a].ns)
    BY <1>1, WorkloadsAssumption DEF TimedOps
  <1>3. RegisterOf[call[a].op] \in Registers
    BY <1>1, RegistersOfOps DEF Registers
  <1>4. CASE ValueToWrite(call[a]) = None
    BY <1>4 DEF RegWrite, Leave, LeaveWith, CallInv, Total
  <1>5. CASE ValueToWrite(call[a]) # None
    <2>1. PICK o \in Outcomes, n \in Sent(RegisterOf[call[a].op], ValueToWrite(call[a])) :
            /\ IF Transferred(o)
               THEN /\ reg' = [reg EXCEPT ![RegisterOf[call[a].op]] = n]
                    /\ UNCHANGED <<clk, add, source, doing, egr, taken>>
               ELSE UNCHANGED ptpVars
            /\ LeaveAfter(a, o)
      BY <1>5 DEF RegWrite
    <2>2. CASE Transferred(o)
      BY <1>1, <1>2, <1>3, <1>5, <2>1, <2>2 DEF Write
    <2>3. CASE ~Transferred(o)
      <3>1. o # "ok"
        BY <2>3 DEF Transferred
      <3>2. ret'[a].rc # "ok"
        BY <2>1, <3>1 DEF LeaveAfter, Leave, LeaveWith, CallInv, Total
      <3> QED BY <2>1, <2>3, <3>2
    <2> QED BY <2>2, <2>3
  <1> QED BY <1>4, <1>5

LEMMA WriteFits ==
  ASSUME NEW c, NEW n, Write(c, n)
  PROVE  n \in 0..Widths[RegisterOf[c.op]] - 1
  <1>1. ClockMod \in Nat \ {0} /\ WordMod \in Nat \ {0}
    BY PtpAssumption
  <1>2. CASE RegisterOf[c.op] \in LongRegisters
    <2>1. c.op \in {"pin_start_time_set", "qbv_start_time_set"}
      BY <1>2, RegistersOfOps DEF Write, LongRegisters
    <2>2. ValueToWrite(c) = Ticks(c.ns) /\ c.ns \in Int
      BY <2>1 DEF ValueToWrite, Write, IsTime
    <2>3. n \in Sent8(Ticks(c.ns))
      BY <1>2, <2>2 DEF Write, Sent
    <2>4. n \in 0..ClockMod - 1
      BY <2>2, <2>3, TicksInRange
    <2> QED BY <1>2, <2>4 DEF Widths, Write
  <1>3. CASE RegisterOf[c.op] \notin LongRegisters
    <2>1. PICK v : v = ValueToWrite(c)
      OBVIOUS
    <2>2. v \in Int
      <3>1. CASE c.op = "clk_rate_set"
        <4>1. v = RateFromRatio(c.ratio) /\ c.ratio \in Int /\ v # None
          BY <2>1, <3>1 DEF ValueToWrite, Write
        <4>2. PICK r \in Int : r = c.ratio
          BY <4>1
        <4>3. /\ One \in Nat \ {0} /\ RateUnit \in Nat \ {0}
          BY PtpAssumption
        <4>4. \A x \in Int : FractionBits(x) \in Int
          BY <4>3, SMT DEF FractionBits
        <4>5. RoundToEven(r) \in Int /\ One \div RateUnit \in Int
          BY <4>3, SMT DEF RoundToEven
        <4> QED BY <4>1, <4>2, <4>4, <4>5, SMT DEF RateFromRatio
      <3>2. CASE c.op # "clk_rate_set"
        <4>1. v = Ticks(c.ns) /\ c.ns \in Int
          BY <2>1, <3>2 DEF ValueToWrite, Write, IsTime
        <4>2. Ticks(c.ns) \in Sent8(Ticks(c.ns))
          BY DEF Sent8
        <4> QED BY <4>1, <4>2, TicksInRange, SMT
      <3> QED BY <3>1, <3>2
    <2>3. n = v % WordMod
      BY <1>3, <2>1 DEF Write, Sent
    <2>4. n \in 0..WordMod - 1
      BY <1>1, <2>2, <2>3, DivMod
    <2> QED BY <1>3, <2>4 DEF Widths, Write
  <1> QED BY <1>2, <1>3

LEMMA RegInvStep == CallInv /\ RegInv /\ [LibraryNext]_libraryVars => RegInv'
  <1> SUFFICES ASSUME CallInv, RegInv, [LibraryNext]_libraryVars PROVE RegInv'
    OBVIOUS
  <1>1. CASE reg' = reg
    BY <1>1 DEF RegInv
  <1>2. ASSUME NEW x \in App, RegWrite(x) PROVE RegInv'
    <2>1. CASE UNCHANGED ptpVars
      BY <1>1, <2>1 DEF ptpVars, chipVars
    <2>2. ASSUME NEW n, Write(call[x], n), reg' = [reg EXCEPT ![RegisterOf[call[x].op]] = n]
          PROVE  RegInv'
      BY <2>2, WriteFits DEF RegInv, Write
    <2> QED BY <1>2, <2>1, <2>2, WritesAre
  <1>3. ASSUME NEW x \in App, PtpCall(x), ~RegWrite(x) PROVE reg' = reg
    BY <1>3 DEF PtpCall, PtpEnter, Command, AddModeSet, Commit, TakeCommand, ClkWrite, TakeClock,
           ClkGet, QbvRunning, PollStamp, PollClock, ptpVars, chipVars
  <1>4. CASE PtpChip
    BY <1>1, <1>4 DEF PtpChip, Tick, StampFrame
  <1>5. CASE UNCHANGED ptpVars
    BY <1>1, <1>5 DEF ptpVars, chipVars
  <1> QED BY <1>1, <1>2, <1>3, <1>4, <1>5 DEF LibraryNext, libraryVars
-----------------------------------------------------------------------------
(***************************************************************************)
(* A register write that returns 0 has left in the register the time or    *)
(* the rate asked for, for registers, clocks and doubles of any width.     *)
(***************************************************************************)
THEOREM RegistersHoldTheirValue == LibrarySpec => RegistersHoldWhatWasAsked
  <1> DEFINE Held ==
        \A a \in App : Succeeds(a, "register") =>
         LET c == call[a]
             n == reg'[RegisterOf[c.op]]
         IN  IF c.op = "clk_rate_set"
             THEN c.ratio # One - 1 => c.ratio - n * RateUnit \in -1..RateUnit - 1
             ELSE (RegisterOf[c.op] \in LongRegisters => Ticks(c.ns) < LowBytesMod) => Holds(n, c.ns)
  <1>1. LibraryInit => CallInv /\ RegInv
    BY CallInvInit, RegInvInit
  <1>2. CallInv /\ RegInv /\ [LibraryNext]_libraryVars => [Held]_<<callVars, ptpVars>>
    <2> SUFFICES ASSUME CallInv, RegInv, [LibraryNext]_libraryVars,
                        ~UNCHANGED <<callVars, ptpVars>>,
                        NEW a \in App, Succeeds(a, "register"),
                        NEW c, c = call[a], NEW r, r = RegisterOf[c.op]
                 PROVE  IF c.op = "clk_rate_set"
                        THEN c.ratio # One - 1 => c.ratio - reg'[r] * RateUnit \in -1..RateUnit - 1
                        ELSE (r \in LongRegisters => Ticks(c.ns) < LowBytesMod) => Holds(reg'[r], c.ns)
      OBVIOUS
    <2>1. RegWrite(a)
      <3>1. LibraryNext /\ pc[a] = "register"
        BY DEF libraryVars, Succeeds
      <3>2. PtpCall(a) \/ DynamicCall(a)
        BY <3>1, WhoReturns
      <3> QED BY <3>1, <3>2 DEF PtpCall, DynamicCall, PtpEnter, Enter, Refused, Command, AddModeSet,
                ClkWrite, ClkGet, QbvRunning, PollStamp, PollClock, DynamicEnter, RouteCommit,
                RouteRead, CbsData, CbsCommand
    <2>2. PICK n : Write(c, n) /\ reg' = [reg EXCEPT ![r] = n]
      BY <2>1, WritesAre DEF Succeeds
    <2>3. r \in Registers /\ reg'[r] = n /\ n \in Sent(r, ValueToWrite(c)) /\ c.op \in DOMAIN RegisterOf
      BY <2>2 DEF RegInv, Write
    <2>4. CASE c.op = "clk_rate_set"
      <3>1. /\ r = "rate" /\ c.ratio \in Int
            /\ ValueToWrite(c) = RateFromRatio(c.ratio) /\ ValueToWrite(c) # None
        BY <2>2, <2>4, RegistersOfOps DEF Write, ValueToWrite
      <3> QED BY <2>3, <2>4, <3>1, RateIsSent
    <2>5. CASE c.op # "clk_rate_set"
      <3>1. IsTime(c.ns) /\ ValueToWrite(c) = Ticks(c.ns) /\ r \in Registers \ {"rate"}
        BY <2>2, <2>3, <2>5, RegistersOfOps DEF Write, ValueToWrite, Registers
      <3>2. r \notin LongRegisters => Ticks(c.ns) < WordMod
        <4>1. r \notin LongRegisters => c.op \in {"pin_duration_set", "qbv_correction_period_set"}
          BY <2>3, <2>5, RegistersOfOps DEF LongRegisters
        <4>2. ~(Ticks(c.ns) >= WordMod - 1) \/ r \in LongRegisters
          BY <2>2, <4>1 DEF Write, ValueToWrite
        <4>3. Ticks(c.ns) \in Int /\ WordMod \in Int
          <5>1. Ticks(c.ns) \in Sent8(Ticks(c.ns)) /\ c.ns \in Int
            BY <3>1 DEF Sent8, IsTime
          <5> QED BY <5>1, TicksInRange, PtpAssumption, SMT
        <4> QED BY <4>2, <4>3, SMT
      <3>3. ASSUME r \in LongRegisters => Ticks(c.ns) < LowBytesMod PROVE Holds(reg'[r], c.ns)
        BY <2>3, <3>1, <3>2, <3>3, TimeIsSent
      <3> QED BY <2>5, <3>3
    <2> QED BY <2>4, <2>5
  <1> HIDE DEF Held
  <1>3. CallInv /\ RegInv /\ [LibraryNext]_libraryVars => CallInv' /\ RegInv'
    BY CallInvStep, RegInvStep
  <1>4. LibrarySpec => [][Held]_<<callVars, ptpVars>>
    BY <1>1, <1>2, <1>3, PTL DEF LibrarySpec
  <1> QED BY <1>4 DEF RegistersHoldWhatWasAsked, Held
-----------------------------------------------------------------------------
(***************************************************************************)
(* Types.                                                                  *)
(***************************************************************************)
StampTypes ==
  /\ add \in BOOLEAN
  /\ egr.part \in 0..StampMod - 1
  /\ \A a \in App : pc[a] = "clock" => taken[a].update

LEMMA StampTypesInit == LibraryInit => StampTypes
  <1>1. 0 \in 0..StampMod - 1
    BY Moduli, SMT
  <1> SUFFICES ASSUME LibraryInit PROVE StampTypes
    OBVIOUS
  <1>2. add \in BOOLEAN
    BY DEF LibraryInit, PtpInit
  <1>3. egr.part = 0
    BY DEF LibraryInit, PtpInit, NoStamp
  <1>4. \A a \in App : pc[a] = "idle"
    BY DEF LibraryInit, CallInit
  <1> QED BY <1>1, <1>2, <1>3, <1>4 DEF StampTypes

LEMMA OlderKeeps ==
  ASSUME NEW s \in Stamps, NEW c, NEW C
  PROVE  /\ Older(s, c).part = s.part /\ Older(s, c).update = s.update
         /\ Stepped(s, C).part = s.part /\ Stepped(s, C).update = s.update
  BY DEF Older, Stepped, Stamps

\* The chip's side of a call leaves the stamps what they are.
LEMMA StepKeepsTypes ==
  ASSUME StampInv, StampTypes, NEW C, Step(C)
  PROVE  /\ egr'.part \in 0..StampMod - 1
         /\ \A a \in App : taken'[a].update = taken[a].update
  <1>1. egr \in Stamps /\ \A a \in App : taken[a] \in Stamps
    BY DEF StampInv
  <1>2. egr'.part = egr.part
    BY <1>1, OlderKeeps DEF Step
  <1>3. \A a \in App : taken'[a].update = taken[a].update
    BY <1>1, OlderKeeps DEF Step
  <1> QED BY <1>2, <1>3 DEF StampTypes

LEMMA TakesKeepTypes ==
  ASSUME StampInv, StampTypes,
         (\E fields : TakeCommand(fields)) \/ (\E n : TakeClock(n)) \/ UNCHANGED ptpVars
  PROVE  /\ add' \in BOOLEAN
         /\ egr'.part \in 0..StampMod - 1
         /\ \A a \in App : taken'[a].update = taken[a].update
  <1>1. CASE UNCHANGED ptpVars
    BY <1>1 DEF ptpVars, chipVars, StampTypes
  <1>2. ASSUME NEW n, TakeClock(n)
        PROVE  add' \in BOOLEAN /\ Step({"ptpclk"})
    BY <1>2 DEF TakeClock, StampTypes
  <1>3. ASSUME NEW fields, TakeCommand(fields)
        PROVE  add' \in BOOLEAN /\ (Step(Clocks) \/ UNCHANGED <<egr, taken>>)
    BY <1>3 DEF TakeCommand
  <1>4. ASSUME UNCHANGED <<egr, taken>>
        PROVE  /\ egr'.part \in 0..StampMod - 1
               /\ \A a \in App : taken'[a].update = taken[a].update
    BY <1>4 DEF StampTypes
  <1>5. \A C : Step(C) => /\ egr'.part \in 0..StampMod - 1
                          /\ \A a \in App : taken'[a].update = taken[a].update
    BY StepKeepsTypes
  <1>6. CASE \E n : TakeClock(n)
    BY <1>2, <1>5, <1>6
  <1>7. CASE \E fields : TakeCommand(fields)
    <2>1. add' \in BOOLEAN /\ (Step(Clocks) \/ UNCHANGED <<egr, taken>>)
      BY <1>3, <1>7
    <2> QED BY <1>4, <1>5, <2>1
  <1> QED BY <1>1, <1>6, <1>7

LEMMA MovedStays ==
  ASSUME CallInv, NEW x \in App, Moved(x), pc'[x] # "clock", StampTypes,
         \A a \in App : taken'[a].update = taken[a].update
  PROVE  \A a \in App : pc'[a] = "clock" => taken'[a].update
  BY DEF Moved, CallInv, Total, StampTypes

LEMMA PtpKeepsStampTypes ==
  ASSUME CallInv, StampInv, StampTypes, NEW x \in App, PtpCall(x)
  PROVE  StampTypes'
  <1> USE DEF Continue, LeaveAfter, Leave, LeaveWith
  <1>0. Moved(x)
    BY CallMovesOne
  <1>1. ASSUME pc'[x] # "clock",
               (\E fields : TakeCommand(fields)) \/ (\E n : TakeClock(n)) \/ UNCHANGED ptpVars
        PROVE  StampTypes'
    BY <1>0, <1>1, TakesKeepTypes, MovedStays DEF StampTypes
  <1>2. CASE PtpEnter(x)
    <2>1. pc'[x] # "clock"
      BY <1>2 DEF PtpEnter, Enter, Refused, FirstTransfer, CallInv, Total
    <2> QED BY <1>1, <1>2, <2>1 DEF PtpEnter
  <1>3. CASE Command(x) \/ AddModeSet(x)
    <2>1. pc'[x] # "clock"
      BY <1>3 DEF Command, AddModeSet, CallInv, Total
    <2>2. (\E fields : TakeCommand(fields)) \/ UNCHANGED ptpVars
      BY <1>3 DEF Command, AddModeSet, Commit
    <2> QED BY <1>1, <2>1, <2>2
  <1>4. CASE ClkWrite(x)
    <2>1. pc'[x] # "clock"
      BY <1>4 DEF ClkWrite, CallInv, Total
    <2>2. (\E n : TakeClock(n)) \/ UNCHANGED ptpVars
      BY <1>4 DEF ClkWrite
    <2> QED BY <1>1, <2>1, <2>2
  <1>5. CASE RegWrite(x)
    <2>1. pc'[x] # "clock"
      BY <1>5 DEF RegWrite, CallInv, Total
    <2>2. UNCHANGED <<add, egr, taken>>
      BY <1>5 DEF RegWrite, ptpVars, chipVars
    <2> QED BY <1>0, <2>1, <2>2, MovedStays DEF StampTypes
  <1>6. CASE ClkGet(x) \/ QbvRunning(x)
    <2>1. pc'[x] # "clock"
      BY <1>6 DEF ClkGet, QbvRunning, CallInv, Total
    <2> QED BY <1>1, <1>6, <2>1 DEF ClkGet, QbvRunning
  <1>7. CASE PollStamp(x)
    <2>1. egr \in Stamps /\ taken \in [App -> Stamps]
      BY DEF StampInv
    <2>2. add' = add /\ egr'.part = egr.part
      BY <1>7, <2>1 DEF PollStamp, Stamps
    <2>3. \/ egr.update /\ taken' = [taken EXCEPT ![x] = egr]
          \/ pc'[x] # "clock" /\ taken' = taken
      BY <1>7 DEF PollStamp, CallInv, Total
    <2>4. \A a \in App : pc'[a] = "clock" => taken'[a].update
      <3>1. CASE pc'[x] # "clock" /\ taken' = taken
        BY <1>0, <3>1, MovedStays
      <3>2. CASE egr.update /\ taken' = [taken EXCEPT ![x] = egr]
        BY <1>0, <2>1, <3>2 DEF Moved, CallInv, Total, StampTypes
      <3> QED BY <2>3, <3>1, <3>2
    <2> QED BY <2>2, <2>4 DEF StampTypes
  <1>8. CASE PollClock(x)
    <2>1. pc'[x] = "idle" /\ taken' = [taken EXCEPT ![x] = NoStamp] /\ UNCHANGED <<add, egr>>
      BY <1>8 DEF PollClock, CallInv, Total, chipVars
    <2>2. \A a \in App : pc'[a] = "clock" => taken'[a].update
      BY <1>0, <2>1 DEF Moved, CallInv, Total, StampTypes, StampInv
    <2> QED BY <2>1, <2>2 DEF StampTypes
  <1> QED BY <1>2, <1>3, <1>4, <1>5, <1>6, <1>7, <1>8 DEF PtpCall

LEMMA StampTypesStep ==
  CallInv /\ StampInv /\ StampTypes /\ [LibraryNext]_libraryVars => StampTypes'
  <1> SUFFICES ASSUME CallInv, StampInv, StampTypes, [LibraryNext]_libraryVars PROVE StampTypes'
    OBVIOUS
  <1>1. ASSUME NEW x \in App, DynamicCall(x) \/ Killed(x), UNCHANGED ptpVars PROVE StampTypes'
    <2>1. pc'[x] # "clock"
      BY <1>1 DEF DynamicCall, DynamicEnter, Enter, RouteCommit, RouteRead, CbsData, CbsCommand,
             Killed, Continue, LeaveAfter, Leave, LeaveWith, CallInv, Total
    <2>2. UNCHANGED <<add, egr, taken>> /\ Moved(x)
      BY <1>1, CallMovesOne DEF ptpVars, chipVars
    <2> QED BY <2>1, <2>2, MovedStays DEF StampTypes
  <1>2. ASSUME NEW c \in Clocks, Tick(c) PROVE StampTypes'
    <2>1. /\ add' = add /\ pc' = pc /\ egr' = Older(egr, c)
          /\ taken' = [a \in App |-> Older(taken[a], c)]
      BY <1>2 DEF Tick, callVars
    <2>2. egr \in Stamps /\ \A a \in App : taken[a] \in Stamps
      BY DEF StampInv
    <2>3. egr'.part = egr.part /\ \A a \in App : taken'[a].update = taken[a].update
      BY <2>1, <2>2, OlderKeeps
    <2> QED BY <2>1, <2>3 DEF StampTypes
  <1>3. CASE StampFrame
    <2>1. egr'.part = clk[source] % StampMod /\ UNCHANGED <<add, taken, pc>>
      BY <1>3 DEF StampFrame, callVars
    <2>2. clk[source] \in Int
      BY Moduli DEF StampInv, ClockTimes
    <2>3. egr'.part \in 0..StampMod - 1
      BY <2>1, <2>2, Moduli, DivMod
    <2> QED BY <2>1, <2>3 DEF StampTypes
  <1>4. CASE UNCHANGED libraryVars
    BY <1>4 DEF libraryVars, callVars, ptpVars, chipVars, StampTypes
  <1> QED BY <1>1, <1>2, <1>3, <1>4, PtpKeepsStampTypes DEF LibraryNext, PtpChip

(***************************************************************************)
(* Every register, clock and timestamp stays within its width, and a poll  *)
(* goes on to read the clock only with a timestamp that was new.           *)
(***************************************************************************)
THEOREM LibraryTypeCorrect == LibrarySpec => []LibraryTypeOK
  <1> DEFINE Inv == CallInv /\ StampInv /\ RegInv /\ StampTypes
  <1>1. LibraryInit => Inv
    BY CallInvInit, StampInvInit, RegInvInit, StampTypesInit
  <1>2. Inv /\ [LibraryNext]_libraryVars => Inv'
    BY CallInvStep, StampInvStep, RegInvStep, StampTypesStep
  <1>3. Inv => LibraryTypeOK
    <2> SUFFICES ASSUME Inv PROVE LibraryTypeOK
      OBVIOUS
    <2>1. clk \in [Clocks -> 0..ClockMod - 1] /\ source \in Clocks
      BY DEF StampInv, ClockTimes
    <2>2. \A r \in Registers : reg[r] \in 0..(IF r \in LongRegisters THEN ClockMod ELSE WordMod) - 1
      BY DEF RegInv, Widths
    <2>3. \A a \in App : pc[a] \in Labels
      BY DEF CallInv, Placed
    <2> QED BY <2>1, <2>2, <2>3 DEF StampTypes, Labels, LibraryTypeOK
  <1> QED BY <1>1, <1>2, <1>3, PTL DEF LibrarySpec
=============================================================================
