---------------------------- MODULE ConfigProofs ----------------------------
(***************************************************************************)
(* The config commands of the tool: any number of processes that share the *)
(* staging area file and the switch, with failing system calls, crashes    *)
(* and unreliable transfers.                                               *)
(***************************************************************************)
EXTENDS ConfigTool, FormatProofs, FlushProofs

ConfigTypeInv ==
    /\ ConfigTypeOK
    /\ file \in [exists : BOOLEAN, data : Seq(Units)]
    /\ dry \in [Proc -> BOOLEAN]

Writing == [cfg : Config, whole : BOOLEAN]

LEMMA NeverWrittenType == NeverWritten \in Writing
  BY EmptyConfigType DEF NeverWritten, Writing

LEMMA NoCommandType == NoCommand \in Commands
  BY CommandsAssumption DEF NoCommand

LEMMA CommandType ==
  ASSUME NEW c \in Commands
  PROVE  /\ c \in Command
         /\ c.name \in CommandNames /\ c.flush \in BOOLEAN /\ c.cfg \in Config
         /\ c.edit \in Edit
  BY CommandsAssumption DEF Command

LEMMA EmptyIsSequence == \A X : << >> \in Seq(X)
  OBVIOUS

LEMMA ConfigTypeInit == ConfigInit => ConfigTypeInv
  <1> SUFFICES ASSUME ConfigInit PROVE ConfigTypeInv
    OBVIOUS
  <1>1. mem \in [Proc -> Config] /\ rc \in [Proc -> ErrorCodes] /\ dry \in [Proc -> BOOLEAN]
    BY EmptyConfigType DEF ConfigInit, Init, ErrorCodes
  <1>2. pc \in [Proc -> FlushLabels \cup StagingLabels \cup {"idle", "configure"}]
    BY DEF ConfigInit, Init
  <1>3. cmd \in [Proc -> Commands] /\ flush \in [Proc -> BOOLEAN]
    BY NoCommandType DEF ConfigInit
  <1>4. file = [exists |-> FALSE, data |-> << >>]
    BY DEF ConfigInit, StagingInit, Absent
  <1>5. file \in [exists : BOOLEAN, data : Seq(Units)] /\ file.data = << >>
    BY <1>4, EmptyIsSequence
  <1>6. size \in [Proc -> Nat] /\ written \in Writing /\ behind \in [Proc -> Writing]
    BY NeverWrittenType DEF ConfigInit, StagingInit
  <1>7. StagingTypeOK
    BY <1>5, <1>6 DEF StagingTypeOK, Writing
  <1> QED BY <1>1, <1>2, <1>3, <1>5, <1>7 DEF ConfigTypeInv, ConfigTypeOK

\* What an invocation may start with.
LEMMA MadeType ==
  ASSUME NEW c \in Commands, NEW made \in Made(c)
  PROVE  made.cfg \in Config
  <1>1. CASE c.name # "load"
    <2>1. made = [rc |-> "ok", cfg |-> c.cfg]
      BY <1>1 DEF Made
    <2> QED BY <2>1, CommandType
  <1>2. CASE c.name = "load" /\ c.xml \in DOMAIN XmlFiles
    <2>1. made = [rc |-> Parsed[c.xml].rc, cfg |-> Parsed[c.xml].cfg]
      BY <1>2 DEF Made, Imported
    <2>2. made.cfg = Parsed[c.xml].cfg
      BY <2>1
    <2> QED BY <1>2, <2>2, ParsedType
  <1>3. CASE c.name = "load" /\ c.xml \notin DOMAIN XmlFiles
    <2>1. made \in [rc : {"ok"}, cfg : Leftovers]
      BY <1>3 DEF Made, Imported
    <2> QED BY <2>1, LeftoversAssumption
  <1> QED BY <1>1, <1>2, <1>3

LEMMA ZeroEntryType == \A t : ZeroEntry(t) \in Entry
  <1>1. [i \in 1..2 * NumPorts |-> 0] \in Seq(Nat)
    <2>1. 2 * NumPorts \in Nat
      BY NumPortsAssumption
    <2> QED BY <2>1
  <1>2. << 0 >> \in Seq(Nat)
    OBVIOUS
  <1> QED BY <1>1, <1>2 DEF ZeroEntry, Entry

WithEntries(c, t, es) == [c EXCEPT !.tab[t] = es]

LEMMA WithEntriesType ==
  ASSUME NEW c \in Config, NEW t \in Tables, NEW es \in Seq(Entry)
  PROVE  /\ WithEntries(c, t, es) \in Config
         /\ WithEntries(c, t, es).dev = c.dev
         /\ WithEntries(c, t, es).tab[t] = es
         /\ \A u \in Tables \ {t} : WithEntries(c, t, es).tab[u] = c.tab[u]
  <1>1. c.tab \in [Tables -> Seq(Entry)] /\ c.dev \in DeviceIds \cup {NoDevice}
        /\ c = [dev |-> c.dev, tab |-> c.tab]
    BY DEF Config
  <1>2. PICK tab : tab = [c.tab EXCEPT ![t] = es]
    OBVIOUS
  <1>2a. \A d, old, new : [[dev |-> d, tab |-> old] EXCEPT !.tab = new] = [dev |-> d, tab |-> new]
    OBVIOUS
  <1>3. WithEntries(c, t, es) = [dev |-> c.dev, tab |-> tab]
    <2>1. WithEntries(c, t, es) = [c EXCEPT !.tab = tab]
      BY <1>2 DEF WithEntries
    <2> QED BY <1>1, <1>2a, <2>1, Zenon
  <1>5. tab \in [Tables -> Seq(Entry)] /\ tab[t] = es
        /\ \A u \in Tables \ {t} : tab[u] = c.tab[u]
    BY <1>1, <1>2
  <1>6. [dev |-> c.dev, tab |-> tab] \in Config
    BY <1>1, <1>5 DEF Config
  <1> QED BY <1>3, <1>5, <1>6

LEMMA ResizeType ==
  ASSUME NEW es \in Seq(Entry), NEW t, NEW n \in Nat
  PROVE  Resize(es, t, n) \in Seq(Entry) /\ Len(Resize(es, t, n)) = n
  <1>1. ASSUME NEW j \in 1..n PROVE (IF j <= Len(es) THEN es[j] ELSE ZeroEntry(t)) \in Entry
    BY ZeroEntryType
  <1> QED BY <1>1 DEF Resize

LEMMA ApplyType ==
  ASSUME NEW c \in Config, NEW ed \in Edit, Applicable(c, ed)
  PROVE  /\ Apply(c, ed) \in Config
         /\ Apply(c, ed).dev = c.dev
         /\ Count(Apply(c, ed), ed.t)
              = IF ed.what = "entry-count" THEN ed.n ELSE Count(c, ed.t)
         /\ \A u \in Tables \ {ed.t} : Count(Apply(c, ed), u) = Count(c, u)
  <1>1. PICK t \in Tables, n \in Nat, e \in Entry : t = ed.t /\ n = ed.n /\ e = ed.e
    BY DEF Edit
  <1>2. PICK es : es = c.tab[t]
    OBVIOUS
  <1>3. es \in Seq(Entry)
    BY <1>2 DEF Config
  <1>4. PICK fs : fs = IF ed.what = "entry-count" THEN Resize(es, t, n)
                       ELSE [es EXCEPT ![n + 1] = e]
    OBVIOUS
  <1>5. fs \in Seq(Entry) /\ Len(fs) = IF ed.what = "entry-count" THEN n ELSE Len(es)
    <2>1. CASE ed.what = "entry-count"
      BY <1>3, <1>4, <2>1, ResizeType
    <2>2. CASE ed.what # "entry-count"
      <3>1. fs = [es EXCEPT ![n + 1] = e]
        BY <1>4, <2>2
      <3>2. Len(es) \in Nat /\ DOMAIN es = 1..Len(es) /\ \A j \in 1..Len(es) : es[j] \in Entry
        BY <1>3
      <3>3. fs = [j \in 1..Len(es) |-> IF j = n + 1 THEN e ELSE es[j]]
        BY <1>3, <3>1, <3>2
      <3>4. \A j \in 1..Len(es) : (IF j = n + 1 THEN e ELSE es[j]) \in Entry
        BY <3>2
      <3> QED BY <2>2, <3>2, <3>3, <3>4
    <2> QED BY <2>1, <2>2
  <1>6. Apply(c, ed) = WithEntries(c, t, fs)
    BY <1>1, <1>2, <1>4 DEF Apply, WithEntries
  <1>7. /\ WithEntries(c, t, fs) \in Config
        /\ WithEntries(c, t, fs).dev = c.dev
        /\ WithEntries(c, t, fs).tab[t] = fs
        /\ \A u \in Tables \ {t} : WithEntries(c, t, fs).tab[u] = c.tab[u]
    BY <1>5, WithEntriesType
  <1> QED BY <1>1, <1>2, <1>5, <1>6, <1>7 DEF Count
-----------------------------------------------------------------------------
(***************************************************************************)
(* What the file system makes of a write.                                  *)
(***************************************************************************)
LEMMA PrefixOf ==
  ASSUME NEW X, NEW s \in Seq(X), NEW n \in Nat
  PROVE  /\ Prefix(s, n) \in Seq(X)
         /\ Len(Prefix(s, n)) = IF n < Len(s) THEN n ELSE Len(s)
         /\ \A i \in 1..Len(Prefix(s, n)) : Prefix(s, n)[i] = s[i]
         /\ n = Len(s) => Prefix(s, n) = s
  BY DEF Prefix

LEMMA OverwriteOf ==
  ASSUME NEW X, NEW old \in Seq(X), NEW s \in Seq(X)
  PROVE  /\ Overwrite(old, s) \in Seq(X)
         /\ Len(s) <= Len(Overwrite(old, s))
         /\ \A i \in 1..Len(s) : Overwrite(old, s)[i] = s[i]
         /\ old = << >> => Overwrite(old, s) = s
  <1>1. PICK tail : tail = SubSeq(old, Len(s) + 1, Len(old))
    OBVIOUS
  <1>2. Len(s) \in Nat /\ Len(old) \in Nat
    OBVIOUS
  <1>3. tail \in Seq(X)
    BY <1>1, <1>2
  <1>4. Overwrite(old, s) = s \o tail
    BY <1>1 DEF Overwrite
  <1>5. old = << >> => tail = << >>
    BY <1>1, <1>2
  <1> QED BY <1>3, <1>4, <1>5

FileType == [exists : BOOLEAN, data : Seq(Units)]

LEMMA HoldingType ==
  ASSUME NEW units \in Seq(Units)
  PROVE  Holding(units) \in FileType /\ Holding(units).data = units /\ Holding(units).exists
  BY DEF Holding, FileType

\* n units of what is held go to a file that holds old.
LEMMA WriteOf ==
  ASSUME NEW p, NEW n \in Nat, NEW c \in Config, c = mem[p],
         NEW old \in Seq(Units), old = file.data, WriteUnits(p, n)
  PROVE  /\ file' \in FileType /\ file'.exists
         /\ written' \in Writing
         /\ written'.cfg = c /\ (written'.whole <=> n = Len(Pack(c)))
         /\ n = Len(Pack(c)) \/ old = << >> => Begins(file'.data, c)
         /\ n = Len(Pack(c)) => Len(Pack(c)) <= Len(file'.data)
  <1>1. PICK units : units = Pack(c)
    OBVIOUS
  <1>2. units \in Seq(Units) /\ Len(units) \in Nat
    <2>1. Pack(c) \in Seq(Units)
      BY PackedPlaces
    <2> QED BY <1>1, <2>1
  <1>3. PICK part : part = Prefix(units, n)
    OBVIOUS
  <1>4. /\ part \in Seq(Units) /\ Len(part) \in Nat
        /\ \A i \in 1..Len(part) : part[i] = units[i]
        /\ n = Len(units) => part = units
    BY <1>2, <1>3, PrefixOf
  <1>5. PICK new : new = Overwrite(old, part)
    OBVIOUS
  <1>6. /\ new \in Seq(Units)
        /\ Len(part) <= Len(new)
        /\ \A i \in 1..Len(part) : new[i] = part[i]
        /\ old = << >> => new = part
    BY <1>4, <1>5, OverwriteOf
  <1>7. file' = Holding(new) /\ written' = [cfg |-> c, whole |-> n = Len(units)]
    BY <1>1, <1>3, <1>5 DEF WriteUnits
  <1>8. file' \in FileType /\ file'.data = new /\ file'.exists
    BY <1>6, <1>7, HoldingType
  <1>9. written' \in Writing /\ written'.cfg = c /\ (written'.whole <=> n = Len(units))
    BY <1>7 DEF Writing
  <1>10. n = Len(units) \/ old = << >> => Begins(new, c)
    <2>1. Len(new) \in Nat
      BY <1>6
    <2>2. n = Len(units) => \A i \in 1..Len(units) : new[i] = units[i]
      BY <1>4, <1>6
    <2>3. old = << >> => \A i \in 1..Len(new) : new[i] = units[i]
      BY <1>4, <1>6
    <2> QED BY <1>1, <1>2, <2>1, <2>2, <2>3 DEF Begins
  <1> QED BY <1>1, <1>4, <1>6, <1>8, <1>9, <1>10

LEMMA BufferOf ==
  ASSUME NEW p, file \in FileType, size[p] \in Nat
  PROVE  /\ Buffer(p) \in Seq(Units)
         /\ \A i \in 1..Len(Buffer(p)) : Buffer(p)[i] = file.data[i]
         /\ Len(Buffer(p)) <= Len(file.data)
  <1>1. file.data \in Seq(Units)
    BY DEF FileType
  <1>2. PICK buf : buf = Prefix(file.data, size[p])
    OBVIOUS
  <1>3. /\ buf \in Seq(Units)
        /\ Len(buf) = IF size[p] < Len(file.data) THEN size[p] ELSE Len(file.data)
        /\ \A i \in 1..Len(buf) : buf[i] = file.data[i]
    BY <1>1, <1>2, PrefixOf
  <1> QED BY <1>1, <1>2, <1>3 DEF Buffer
-----------------------------------------------------------------------------
(***************************************************************************)
(* Types.                                                                  *)
(***************************************************************************)
ConfigLabels == FlushLabels \cup StagingLabels \cup {"idle", "configure"}

LEMMA ConfigTypes ==
  ConfigTypeInv <=>
    /\ pc \in [Proc -> ConfigLabels] /\ cmd \in [Proc -> Commands] /\ flush \in [Proc -> BOOLEAN]
    /\ mem \in [Proc -> Config] /\ rc \in [Proc -> ErrorCodes] /\ dry \in [Proc -> BOOLEAN]
    /\ file \in FileType /\ (file.data = << >> \/ file.exists)
    /\ size \in [Proc -> Nat] /\ written \in Writing /\ behind \in [Proc -> Writing]
  BY DEF ConfigTypeInv, ConfigTypeOK, StagingTypeOK, ConfigLabels, FileType, Writing

LEMMA ConfigTypesNext ==
  ASSUME /\ pc' \in [Proc -> ConfigLabels] /\ cmd' \in [Proc -> Commands]
         /\ flush' \in [Proc -> BOOLEAN]
         /\ mem' \in [Proc -> Config] /\ rc' \in [Proc -> ErrorCodes] /\ dry' \in [Proc -> BOOLEAN]
         /\ file' \in FileType /\ (file'.data = << >> \/ file'.exists)
         /\ size' \in [Proc -> Nat] /\ written' \in Writing /\ behind' \in [Proc -> Writing]
  PROVE  ConfigTypeInv'
  BY DEF ConfigTypeInv, ConfigTypeOK, StagingTypeOK, ConfigLabels, FileType, Writing

LEMMA LabelsAre ==
  /\ {"idle", "configure", "load", "read", "loaded", "hexdump", "dump", "save", "open", "write",
      "saved", "done", "flush", "inhibit", "reset", "poll", "upload", "clock", "verify", "flushed"}
       = ConfigLabels
  /\ {"OK", "HW_NOT_RESPONDING", "HW_NOT_RESPONDING_STAGING_AREA_DIRTY", "HW_LEFT_FLOATING",
      "HW_LEFT_FLOATING_STAGING_AREA_DIRTY", "STAGING_AREA_INVALID", "INVALID_XML",
      "FILESYSTEM", "ERRNO"} \subseteq ErrorCodes
  BY DEF ConfigLabels, FlushLabels, StagingLabels, ErrorCodes

\* What a process that forgets is left with.
LEMMA ForgetType ==
  ASSUME ConfigTypeInv, NEW p \in Proc, Forget(p)
  PROVE  /\ mem' \in [Proc -> Config] /\ size' \in [Proc -> Nat] /\ behind' \in [Proc -> Writing]
  BY ConfigTypes, EmptyConfigType, NeverWrittenType DEF Forget

LEMMA ReturnType ==
  ASSUME ConfigTypeInv, NEW p \in Proc, NEW code \in ErrorCodes, NEW label \in ConfigLabels,
         Return(p, code, label)
  PROVE  pc' \in [Proc -> ConfigLabels] /\ rc' \in [Proc -> ErrorCodes]
  BY ConfigTypes DEF Return

LEMMA GotoType ==
  ASSUME ConfigTypeInv, NEW p \in Proc, NEW label \in ConfigLabels, Goto(p, label)
  PROVE  pc' \in [Proc -> ConfigLabels] /\ rc' \in [Proc -> ErrorCodes]
  BY ConfigTypes DEF Goto

LEMMA InvokeType == ASSUME ConfigTypeInv, NEW p \in Proc, Invoke(p) PROVE ConfigTypeInv'
  <1>1. PICK c \in Commands, s \in Settings(cmd'[p].conf) :
          /\ cmd' = [cmd EXCEPT ![p] = c]
          /\ dry' = [dry EXCEPT ![p] = s.dry_run = "true"]
          /\ flush' = [flush EXCEPT ![p] =
                         (c.flush /\ c.name \in TakeFlush) \/ s.auto_flush = "true"]
          /\ \/ c.name \in Loads /\ Return(p, "OK", "load") /\ Forget(p)
             \/ c.name = "hexdump" /\ Return(p, "OK", "hexdump") /\ Forget(p)
             \/ /\ c.name \in Makes
                /\ \E made \in Made(c) :
                     IF made.rc = "ok"
                     THEN /\ Return(p, "OK", "save")
                          /\ mem' = [mem EXCEPT ![p] = made.cfg]
                          /\ UNCHANGED <<size, behind>>
                     ELSE Return(p, "INVALID_XML", "done") /\ Forget(p)
    BY ConfigTypes DEF Invoke
  <1>2. UNCHANGED <<file, written>>
    BY DEF Invoke
  <1>3. cmd' \in [Proc -> Commands] /\ flush' \in [Proc -> BOOLEAN] /\ dry' \in [Proc -> BOOLEAN]
    BY <1>1, ConfigTypes
  <1>4. pc' \in [Proc -> ConfigLabels] /\ rc' \in [Proc -> ErrorCodes]
    BY <1>1, LabelsAre, ReturnType
  <1>5. /\ mem' \in [Proc -> Config] /\ size' \in [Proc -> Nat] /\ behind' \in [Proc -> Writing]
    <2>1. CASE Forget(p)
      BY <2>1, ForgetType
    <2>2. CASE /\ \E made \in Made(c) : mem' = [mem EXCEPT ![p] = made.cfg]
               /\ UNCHANGED <<size, behind>>
      BY <2>2, MadeType, ConfigTypes
    <2> QED BY <1>1, <2>1, <2>2
  <1> QED BY <1>2, <1>3, <1>4, <1>5, ConfigTypes, ConfigTypesNext

\* What loading does.
LEMMA OpenAndStatType ==
  ASSUME ConfigTypeInv, NEW p \in Proc, NEW next \in ConfigLabels, OpenAndStat(p, next),
         UNCHANGED cmdVars
  PROVE  ConfigTypeInv'
  <1>1. pc' \in [Proc -> ConfigLabels] /\ rc' \in [Proc -> ErrorCodes]
    <2>1. Goto(p, next) \/ Return(p, "FILESYSTEM", "done")
      BY DEF OpenAndStat
    <2> QED BY <2>1, LabelsAre, GotoType, ReturnType
  <1>2. size' \in [Proc -> Nat]
    <2>1. Len(file.data) \in Nat
      BY ConfigTypes DEF FileType
    <2> QED BY <2>1, ConfigTypes DEF OpenAndStat
  <1>3. UNCHANGED <<mem, dry, file, written, behind, cmd, flush>>
    BY DEF OpenAndStat, cmdVars
  <1> QED BY <1>1, <1>2, <1>3, ConfigTypes, ConfigTypesNext

LEMMA LoadReadType ==
  ASSUME ConfigTypeInv, NEW p \in Proc, LoadRead(p), UNCHANGED cmdVars
  PROVE  ConfigTypeInv'
  <1>1. pc' \in [Proc -> ConfigLabels] /\ rc' \in [Proc -> ErrorCodes]
    <2>1. Goto(p, "loaded") \/ Return(p, "FILESYSTEM", "done")
          \/ Return(p, "STAGING_AREA_INVALID", "done")
      BY DEF LoadRead
    <2> QED BY <2>1, LabelsAre, GotoType, ReturnType
  <1>2. size' \in [Proc -> Nat]
    BY ConfigTypes DEF LoadRead
  <1>3. mem' \in [Proc -> Config]
    <2>1. Buffer(p) \in Seq(Units)
      BY ConfigTypes, BufferOf
    <2>2. \A c \in Unpack(Buffer(p)).configs : c \in Config
      BY <2>1, UnpackType
    <2>3. UNCHANGED mem \/ \E c \in Unpack(Buffer(p)).configs : mem' = [mem EXCEPT ![p] = c]
      BY DEF LoadRead
    <2> QED BY <2>2, <2>3, ConfigTypes
  <1>4. behind' \in [Proc -> Writing]
    BY ConfigTypes DEF LoadRead
  <1>5. UNCHANGED <<dry, file, written, cmd, flush>>
    BY DEF LoadRead, cmdVars
  <1> QED BY <1>1, <1>2, <1>3, <1>4, <1>5, ConfigTypes, ConfigTypesNext

LEMMA HexdumpReadType ==
  ASSUME ConfigTypeInv, NEW p \in Proc, HexdumpRead(p), UNCHANGED cmdVars
  PROVE  ConfigTypeInv'
  <1>1. pc' \in [Proc -> ConfigLabels] /\ rc' \in [Proc -> ErrorCodes]
    <2>1. Return(p, "FILESYSTEM", "done") \/ Return(p, "STAGING_AREA_INVALID", "done")
      BY DEF HexdumpRead
    <2> QED BY <2>1, LabelsAre, ReturnType
  <1>2. size' \in [Proc -> Nat]
    BY ConfigTypes DEF HexdumpRead
  <1>3. UNCHANGED <<mem, dry, file, written, behind, cmd, flush>>
    BY DEF HexdumpRead, cmdVars
  <1> QED BY <1>1, <1>2, <1>3, ConfigTypes, ConfigTypesNext

LEMMA SavePackType ==
  ASSUME ConfigTypeInv, NEW p \in Proc, SavePack(p), UNCHANGED cmdVars
  PROVE  ConfigTypeInv'
  <1>1. pc' \in [Proc -> ConfigLabels] /\ rc' \in [Proc -> ErrorCodes]
    <2>1. Goto(p, "open") \/ Return(p, "OK", "saved") \/ Return(p, "ERRNO", "saved")
      BY DEF SavePack
    <2> QED BY <2>1, LabelsAre, GotoType, ReturnType
  <1>2. UNCHANGED <<mem, dry, file, size, written, behind, cmd, flush>>
    BY DEF SavePack, stagingVars, cmdVars
  <1> QED BY <1>1, <1>2, ConfigTypes, ConfigTypesNext

LEMMA SaveOpenType ==
  ASSUME ConfigTypeInv, NEW p \in Proc, SaveOpen(p), UNCHANGED cmdVars
  PROVE  ConfigTypeInv'
  <1>1. pc' \in [Proc -> ConfigLabels] /\ rc' \in [Proc -> ErrorCodes]
    <2>1. Goto(p, "write") \/ Return(p, "ERRNO", "saved")
      BY DEF SaveOpen
    <2> QED BY <2>1, LabelsAre, GotoType, ReturnType
  <1>2. file' \in FileType /\ (file'.data = << >> \/ file'.exists)
    <2>1. CASE file' = Holding(<< >>)
      BY <2>1, EmptyIsSequence, HoldingType
    <2>2. CASE UNCHANGED file
      BY <2>2, ConfigTypes
    <2> QED BY <2>1, <2>2 DEF SaveOpen
  <1>3. UNCHANGED <<mem, dry, size, written, behind, cmd, flush>>
    BY DEF SaveOpen, cmdVars
  <1> QED BY <1>1, <1>2, <1>3, ConfigTypes, ConfigTypesNext

\* n is the number of units that get to the file.
LEMMA WriteType ==
  ASSUME ConfigTypeInv, NEW p \in Proc, NEW n \in Nat, WriteUnits(p, n)
  PROVE  file' \in FileType /\ file'.exists /\ written' \in Writing
  <1>1. mem[p] \in Config /\ file.data \in Seq(Units)
    BY ConfigTypes DEF FileType
  <1> QED BY <1>1, WriteOf

LEMMA PackLength == ASSUME NEW c \in Config PROVE Len(Pack(c)) \in Nat
  <1>1. Pack(c) \in Seq(Units)
    BY PackedPlaces
  <1> QED BY <1>1

LEMMA SaveWriteType ==
  ASSUME ConfigTypeInv, NEW p \in Proc, SaveWrite(p), UNCHANGED cmdVars
  PROVE  ConfigTypeInv'
  <1>1. pc' \in [Proc -> ConfigLabels] /\ rc' \in [Proc -> ErrorCodes]
    <2>1. Return(p, "OK", "saved") \/ Return(p, "ERRNO", "saved")
      BY DEF SaveWrite
    <2> QED BY <2>1, LabelsAre, ReturnType
  <1>2. \E n \in Nat : WriteUnits(p, n)
    <2>1. Len(Pack(mem[p])) \in Nat
      BY ConfigTypes, PackLength
    <2> QED BY <2>1 DEF SaveWrite
  <1>3. file' \in FileType /\ file'.exists /\ written' \in Writing
    BY <1>2, WriteType
  <1>4. UNCHANGED <<mem, dry, size, behind, cmd, flush>>
    BY DEF SaveWrite, cmdVars
  <1> QED BY <1>1, <1>3, <1>4, ConfigTypes, ConfigTypesNext

LEMMA LoadedType == ASSUME ConfigTypeInv, NEW p \in Proc, Loaded(p) PROVE ConfigTypeInv'
  <1>1. pc' \in [Proc -> ConfigLabels] /\ rc' \in [Proc -> ErrorCodes]
    <2>1. Goto(p, "save") \/ Goto(p, "configure") \/ Return(p, "ERRNO", "done")
          \/ Return(p, "OK", "done")
      BY DEF Loaded, Exit
    <2> QED BY <2>1, LabelsAre, GotoType, ReturnType
  <1>2. mem' \in [Proc -> Config]
    <2>1. cmd[p].edit \in Edit /\ mem[p] \in Config
      BY ConfigTypes, CommandType
    <2>2. Applicable(mem[p], cmd[p].edit) => Apply(mem[p], cmd[p].edit) \in Config
      BY <2>1, ApplyType
    <2>3. UNCHANGED mem \/ (/\ Applicable(mem[p], cmd[p].edit)
                            /\ mem' = [mem EXCEPT ![p] = Apply(@, cmd[p].edit)])
      BY DEF Loaded
    <2> QED BY <2>2, <2>3, ConfigTypes
  <1>3. behind' \in [Proc -> Writing]
    BY NeverWrittenType, ConfigTypes DEF Loaded
  <1>4. UNCHANGED <<dry, cmd, flush, file, size, written>>
    BY DEF Loaded, cmdVars
  <1> QED BY <1>1, <1>2, <1>3, <1>4, ConfigTypes, ConfigTypesNext

LEMMA SavedType == ASSUME ConfigTypeInv, NEW p \in Proc, Saved(p) PROVE ConfigTypeInv'
  <1>1. pc' \in [Proc -> ConfigLabels] /\ rc' \in [Proc -> ErrorCodes]
    <2>1. Goto(p, "configure") \/ Return(p, "FILESYSTEM", "done") \/ Return(p, "OK", "done")
      BY DEF Saved, Exit
    <2> QED BY <2>1, LabelsAre, GotoType, ReturnType
  <1>2. UNCHANGED <<mem, dry, file, size, written, behind, cmd, flush>>
    BY DEF Saved, stagingVars, cmdVars
  <1> QED BY <1>1, <1>2, ConfigTypes, ConfigTypesNext

LEMMA SpiConfigureType == ASSUME ConfigTypeInv, NEW p \in Proc, SpiConfigure(p) PROVE ConfigTypeInv'
  <1>1. pc' \in [Proc -> ConfigLabels] /\ rc' \in [Proc -> ErrorCodes]
    <2>1. Goto(p, "flush") \/ Return(p, "HW_NOT_RESPONDING", "done")
          \/ Return(p, "HW_NOT_RESPONDING_STAGING_AREA_DIRTY", "done")
      BY DEF SpiConfigure, Exit, NotRespondingCode
    <2> QED BY <2>1, LabelsAre, GotoType, ReturnType
  <1>2. UNCHANGED <<mem, dry, file, size, written, behind, cmd, flush>>
    BY DEF SpiConfigure, stagingVars, cmdVars
  <1> QED BY <1>1, <1>2, ConfigTypes, ConfigTypesNext

LEMMA FlushedType == ASSUME ConfigTypeInv, NEW p \in Proc, Flushed(p) PROVE ConfigTypeInv'
  <1>1. pc' \in [Proc -> ConfigLabels] /\ rc' \in [Proc -> ErrorCodes]
    <2>1. Goto(p, "done") \/ Return(p, "HW_LEFT_FLOATING_STAGING_AREA_DIRTY", "done")
      BY DEF Flushed, Exit
    <2> QED BY <2>1, LabelsAre, GotoType, ReturnType
  <1>2. UNCHANGED <<mem, dry, file, size, written, behind, cmd, flush>>
    BY DEF Flushed, stagingVars, cmdVars
  <1> QED BY <1>1, <1>2, ConfigTypes, ConfigTypesNext

LEMMA CrashType == ASSUME ConfigTypeInv, NEW p \in Proc, Crash(p) PROVE ConfigTypeInv'
  <1>1. pc' \in [Proc -> ConfigLabels] /\ rc' \in [Proc -> ErrorCodes]
    <2>1. Return(p, "OK", "idle")
      BY DEF Crash, StagingCrash
    <2> QED BY <2>1, LabelsAre, ReturnType
  <1>2. mem' \in [Proc -> Config] /\ size' \in [Proc -> Nat] /\ behind' \in [Proc -> Writing]
    BY ForgetType DEF Crash, StagingCrash
  <1>3. file' \in FileType /\ (file'.data = << >> \/ file'.exists) /\ written' \in Writing
    <2>1. CASE UNCHANGED <<file, written>>
      BY <2>1, ConfigTypes
    <2>2. CASE \E n \in 0..(Len(Pack(mem[p])) - 1) : WriteUnits(p, n)
      <3>1. Len(Pack(mem[p])) \in Nat
        BY ConfigTypes, PackLength
      <3>2. \E n \in Nat : WriteUnits(p, n)
        BY <2>2, <3>1
      <3> QED BY <3>2, WriteType
    <2> QED BY <2>1, <2>2 DEF Crash, StagingCrash
  <1>4. dry' \in [Proc -> BOOLEAN] /\ cmd' \in [Proc -> Commands] /\ flush' \in [Proc -> BOOLEAN]
    BY ConfigTypes, NoCommandType DEF Crash, StagingCrash
  <1> QED BY <1>1, <1>2, <1>3, <1>4, ConfigTypes, ConfigTypesNext

\* A step of the flush.
FlushCodes == {"OK", "STAGING_AREA_INVALID", "HW_NOT_RESPONDING", "HW_LEFT_FLOATING"}

LEMMA FlushMoves ==
  ASSUME NEW p \in Proc, FlushStep(p)
  PROVE  /\ UNCHANGED <<mem, dry>>
         /\ pc[p] \in {"flush", "inhibit", "reset", "poll", "upload", "clock", "verify"}
         /\ \/ \E label \in {"inhibit", "reset", "poll", "upload", "clock", "verify"} : Goto(p, label)
            \/ \E code \in FlushCodes : Return(p, code, "flushed")
  <1> USE DEF FlushCodes, Fail
  <1>1. CASE FlushCheckValid(p)
    BY <1>1 DEF FlushCheckValid
  <1>2. CASE InhibitTx(p)
    BY <1>2 DEF InhibitTx
  <1>3. CASE ColdReset(p)
    BY <1>3 DEF ColdReset
  <1>4. CASE PollBusy(p)
    BY <1>4 DEF PollBusy
  <1>5. CASE UploadRefused(p)
    BY <1>5 DEF UploadRefused
  <1>6. CASE UploadChunk(p)
    BY <1>6 DEF UploadChunk
  <1>7. CASE ClockingSetup(p)
    BY <1>7 DEF ClockingSetup, NextPort
  <1>8. CASE VerifyStatus(p)
    BY <1>8 DEF VerifyStatus
  <1> QED BY <1>1, <1>2, <1>3, <1>4, <1>5, <1>6, <1>7, <1>8 DEF FlushStep

LEMMA FlushStepType ==
  ASSUME ConfigTypeInv, NEW p \in Proc, FlushStep(p), UNCHANGED <<cmdVars, stagingVars>>
  PROVE  ConfigTypeInv'
  <1>1. pc' \in [Proc -> ConfigLabels] /\ rc' \in [Proc -> ErrorCodes]
    BY FlushMoves, LabelsAre, GotoType, ReturnType DEF FlushCodes
  <1>2. UNCHANGED <<mem, dry, file, size, written, behind, cmd, flush>>
    BY FlushMoves DEF stagingVars, cmdVars
  <1> QED BY <1>1, <1>2, ConfigTypes, ConfigTypesNext

LEMMA SwitchReadyType == ASSUME ConfigTypeInv, SwitchReady, UNCHANGED <<cmdVars, stagingVars>>
                         PROVE  ConfigTypeInv'
  <1>1. UNCHANGED <<pc, rc, mem, dry, file, size, written, behind, cmd, flush>>
    BY DEF SwitchReady, toolVars, stagingVars, cmdVars
  <1> QED BY <1>1, ConfigTypes, ConfigTypesNext

LEMMA StagingStepType ==
  ASSUME ConfigTypeInv, NEW p \in Proc, StagingStep(p), UNCHANGED cmdVars
  PROVE  ConfigTypeInv'
  <1>1. CASE LoadOpen(p)
    BY <1>1, LabelsAre, OpenAndStatType DEF LoadOpen
  <1>2. CASE HexdumpOpen(p)
    BY <1>2, LabelsAre, OpenAndStatType DEF HexdumpOpen
  <1>3. CASE LoadRead(p)
    BY <1>3, LoadReadType
  <1>4. CASE HexdumpRead(p)
    BY <1>4, HexdumpReadType
  <1>5. CASE SavePack(p)
    BY <1>5, SavePackType
  <1>6. CASE SaveOpen(p)
    BY <1>6, SaveOpenType
  <1>7. CASE SaveWrite(p)
    BY <1>7, SaveWriteType
  <1> QED BY <1>1, <1>2, <1>3, <1>4, <1>5, <1>6, <1>7 DEF StagingStep

LEMMA ConfigTypeStep == ConfigTypeInv /\ [ConfigNext]_configVars => ConfigTypeInv'
  <1> SUFFICES ASSUME ConfigTypeInv, [ConfigNext]_configVars PROVE ConfigTypeInv'
    OBVIOUS
  <1>1. ASSUME NEW p \in Proc, ConfigStep(p) PROVE ConfigTypeInv'
    <2>1. CASE StagingStep(p) /\ UNCHANGED <<cmdVars, hwVars, flushVars>>
      BY <2>1, StagingStepType
    <2>2. CASE FlushStep(p) /\ UNCHANGED <<cmdVars, stagingVars>>
      BY <2>2, FlushStepType
    <2> QED BY <1>1, <2>1, <2>2, InvokeType, LoadedType, SavedType, SpiConfigureType,
              FlushedType, CrashType DEF ConfigStep
  <1>2. CASE SwitchReady /\ UNCHANGED <<cmdVars, stagingVars>>
    BY <1>2, SwitchReadyType
  <1>3. CASE UNCHANGED configVars
    <2>1. UNCHANGED <<pc, rc, mem, dry, file, size, written, behind, cmd, flush>>
      BY <1>3 DEF configVars, vars, toolVars, stagingVars, cmdVars
    <2> QED BY <2>1, ConfigTypes, ConfigTypesNext
  <1> QED BY <1>1, <1>2, <1>3 DEF ConfigNext

(***************************************************************************)
(* Whatever the processes do, with any fault and any number of them, every *)
(* variable of the tool keeps its type: in particular every staging area   *)
(* held is a configuration, and the file is a sequence of header, entry    *)
(* and checksum units.                                                     *)
(***************************************************************************)
THEOREM ConfigTypeCorrect == ConfigSpec => []ConfigTypeOK
  <1>1. ConfigTypeInv => ConfigTypeOK
    BY DEF ConfigTypeInv
  <1> QED BY <1>1, ConfigTypeInit, ConfigTypeStep, PTL DEF ConfigSpec
-----------------------------------------------------------------------------
(***************************************************************************)
(* What a step of p does, process by process: to p, and to the others.     *)
(***************************************************************************)
Others(p) ==
    \A o \in Proc \ {p} :
      /\ pc'[o] = pc[o] /\ rc'[o] = rc[o] /\ mem'[o] = mem[o] /\ dry'[o] = dry[o]
      /\ cmd'[o] = cmd[o] /\ flush'[o] = flush[o] /\ behind'[o] = behind[o]

SameCommand(p) == cmd'[p] = cmd[p] /\ flush'[p] = flush[p] /\ dry'[p] = dry[p]
SameFile == file' = file /\ written' = written
Moves(p, label) == pc'[p] = label /\ rc'[p] = rc[p]
Leaves(p, code, label) == pc'[p] = label /\ rc'[p] = code
Blank == EmptyConfig(NoDevice)

\* The settings of the invocation are some that its configuration file gives.
WithSettings(p) ==
    \E s \in Settings(cmd[p].conf) :
      /\ dry[p] <=> s.dry_run = "true"
      /\ flush[p] <=> (cmd[p].flush /\ cmd[p].name \in TakeFlush) \/ s.auto_flush = "true"

Starts(p) ==
    /\ pc[p] \in {"idle", "done"} /\ SameFile /\ UNCHANGED hwVars /\ cmd'[p] \in Commands
    /\ WithSettings(p)'
    /\ \/ Leaves(p, "OK", "load") /\ cmd'[p].name \in Loads /\ mem'[p] = Blank
       \/ Leaves(p, "OK", "hexdump") /\ cmd'[p].name = "hexdump" /\ mem'[p] = Blank
       \/ Leaves(p, "INVALID_XML", "done") /\ cmd'[p].name \in Makes /\ mem'[p] = Blank
       \/ /\ Leaves(p, "OK", "save") /\ cmd'[p].name \in Makes
          /\ \E made \in Made(cmd'[p]) : made.rc = "ok" /\ mem'[p] = made.cfg

Opens(p) ==
    /\ SameCommand(p) /\ SameFile /\ UNCHANGED hwVars /\ mem'[p] = mem[p]
    /\ \/ pc[p] = "load" /\ Moves(p, "read")
       \/ pc[p] = "hexdump" /\ Moves(p, "dump")
       \/ pc[p] \in {"load", "hexdump"} /\ Leaves(p, "FILESYSTEM", "done")

Loading(p) ==
    /\ pc[p] = "read" /\ SameCommand(p) /\ SameFile /\ UNCHANGED hwVars
    /\ \/ Moves(p, "loaded") /\ mem'[p] \in Unpack(Buffer(p)).configs /\ behind'[p] = written
       \/ Leaves(p, "STAGING_AREA_INVALID", "done") /\ mem'[p] = mem[p]
       \/ Leaves(p, "FILESYSTEM", "done") /\ mem'[p] = mem[p]

Dumps(p) ==
    /\ pc[p] = "dump" /\ SameCommand(p) /\ SameFile /\ UNCHANGED hwVars /\ mem'[p] = mem[p]
    /\ Leaves(p, "FILESYSTEM", "done") \/ Leaves(p, "STAGING_AREA_INVALID", "done")

Packs(p) ==
    /\ pc[p] = "save" /\ SameCommand(p) /\ SameFile /\ UNCHANGED hwVars /\ mem'[p] = mem[p]
    /\ \/ Moves(p, "open") /\ mem[p].dev \in DeviceIds
       \/ Leaves(p, "ERRNO", "saved")
       \/ Leaves(p, "OK", "saved") /\ "malloc" \in Faults

Truncates(p) ==
    /\ pc[p] = "open" /\ SameCommand(p) /\ written' = written /\ UNCHANGED hwVars
    /\ mem'[p] = mem[p]
    /\ \/ Moves(p, "write") /\ file' = Holding(<< >>)
       \/ Leaves(p, "ERRNO", "saved") /\ file' = file

Stores(p) ==
    /\ pc[p] = "write" /\ SameCommand(p) /\ UNCHANGED hwVars /\ mem'[p] = mem[p]
    /\ \/ Leaves(p, "OK", "saved") /\ WriteUnits(p, Len(Pack(mem[p])))
       \/ /\ Leaves(p, "ERRNO", "saved") /\ "short" \in Faults
          /\ \E n \in 0..(Len(Pack(mem[p])) - 1) : WriteUnits(p, n)

Acts(p) ==
    /\ pc[p] = "loaded" /\ SameCommand(p) /\ SameFile /\ UNCHANGED hwVars
    /\ \/ /\ Name(p) = "modify" /\ Applicable(mem[p], cmd[p].edit)
          /\ Moves(p, "save") /\ mem'[p] = Apply(mem[p], cmd[p].edit)
       \/ Name(p) = "modify" /\ Leaves(p, "ERRNO", "done") /\ mem'[p] = mem[p]
       \/ Name(p) = "upload" /\ Moves(p, "configure") /\ mem'[p] = mem[p]
       \/ Name(p) \in {"show", "save"} /\ Leaves(p, "OK", "done") /\ mem'[p] = mem[p]

Concludes(p) ==
    /\ pc[p] = "saved" /\ SameCommand(p) /\ SameFile /\ UNCHANGED hwVars /\ mem'[p] = mem[p]
    /\ \/ rc[p] # "OK" /\ Leaves(p, "FILESYSTEM", "done")
       \/ rc[p] = "OK" /\ flush[p] /\ Name(p) \in TakeFlush /\ Moves(p, "configure")
       \/ rc[p] = "OK" /\ ~(flush[p] /\ Name(p) \in TakeFlush) /\ Leaves(p, "OK", "done")

Configures(p) ==
    /\ pc[p] = "configure" /\ SameCommand(p) /\ SameFile /\ UNCHANGED hwVars /\ mem'[p] = mem[p]
    /\ Moves(p, "flush") \/ Leaves(p, NotRespondingCode(p), "done")

Flushing == {"flush", "inhibit", "reset", "poll", "upload", "clock", "verify"}

Flushes(p) ==
    /\ FlushStep(p)
    /\ pc[p] \in Flushing /\ SameCommand(p) /\ SameFile /\ mem'[p] = mem[p]
    /\ \/ pc'[p] \in Flushing /\ rc'[p] = rc[p]
       \/ pc'[p] = "flushed" /\ rc'[p] \in FlushCodes

Ends(p) ==
    /\ pc[p] = "flushed" /\ SameCommand(p) /\ SameFile /\ UNCHANGED hwVars /\ mem'[p] = mem[p]
    /\ \/ rc[p] = "OK" /\ Moves(p, "done")
       \/ Name(p) = "upload" /\ Moves(p, "done")
       \/ /\ rc[p] # "OK" /\ Name(p) # "upload"
          /\ Leaves(p, "HW_LEFT_FLOATING_STAGING_AREA_DIRTY", "done")

Dies(p) ==
    /\ pc[p] \notin {"idle", "done"} /\ UNCHANGED hwVars /\ mem'[p] = Blank
    /\ Leaves(p, "OK", "idle")
    /\ \/ SameFile
       \/ /\ pc[p] = "write" /\ "short" \in Faults
          /\ \E n \in 0..(Len(Pack(mem[p])) - 1) : WriteUnits(p, n)

Does(p) ==
    \/ Starts(p) \/ Opens(p) \/ Loading(p) \/ Dumps(p) \/ Packs(p) \/ Truncates(p) \/ Stores(p)
    \/ Acts(p) \/ Concludes(p) \/ Configures(p) \/ Flushes(p) \/ Ends(p) \/ Dies(p)
-----------------------------------------------------------------------------
Rest(p) == \A o \in Proc \ {p} : pc'[o] = pc[o] /\ rc'[o] = rc[o]

LEMMA GoesTo ==
  ASSUME ConfigTypeInv, NEW p \in Proc, NEW label, Goto(p, label)
  PROVE  Moves(p, label) /\ Rest(p)
  BY ConfigTypes DEF Goto, Moves, Rest

LEMMA ReturnsTo ==
  ASSUME ConfigTypeInv, NEW p \in Proc, NEW code, NEW label, Return(p, code, label)
  PROVE  Leaves(p, code, label) /\ Rest(p)
  BY ConfigTypes DEF Return, Leaves, Rest

LEMMA Forgets ==
  ASSUME ConfigTypeInv, NEW p \in Proc, Forget(p)
  PROVE  /\ mem'[p] = Blank
         /\ \A o \in Proc \ {p} : mem'[o] = mem[o] /\ behind'[o] = behind[o]
  BY ConfigTypes DEF Forget, Blank

LEMMA UntouchedStay ==
  /\ UNCHANGED mem => \A p \in Proc : mem'[p] = mem[p]
  /\ UNCHANGED behind => \A p \in Proc : behind'[p] = behind[p]
  /\ UNCHANGED <<dry, cmd, flush>> => \A p \in Proc : SameCommand(p)
  BY DEF SameCommand

LEMMA OthersAre ==
  ASSUME NEW p \in Proc, Rest(p),
         \A o \in Proc \ {p} : mem'[o] = mem[o] /\ behind'[o] = behind[o] /\ SameCommand(o)
  PROVE  Others(p)
  BY DEF Others, Rest, SameCommand

LEMMA InvokeDoes == ASSUME ConfigTypeInv, NEW p \in Proc, Invoke(p) PROVE Others(p) /\ Starts(p)
  <1>1. PICK c \in Commands, s \in Settings(cmd'[p].conf) :
          /\ cmd' = [cmd EXCEPT ![p] = c]
          /\ dry' = [dry EXCEPT ![p] = s.dry_run = "true"]
          /\ flush' = [flush EXCEPT ![p] =
                         (c.flush /\ c.name \in TakeFlush) \/ s.auto_flush = "true"]
          /\ \/ c.name \in Loads /\ Return(p, "OK", "load") /\ Forget(p)
             \/ c.name = "hexdump" /\ Return(p, "OK", "hexdump") /\ Forget(p)
             \/ /\ c.name \in Makes
                /\ \E made \in Made(c) :
                     IF made.rc = "ok"
                     THEN /\ Return(p, "OK", "save")
                          /\ mem' = [mem EXCEPT ![p] = made.cfg]
                          /\ UNCHANGED <<size, behind>>
                     ELSE Return(p, "INVALID_XML", "done") /\ Forget(p)
    BY ConfigTypes DEF Invoke
  <1>2. pc[p] \in {"idle", "done"} /\ SameFile /\ UNCHANGED hwVars /\ WithSettings(p)'
    <2>1. /\ cmd'[p] = c /\ dry'[p] = (s.dry_run = "true")
          /\ flush'[p] = ((c.flush /\ c.name \in TakeFlush) \/ s.auto_flush = "true")
      BY <1>1, ConfigTypes
    <2>2. WithSettings(p)'
      BY <2>1 DEF WithSettings
    <2> QED BY <2>2 DEF Invoke, SameFile
  <1>3. cmd'[p] = c /\ \A o \in Proc \ {p} : SameCommand(o)
    BY <1>1, ConfigTypes DEF SameCommand
  <1>4. CASE c.name \in Makes
    <2>1. PICK made \in Made(c) :
            IF made.rc = "ok"
            THEN /\ Return(p, "OK", "save")
                 /\ mem' = [mem EXCEPT ![p] = made.cfg]
                 /\ UNCHANGED <<size, behind>>
            ELSE Return(p, "INVALID_XML", "done") /\ Forget(p)
      BY <1>1, <1>4 DEF Loads, Makes
    <2>2. CASE made.rc = "ok"
      <3>1. Leaves(p, "OK", "save") /\ Rest(p)
        BY <2>1, <2>2, ReturnsTo
      <3>2. mem'[p] = made.cfg /\ \A o \in Proc \ {p} : mem'[o] = mem[o] /\ behind'[o] = behind[o]
        BY <2>1, <2>2, ConfigTypes
      <3> QED BY <1>2, <1>3, <1>4, <2>2, <3>1, <3>2, OthersAre DEF Starts
    <2>3. CASE made.rc # "ok"
      <3>1. Leaves(p, "INVALID_XML", "done") /\ Rest(p)
        BY <2>1, <2>3, ReturnsTo
      <3> QED BY <1>2, <1>3, <1>4, <2>1, <2>3, <3>1, Forgets, OthersAre DEF Starts
    <2> QED BY <2>2, <2>3
  <1>5. CASE c.name \in Loads
    <2>1. Return(p, "OK", "load") /\ Forget(p)
      BY <1>1, <1>5 DEF Loads, Makes
    <2>2. Leaves(p, "OK", "load") /\ Rest(p)
      BY <2>1, ReturnsTo
    <2> QED BY <1>2, <1>3, <1>5, <2>1, <2>2, Forgets, OthersAre DEF Starts
  <1>6. CASE c.name = "hexdump"
    <2>1. Return(p, "OK", "hexdump") /\ Forget(p)
      BY <1>1, <1>6 DEF Loads, Makes
    <2>2. Leaves(p, "OK", "hexdump") /\ Rest(p)
      BY <2>1, ReturnsTo
    <2> QED BY <1>2, <1>3, <1>6, <2>1, <2>2, Forgets, OthersAre DEF Starts
  <1> QED BY <1>1, <1>4, <1>5, <1>6

LEMMA StagingDoes ==
  ASSUME ConfigTypeInv, NEW p \in Proc, StagingStep(p), UNCHANGED <<cmdVars, hwVars, flushVars>>
  PROVE  Others(p) /\ Does(p)
  <1>0. UNCHANGED hwVars /\ UNCHANGED <<cmd, flush>>
    BY DEF cmdVars
  <1>1. CASE LoadOpen(p) \/ HexdumpOpen(p)
    <2>1. UNCHANGED <<mem, dry, file, written, behind>>
      BY <1>1 DEF LoadOpen, HexdumpOpen, OpenAndStat
    <2>2. \/ pc[p] = "load" /\ Goto(p, "read")
          \/ pc[p] = "hexdump" /\ Goto(p, "dump")
          \/ pc[p] \in {"load", "hexdump"} /\ Return(p, "FILESYSTEM", "done")
      BY <1>1 DEF LoadOpen, HexdumpOpen, OpenAndStat
    <2>3. Opens(p) /\ Rest(p)
      BY <1>0, <2>1, <2>2, GoesTo, ReturnsTo, UntouchedStay DEF Opens, SameFile
    <2> QED BY <1>0, <2>1, <2>3, UntouchedStay, OthersAre DEF Does
  <1>2. CASE LoadRead(p)
    <2>1. UNCHANGED <<dry, file, written>> /\ pc[p] = "read"
      BY <1>2 DEF LoadRead
    <2>2. \/ /\ Goto(p, "loaded") /\ mem'[p] \in Unpack(Buffer(p)).configs /\ behind'[p] = written
             /\ \A o \in Proc \ {p} : mem'[o] = mem[o] /\ behind'[o] = behind[o]
          \/ Return(p, "STAGING_AREA_INVALID", "done") /\ UNCHANGED <<mem, behind>>
          \/ Return(p, "FILESYSTEM", "done") /\ UNCHANGED <<mem, behind>>
      BY <1>2, ConfigTypes DEF LoadRead
    <2>3. Loading(p) /\ Rest(p) /\ \A o \in Proc \ {p} : mem'[o] = mem[o] /\ behind'[o] = behind[o]
      BY <1>0, <2>1, <2>2, GoesTo, ReturnsTo, UntouchedStay DEF Loading, SameFile
    <2> QED BY <1>0, <2>1, <2>3, UntouchedStay, OthersAre DEF Does
  <1>3. CASE HexdumpRead(p)
    <2>1. UNCHANGED <<mem, dry, file, written, behind>> /\ pc[p] = "dump"
      BY <1>3 DEF HexdumpRead
    <2>2. Return(p, "FILESYSTEM", "done") \/ Return(p, "STAGING_AREA_INVALID", "done")
      BY <1>3 DEF HexdumpRead
    <2>3. Dumps(p) /\ Rest(p)
      BY <1>0, <2>1, <2>2, ReturnsTo, UntouchedStay DEF Dumps, SameFile
    <2> QED BY <1>0, <2>1, <2>3, UntouchedStay, OthersAre DEF Does
  <1>4. CASE SavePack(p)
    <2>1. UNCHANGED <<mem, dry, file, written, behind>> /\ pc[p] = "save"
      BY <1>4 DEF SavePack, stagingVars
    <2>2. \/ Goto(p, "open") /\ mem[p].dev \in DeviceIds
          \/ Return(p, "ERRNO", "saved")
          \/ Return(p, "OK", "saved") /\ "malloc" \in Faults
      BY <1>4 DEF SavePack
    <2>3. Packs(p) /\ Rest(p)
      BY <1>0, <2>1, <2>2, GoesTo, ReturnsTo, UntouchedStay DEF Packs, SameFile
    <2> QED BY <1>0, <2>1, <2>3, UntouchedStay, OthersAre DEF Does
  <1>5. CASE SaveOpen(p)
    <2>1. UNCHANGED <<mem, dry, written, behind>> /\ pc[p] = "open"
      BY <1>5 DEF SaveOpen
    <2>2. \/ Goto(p, "write") /\ file' = Holding(<< >>)
          \/ Return(p, "ERRNO", "saved") /\ file' = file
      BY <1>5 DEF SaveOpen
    <2>3. Truncates(p) /\ Rest(p)
      BY <1>0, <2>1, <2>2, GoesTo, ReturnsTo, UntouchedStay DEF Truncates
    <2> QED BY <1>0, <2>1, <2>3, UntouchedStay, OthersAre DEF Does
  <1>6. CASE SaveWrite(p)
    <2>1. UNCHANGED <<mem, dry, behind>> /\ pc[p] = "write"
      BY <1>6 DEF SaveWrite
    <2>2. \/ WriteUnits(p, Len(Pack(mem[p]))) /\ Return(p, "OK", "saved")
          \/ /\ "short" \in Faults
             /\ \E n \in 0..(Len(Pack(mem[p])) - 1) : WriteUnits(p, n)
             /\ Return(p, "ERRNO", "saved")
      BY <1>6 DEF SaveWrite
    <2>3. Stores(p) /\ Rest(p)
      BY <1>0, <2>1, <2>2, ReturnsTo, UntouchedStay DEF Stores
    <2> QED BY <1>0, <2>1, <2>3, UntouchedStay, OthersAre DEF Does
  <1> QED BY <1>1, <1>2, <1>3, <1>4, <1>5, <1>6 DEF StagingStep

LEMMA LoadedDoes == ASSUME ConfigTypeInv, NEW p \in Proc, Loaded(p) PROVE Others(p) /\ Acts(p)
  <1>1. /\ pc[p] = "loaded" /\ UNCHANGED <<dry, cmd, flush>> /\ SameFile /\ UNCHANGED hwVars
        /\ \A o \in Proc \ {p} : behind'[o] = behind[o]
    BY ConfigTypes DEF Loaded, cmdVars, SameFile
  <1>2. \/ /\ Name(p) = "modify" /\ Applicable(mem[p], cmd[p].edit)
           /\ Goto(p, "save") /\ mem' = [mem EXCEPT ![p] = Apply(@, cmd[p].edit)]
        \/ Name(p) = "modify" /\ Return(p, "ERRNO", "done") /\ UNCHANGED mem
        \/ Name(p) = "upload" /\ Goto(p, "configure") /\ UNCHANGED mem
        \/ Name(p) \in {"show", "save"} /\ Return(p, "OK", "done") /\ UNCHANGED mem
    BY DEF Loaded, Exit
  <1>3. Rest(p)
    BY <1>2, GoesTo, ReturnsTo
  <1>4. \A o \in Proc \ {p} : mem'[o] = mem[o]
    BY <1>2, ConfigTypes
  <1>5. Acts(p)
    <2>1. mem' = [mem EXCEPT ![p] = Apply(@, cmd[p].edit)] => mem'[p] = Apply(mem[p], cmd[p].edit)
      BY ConfigTypes
    <2> QED BY <1>1, <1>2, <2>1, GoesTo, ReturnsTo, UntouchedStay DEF Acts
  <1> QED BY <1>1, <1>3, <1>4, <1>5, UntouchedStay, OthersAre

LEMMA SavedDoes == ASSUME ConfigTypeInv, NEW p \in Proc, Saved(p) PROVE Others(p) /\ Concludes(p)
  <1>1. /\ pc[p] = "saved" /\ UNCHANGED mem /\ UNCHANGED behind
        /\ UNCHANGED <<dry, cmd, flush>> /\ SameFile /\ UNCHANGED hwVars
    BY DEF Saved, cmdVars, stagingVars, SameFile
  <1>2. \/ rc[p] # "OK" /\ Return(p, "FILESYSTEM", "done")
        \/ rc[p] = "OK" /\ flush[p] /\ Name(p) \in TakeFlush /\ Goto(p, "configure")
        \/ rc[p] = "OK" /\ ~(flush[p] /\ Name(p) \in TakeFlush) /\ Return(p, "OK", "done")
    BY DEF Saved, Exit
  <1>3. Rest(p) /\ Concludes(p)
    BY <1>1, <1>2, GoesTo, ReturnsTo, UntouchedStay DEF Concludes
  <1> QED BY <1>1, <1>3, UntouchedStay, OthersAre

LEMMA SpiConfigureDoes ==
  ASSUME ConfigTypeInv, NEW p \in Proc, SpiConfigure(p) PROVE Others(p) /\ Configures(p)
  <1>1. /\ pc[p] = "configure" /\ UNCHANGED mem /\ UNCHANGED behind
        /\ UNCHANGED <<dry, cmd, flush>> /\ SameFile /\ UNCHANGED hwVars
    BY DEF SpiConfigure, cmdVars, stagingVars, SameFile
  <1>2. Goto(p, "flush") \/ Return(p, NotRespondingCode(p), "done")
    BY DEF SpiConfigure, Exit
  <1>3. Rest(p) /\ Configures(p)
    BY <1>1, <1>2, GoesTo, ReturnsTo, UntouchedStay DEF Configures
  <1> QED BY <1>1, <1>3, UntouchedStay, OthersAre

LEMMA FlushedDoes == ASSUME ConfigTypeInv, NEW p \in Proc, Flushed(p) PROVE Others(p) /\ Ends(p)
  <1>1. /\ pc[p] = "flushed" /\ UNCHANGED mem /\ UNCHANGED behind
        /\ UNCHANGED <<dry, cmd, flush>> /\ SameFile /\ UNCHANGED hwVars
    BY DEF Flushed, cmdVars, stagingVars, SameFile
  <1>2. \/ rc[p] = "OK" /\ Goto(p, "done")
        \/ Name(p) = "upload" /\ Goto(p, "done")
        \/ /\ rc[p] # "OK" /\ Name(p) # "upload"
           /\ Return(p, "HW_LEFT_FLOATING_STAGING_AREA_DIRTY", "done")
    BY DEF Flushed, Exit
  <1>3. Rest(p) /\ Ends(p)
    BY <1>1, <1>2, GoesTo, ReturnsTo, UntouchedStay DEF Ends
  <1> QED BY <1>1, <1>3, UntouchedStay, OthersAre

LEMMA FlushDoes ==
  ASSUME ConfigTypeInv, NEW p \in Proc, FlushStep(p), UNCHANGED <<cmdVars, stagingVars>>
  PROVE  Others(p) /\ Flushes(p)
  <1>1. /\ pc[p] \in Flushing /\ UNCHANGED mem /\ UNCHANGED behind
        /\ UNCHANGED <<dry, cmd, flush>> /\ SameFile
    BY FlushMoves DEF Flushing, cmdVars, stagingVars, SameFile
  <1>2. \/ \E label \in Flushing : Goto(p, label)
        \/ \E code \in FlushCodes : Return(p, code, "flushed")
    BY FlushMoves DEF Flushing
  <1>3. \/ pc'[p] \in Flushing /\ rc'[p] = rc[p]
        \/ pc'[p] = "flushed" /\ rc'[p] \in FlushCodes
    BY <1>2, GoesTo, ReturnsTo DEF Moves, Leaves
  <1>4. Rest(p)
    BY <1>2, GoesTo, ReturnsTo
  <1>5. Flushes(p)
    BY <1>1, <1>3, UntouchedStay DEF Flushes
  <1> QED BY <1>1, <1>4, <1>5, UntouchedStay, OthersAre

LEMMA CrashDoes == ASSUME ConfigTypeInv, NEW p \in Proc, Crash(p) PROVE Others(p) /\ Dies(p)
  <1>1. /\ pc[p] \notin {"idle", "done"} /\ UNCHANGED hwVars
        /\ Return(p, "OK", "idle") /\ Forget(p)
    BY DEF Crash, StagingCrash
  <1>2. \A o \in Proc \ {p} : SameCommand(o)
    BY ConfigTypes DEF Crash, StagingCrash, SameCommand
  <1>3. \/ SameFile
        \/ /\ pc[p] = "write" /\ "short" \in Faults
           /\ \E n \in 0..(Len(Pack(mem[p])) - 1) : WriteUnits(p, n)
    BY DEF Crash, StagingCrash, SameFile
  <1>4. Rest(p) /\ Dies(p)
    BY <1>1, <1>3, ReturnsTo, Forgets DEF Dies
  <1> QED BY <1>1, <1>2, <1>4, Forgets, OthersAre

LEMMA StepDoes == ASSUME ConfigTypeInv, NEW p \in Proc, ConfigStep(p) PROVE Others(p) /\ Does(p)
  BY InvokeDoes, StagingDoes, LoadedDoes, SavedDoes, SpiConfigureDoes, FlushDoes, FlushedDoes,
     CrashDoes DEF ConfigStep, Does

\* Between the steps of processes only the switch moves.
Nothing ==
    /\ UNCHANGED <<pc, rc, mem, dry, cmd, flush, behind, file, written>>
    /\ UNCHANGED <<running, load>> /\ ~SwitchTouched

LEMMA NextDoes ==
  ASSUME ConfigTypeInv, [ConfigNext]_configVars
  PROVE  Nothing \/ \E p \in Proc : ConfigStep(p) /\ Others(p) /\ Does(p)
  <1>1. CASE SwitchReady /\ UNCHANGED <<cmdVars, stagingVars>>
    BY <1>1 DEF SwitchReady, GetReady, toolVars, stagingVars, cmdVars, Nothing, SwitchTouched
  <1>2. CASE UNCHANGED configVars
    BY <1>2
    DEF configVars, vars, toolVars, hwVars, stagingVars, cmdVars, Nothing, SwitchTouched
  <1>3. ASSUME NEW p \in Proc, ConfigStep(p)
        PROVE  ConfigStep(p) /\ Others(p) /\ Does(p)
    BY <1>3, StepDoes
  <1> QED BY <1>1, <1>2, <1>3 DEF ConfigNext
-----------------------------------------------------------------------------
(***************************************************************************)
(* The file and what was last written to it.  Tame: no configuration that  *)
(* a command makes holds more entries than can be loaded again.            *)
(***************************************************************************)
Tame ==
    /\ \A c \in Commands : c.name \in {"default", "new"} => Fits(c.cfg)
    /\ \A c \in Commands :
         c.name = "modify" /\ c.edit.what = "entry-count" => FitsTable(c.edit.t, c.edit.n)
    /\ \A c \in Leftovers : Fits(c)

FitInv == \A p \in Proc : Fits(mem[p])

HeldInv == \A p \in Proc : pc[p] \in {"open", "write"} => mem[p].dev \in DeviceIds

Whole(data, c) ==
    /\ c.dev \in DeviceIds /\ Fits(c)
    /\ data # << >> => Begins(data, c) /\ Len(Pack(c)) <= Len(data)

WrittenInv == written.whole => Whole(file.data, written.cfg)

StoredInv == FitInv /\ HeldInv /\ WrittenInv

LEMMA BlankFits == Fits(Blank) /\ Blank \in Config /\ Blank.dev \notin DeviceIds
  <1>1. \A t \in Tables : Count(Blank, t) = 0
    BY DEF Blank, EmptyConfig, Count
  <1>2. \A t \in Tables : 0 <= MaxCount[t] + 1
    BY MaxCountAssumption
  <1>3. Blank.dev = NoDevice
    BY DEF Blank, EmptyConfig
  <1> QED BY <1>1, <1>2, <1>3, EmptyConfigType, NoDeviceIsNoId DEF Fits, FitsTable, Blank

LEMMA MadeFits ==
  ASSUME Tame, NEW c \in Commands, c.name \in Makes, NEW made \in Made(c)
  PROVE  Fits(made.cfg)
  <1>1. CASE c.name # "load"
    <2>1. made = [rc |-> "ok", cfg |-> c.cfg]
      BY <1>1 DEF Made
    <2>2. Fits(c.cfg)
      BY <1>1 DEF Tame, Makes
    <2> QED BY <2>1, <2>2
  <1>2. CASE c.name = "load" /\ c.xml \in DOMAIN XmlFiles
    <2>1. made = [rc |-> Parsed[c.xml].rc, cfg |-> Parsed[c.xml].cfg]
      BY <1>2 DEF Made, Imported
    <2>2. made.cfg = Parsed[c.xml].cfg
      BY <2>1
    <2> QED BY <1>2, <2>2, ParsedType
  <1>3. CASE c.name = "load" /\ c.xml \notin DOMAIN XmlFiles
    <2>1. made \in [rc : {"ok"}, cfg : Leftovers]
      BY <1>3 DEF Made, Imported
    <2> QED BY <2>1 DEF Tame
  <1> QED BY <1>1, <1>2, <1>3

LEMMA ApplyFits ==
  ASSUME Tame, NEW c \in Commands, c.name = "modify", NEW d \in Config, Fits(d),
         Applicable(d, c.edit)
  PROVE  Fits(Apply(d, c.edit))
  <1>1. PICK ed : ed = c.edit
    OBVIOUS
  <1>2. ed \in Edit /\ ed.t \in Tables
    BY <1>1, CommandType DEF Edit
  <1>3. /\ Count(Apply(d, ed), ed.t) = IF ed.what = "entry-count" THEN ed.n ELSE Count(d, ed.t)
        /\ \A u \in Tables \ {ed.t} : Count(Apply(d, ed), u) = Count(d, u)
    BY <1>1, <1>2, ApplyType
  <1>4. ed.what = "entry-count" => FitsTable(ed.t, ed.n)
    BY <1>1 DEF Tame
  <1>5. \A u \in Tables : FitsTable(u, Count(d, u))
    BY DEF Fits
  <1>6. ASSUME NEW u \in Tables PROVE FitsTable(u, Count(Apply(d, ed), u))
    BY <1>2, <1>3, <1>4, <1>5
  <1> QED BY <1>1, <1>6 DEF Fits

\* The mem of a process after its step.
LEMMA StepFits ==
  ASSUME Tame, ConfigTypeInv, NEW p \in Proc, Fits(mem[p]), Does(p)
  PROVE  Fits(mem'[p])
  <1>1. CASE Starts(p)
    BY <1>1, BlankFits, MadeFits DEF Starts
  <1>2. CASE Loading(p)
    <2>1. Buffer(p) \in Seq(Units)
      BY ConfigTypes, BufferOf
    <2> QED BY <1>2, <2>1, UnpackType DEF Loading
  <1>3. CASE Acts(p)
    <2>1. cmd[p] \in Commands /\ mem[p] \in Config
      BY ConfigTypes
    <2> QED BY <1>3, <2>1, ApplyFits DEF Acts, Name
  <1>4. CASE Dies(p)
    BY <1>4, BlankFits DEF Dies
  <1>5. CASE Opens(p) \/ Dumps(p) \/ Packs(p) \/ Truncates(p) \/ Stores(p)
             \/ Concludes(p) \/ Configures(p) \/ Flushes(p) \/ Ends(p)
    BY <1>5 DEF Opens, Dumps, Packs, Truncates, Stores, Concludes, Configures, Flushes, Ends
  <1> QED BY <1>1, <1>2, <1>3, <1>4, <1>5 DEF Does

LEMMA StepHeld ==
  ASSUME NEW p \in Proc, pc[p] \in {"open", "write"} => mem[p].dev \in DeviceIds, Does(p)
  PROVE  pc'[p] \in {"open", "write"} => mem'[p].dev \in DeviceIds
  <1> USE DEF Moves, Leaves
  <1>1. CASE Starts(p)
    BY <1>1 DEF Starts
  <1>2. CASE Opens(p) \/ Loading(p) \/ Dumps(p) \/ Acts(p)
    BY <1>2 DEF Opens, Loading, Dumps, Acts
  <1>3. CASE Packs(p) \/ Truncates(p) \/ Stores(p) \/ Concludes(p) \/ Configures(p)
    BY <1>3 DEF Packs, Truncates, Stores, Concludes, Configures
  <1>4. CASE Flushes(p) \/ Ends(p) \/ Dies(p)
    BY <1>4 DEF Flushes, Flushing, Ends, Dies
  <1> QED BY <1>1, <1>2, <1>3, <1>4 DEF Does

\* A step that touches the file truncates it, or writes all or some of what is held.
LEMMA FileAfter ==
  ASSUME NEW p \in Proc, Does(p)
  PROVE  \/ SameFile
         \/ pc[p] = "open" /\ file' = Holding(<< >>) /\ written' = written
         \/ pc[p] = "write" /\ WriteUnits(p, Len(Pack(mem[p])))
         \/ /\ pc[p] = "write" /\ "short" \in Faults
            /\ \E n \in 0..(Len(Pack(mem[p])) - 1) : WriteUnits(p, n)
  BY DEF Does, Starts, Opens, Loading, Dumps, Packs, Truncates, Stores, Acts, Concludes,
         Configures, Flushes, Ends, Dies, SameFile

LEMMA WrittenNow ==
  ASSUME ConfigTypeInv, FitInv, HeldInv, NEW p \in Proc, pc[p] = "write",
         NEW n \in 0..Len(Pack(mem[p])), WriteUnits(p, n)
  PROVE  /\ WrittenInv'
         /\ written'.cfg = mem[p]
         /\ n = Len(Pack(mem[p])) \/ file.data = << >> => Begins(file'.data, mem[p])
         /\ n = Len(Pack(mem[p])) => written'.whole /\ file'.data # << >> /\ file'.exists
  <1>1. PICK c \in Config, data \in Seq(Units) : c = mem[p] /\ data = file.data
    BY ConfigTypes DEF FileType
  <1>2. n \in Nat /\ Len(Pack(c)) \in Nat /\ Len(Pack(c)) >= 2
    <2>1. Len(Pack(c)) \in Nat /\ Len(Pack(c)) >= 2
      BY <1>1, PackLength, PackedPlaces
    <2>2. n \in 0..Len(Pack(c))
      BY <1>1
    <2> QED BY <2>1, <2>2
  <1>3. /\ file' \in FileType /\ file'.exists
        /\ written'.cfg = c /\ (written'.whole <=> n = Len(Pack(c)))
        /\ n = Len(Pack(c)) \/ data = << >> => Begins(file'.data, c)
        /\ n = Len(Pack(c)) => Len(Pack(c)) <= Len(file'.data)
    BY <1>1, <1>2, WriteOf
  <1>4. Len(file'.data) \in Nat /\ (file'.data = << >> => Len(file'.data) = 0)
    BY <1>3 DEF FileType
  <1>5. c.dev \in DeviceIds /\ Fits(c)
    BY <1>1 DEF FitInv, HeldInv
  <1>6. WrittenInv'
    BY <1>3, <1>5 DEF WrittenInv, Whole
  <1> QED BY <1>1, <1>2, <1>3, <1>4, <1>6

LEMMA StoredInit == Tame /\ ConfigInit => StoredInv
  <1> SUFFICES ASSUME ConfigInit PROVE StoredInv
    OBVIOUS
  <1>1. mem = [p \in Proc |-> Blank] /\ pc = [p \in Proc |-> "idle"] /\ ~written.whole
    BY DEF ConfigInit, Init, StagingInit, NeverWritten, Blank
  <1> QED BY <1>1, BlankFits DEF StoredInv, FitInv, HeldInv, WrittenInv

LEMMA StoredStep == Tame /\ ConfigTypeInv /\ StoredInv /\ [ConfigNext]_configVars => StoredInv'
  <1> SUFFICES ASSUME Tame, ConfigTypeInv, StoredInv, [ConfigNext]_configVars PROVE StoredInv'
    OBVIOUS
  <1>1. CASE Nothing
    BY <1>1 DEF Nothing, StoredInv, FitInv, HeldInv, WrittenInv
  <1>2. ASSUME NEW p \in Proc, ConfigStep(p), Others(p), Does(p) PROVE StoredInv'
    <2>1. FitInv'
      <3>1. Fits(mem'[p])
        BY <1>2, StepFits DEF StoredInv, FitInv
      <3> QED BY <1>2, <3>1 DEF StoredInv, FitInv, Others
    <2>2. HeldInv'
      <3>1. pc'[p] \in {"open", "write"} => mem'[p].dev \in DeviceIds
        BY <1>2, StepHeld DEF StoredInv, HeldInv
      <3> QED BY <1>2, <3>1 DEF StoredInv, HeldInv, Others
    <2>3. WrittenInv'
      <3>1. CASE SameFile
        BY <3>1 DEF SameFile, StoredInv, WrittenInv
      <3>2. CASE file' = Holding(<< >>) /\ written' = written
        BY <3>2, EmptyIsSequence, HoldingType DEF StoredInv, WrittenInv, Whole
      <3>3. CASE pc[p] = "write" /\ \E n \in 0..Len(Pack(mem[p])) : WriteUnits(p, n)
        BY <3>3, WrittenNow DEF StoredInv
      <3>4. Len(Pack(mem[p])) \in Nat
        BY ConfigTypes, PackLength
      <3>5. /\ Len(Pack(mem[p])) \in 0..Len(Pack(mem[p]))
            /\ 0..(Len(Pack(mem[p])) - 1) \subseteq 0..Len(Pack(mem[p]))
        BY <3>4
      <3> QED BY <1>2, <3>1, <3>2, <3>3, <3>5, FileAfter
    <2> QED BY <2>1, <2>2, <2>3 DEF StoredInv
  <1> QED BY <1>1, <1>2, NextDoes

LEMMA WrittenIsHeld ==
  ASSUME ConfigTypeInv, StoredInv, written.whole, file.data # << >>
  PROVE  FileHolds(written.cfg)
  <1>1. PICK c \in Config, buf \in Seq(Units) : c = written.cfg /\ buf = file.data
    BY ConfigTypes DEF FileType, Writing
  <1>2. Whole(buf, c) /\ file.exists
    BY <1>1, ConfigTypes DEF StoredInv, WrittenInv
  <1>3. Unpack(buf) = [may_fail |-> FALSE, configs |-> {c}]
    BY <1>1, <1>2, WholeLoad DEF Whole
  <1> QED BY <1>1, <1>2, <1>3 DEF FileHolds

(***************************************************************************)
(* A file the last save wrote in full loads as the configuration that was  *)
(* saved: any number of processes, any fault. Only configurations within   *)
(* the fixed arrays are used (Tame): beyond them static_config_add_entry   *)
(* writes behind the array and what is packed is not bound to come back.   *)
(***************************************************************************)
THEOREM LastWriteIsLoaded == ASSUME Tame PROVE ConfigSpec => []QuiescentFileIsLastWrite
  <1>1. ConfigInit => ConfigTypeInv /\ StoredInv
    BY ConfigTypeInit, StoredInit
  <1>2. ConfigTypeInv /\ StoredInv /\ [ConfigNext]_configVars => ConfigTypeInv' /\ StoredInv'
    BY ConfigTypeStep, StoredStep
  <1>3. ConfigTypeInv /\ StoredInv => QuiescentFileIsLastWrite
    BY WrittenIsHeld DEF QuiescentFileIsLastWrite
  <1> QED BY <1>1, <1>2, <1>3, PTL DEF ConfigSpec
-----------------------------------------------------------------------------
(***************************************************************************)
(* What a file that was cut short holds is a beginning of what was saved:  *)
(* without short writes however many processes there are, with them for    *)
(* one process, whose file is empty when it writes.                        *)
(***************************************************************************)
InTurn == "short" \notin Faults \/ \E q : Proc = {q}

PrefixInv ==
    /\ Begins(file.data, written.cfg)
    /\ "short" \in Faults => \A p \in Proc : pc[p] = "write" => file.data = << >>

FaithfulInv == PrefixInv /\ ValidLoadIsFaithful

LEMMA NothingBegins == ASSUME NEW c \in Config PROVE Begins(<< >>, c)
  <1>1. Len(Pack(c)) \in Nat
    BY PackLength
  <1> QED BY <1>1 DEF Begins

LEMMA FaithfulInit == ConfigInit => FaithfulInv
  <1> SUFFICES ASSUME ConfigInit PROVE FaithfulInv
    OBVIOUS
  <1>1. pc = [p \in Proc |-> "idle"] /\ file.data = << >> /\ written.cfg = EmptyConfig(NoDevice)
    BY DEF ConfigInit, Init, StagingInit, Absent, NeverWritten
  <1> QED BY <1>1, NothingBegins, EmptyConfigType DEF FaithfulInv, PrefixInv, ValidLoadIsFaithful

\* Where a step of p leaves p.
LEMMA WriteFollowsOpen ==
  ASSUME NEW p \in Proc, Does(p)
  PROVE  /\ pc'[p] = "write" => Truncates(p) /\ file' = Holding(<< >>)
         /\ pc'[p] = "loaded" => Loading(p) /\ mem'[p] \in Unpack(Buffer(p)).configs
                                 /\ behind'[p] = written
  <1> USE DEF Moves, Leaves
  <1>1. CASE Starts(p) \/ Opens(p) \/ Dumps(p) \/ Packs(p) \/ Stores(p)
    BY <1>1 DEF Starts, Opens, Dumps, Packs, Stores
  <1>2. CASE Loading(p) \/ Truncates(p)
    BY <1>2 DEF Loading, Truncates
  <1>3. CASE Acts(p) \/ Concludes(p) \/ Configures(p)
    BY <1>3 DEF Acts, Concludes, Configures
  <1>4. CASE Flushes(p) \/ Ends(p) \/ Dies(p)
    BY <1>4 DEF Flushes, Flushing, Ends, Dies
  <1> QED BY <1>1, <1>2, <1>3, <1>4 DEF Does

LEMMA PrefixStep ==
  ASSUME InTurn, ConfigTypeInv, PrefixInv, NEW p \in Proc, Others(p), Does(p)
  PROVE  PrefixInv'
  <1>0. Len(Pack(mem[p])) \in Nat /\ mem[p] \in Config /\ written.cfg \in Config /\ file.data \in Seq(Units)
    BY ConfigTypes, PackLength DEF Writing, FileType
  <1>1. Begins(file'.data, written'.cfg)
    <2>1. CASE SameFile
      BY <2>1 DEF SameFile, PrefixInv
    <2>2. CASE file' = Holding(<< >>) /\ written' = written
      <3>1. file'.data = << >>
        BY <2>2, EmptyIsSequence, HoldingType
      <3> QED BY <1>0, <2>2, <3>1, NothingBegins
    <2>3. ASSUME pc[p] = "write", NEW n \in 0..Len(Pack(mem[p])), WriteUnits(p, n),
                 n = Len(Pack(mem[p])) \/ file.data = << >>
          PROVE  Begins(file'.data, written'.cfg)
      <3>1. n \in Nat
        BY <1>0
      <3>2. PICK c \in Config, data \in Seq(Units) : c = mem[p] /\ data = file.data
        BY <1>0
      <3> QED BY <2>3, <3>1, <3>2, WriteOf
    <2>4. "short" \in Faults /\ pc[p] = "write" => file.data = << >>
      BY DEF PrefixInv
    <2>5. /\ Len(Pack(mem[p])) \in 0..Len(Pack(mem[p]))
          /\ 0..(Len(Pack(mem[p])) - 1) \subseteq 0..Len(Pack(mem[p]))
      BY <1>0
    <2> QED BY <2>1, <2>2, <2>3, <2>4, <2>5, FileAfter
  <1>2. ASSUME "short" \in Faults, NEW o \in Proc, pc'[o] = "write"
        PROVE  file'.data = << >>
    <2>1. o = p
      BY <1>2 DEF InTurn
    <2> QED BY <1>2, <2>1, WriteFollowsOpen, EmptyIsSequence, HoldingType
  <1> QED BY <1>1, <1>2 DEF PrefixInv

\* A buffer is a beginning of the file, and so of what was last written.
LEMMA LoadingIsFaithful ==
  ASSUME ConfigTypeInv, PrefixInv, NEW p \in Proc, NEW c \in Unpack(Buffer(p)).configs,
         CheckValid(c)
  PROVE  SameButSgmii(c, written.cfg)
  <1>1. PICK w \in Config : w = written.cfg
    BY ConfigTypes DEF Writing
  <1>2. PICK buf \in Seq(Units) : /\ buf = Buffer(p)
                                  /\ \A i \in 1..Len(buf) : buf[i] = file.data[i]
                                  /\ Len(buf) <= Len(file.data)
    BY ConfigTypes, BufferOf
  <1>3. Len(buf) \in Nat /\ Len(file.data) \in Nat /\ Len(Pack(w)) \in Nat
    BY ConfigTypes, PackLength DEF FileType
  <1>4. Begins(buf, w)
    BY <1>1, <1>2, <1>3 DEF PrefixInv, Begins
  <1>5. c.dev = w.dev /\ \A t \in Tables \ {"sgmii"} : c.tab[t] = w.tab[t]
    BY <1>2, <1>4, CutLoad
  <1> QED BY <1>1, <1>5 DEF SameButSgmii

LEMMA FaithfulStep ==
  InTurn /\ ConfigTypeInv /\ FaithfulInv /\ [ConfigNext]_configVars => FaithfulInv'
  <1> SUFFICES ASSUME InTurn, ConfigTypeInv, FaithfulInv, [ConfigNext]_configVars
               PROVE  FaithfulInv'
    OBVIOUS
  <1>1. CASE Nothing
    BY <1>1 DEF Nothing, FaithfulInv, PrefixInv, ValidLoadIsFaithful
  <1>2. ASSUME NEW p \in Proc, ConfigStep(p), Others(p), Does(p) PROVE FaithfulInv'
    <2>1. PrefixInv'
      BY <1>2, PrefixStep DEF FaithfulInv
    <2>2. ASSUME NEW o \in Proc, pc'[o] = "loaded", CheckValid(mem'[o])
          PROVE  SameButSgmii(mem'[o], behind'[o].cfg)
      <3>1. CASE o = p
        BY <1>2, <2>2, <3>1, WriteFollowsOpen, LoadingIsFaithful DEF FaithfulInv
      <3>2. CASE o # p
        BY <1>2, <2>2, <3>2 DEF FaithfulInv, ValidLoadIsFaithful, Others
      <3> QED BY <3>1, <3>2
    <2> QED BY <2>1, <2>2 DEF FaithfulInv, ValidLoadIsFaithful
  <1> QED BY <1>1, <1>2, NextDoes

(***************************************************************************)
(* A load that finds a valid configuration finds the last one saved, but   *)
(* for SGMII: check_valid refuses every file cut short before xmii_params. *)
(* Without short writes for any number of processes; with them for one     *)
(* process, because two writers may leave a file that begins as one        *)
(* configuration and ends as another.                                      *)
(***************************************************************************)
THEOREM ValidLoadsAreFaithful == ASSUME InTurn PROVE ConfigSpec => []ValidLoadIsFaithful
  <1>1. ConfigInit => ConfigTypeInv /\ FaithfulInv
    BY ConfigTypeInit, FaithfulInit
  <1>2. ConfigTypeInv /\ FaithfulInv /\ [ConfigNext]_configVars => ConfigTypeInv' /\ FaithfulInv'
    BY ConfigTypeStep, FaithfulStep
  <1>3. FaithfulInv => ValidLoadIsFaithful
    BY DEF FaithfulInv
  <1> QED BY <1>1, <1>2, <1>3, PTL DEF ConfigSpec
-----------------------------------------------------------------------------
(***************************************************************************)
(* One command at a time.                                                  *)
(***************************************************************************)
OnItsWay == {"configure"} \cup FlushLabels

SavedOf(p) ==
    /\ pc[p] = "saved" /\ rc[p] = "OK" => FileHolds(mem[p])
    /\ pc[p] \in OnItsWay => Name(p) \in TakeFlush \cup {"upload"}
    /\ pc[p] \in OnItsWay /\ Name(p) \in Writes => FileHolds(mem[p])
    /\ pc[p] # "done" => rc[p] \notin Dirty
    /\ pc[p] = "done" /\ rc[p] = "OK" /\ Name(p) \in Writes => FileHolds(mem[p])
    /\ pc[p] = "done" /\ rc[p] \in Dirty => FileHolds(mem[p])

SavedInv == \A p \in Proc : SavedOf(p)

LEMMA SavedMeans == SavedInv => OkMeansSaved /\ DirtyMeansWritten
  BY DEF SavedInv, SavedOf, OkMeansSaved, DirtyMeansWritten, Done

LEMMA SavedInit == ConfigInit => SavedInv
  <1> SUFFICES ASSUME ConfigInit PROVE SavedInv
    OBVIOUS
  <1>1. pc = [p \in Proc |-> "idle"] /\ rc = [p \in Proc |-> "OK"]
    BY DEF ConfigInit, Init
  <1> QED BY <1>1 DEF SavedInv, SavedOf, OnItsWay, FlushLabels, Dirty

\* The file and what is held of it stay.
StillHeld(p) == SameFile /\ mem'[p] = mem[p]

LEMMA StillHolds ==
  ASSUME NEW p, StillHeld(p), FileHolds(mem[p]) PROVE FileHolds(mem[p])'
  BY DEF StillHeld, SameFile, FileHolds

LEMMA WrittenHolds ==
  ASSUME ConfigTypeInv, ConfigTypeInv', StoredInv, StoredInv', NEW p \in Proc, pc[p] = "write",
         WriteUnits(p, Len(Pack(mem[p]))), mem'[p] = mem[p]
  PROVE  FileHolds(mem[p])'
  <1>1. Len(Pack(mem[p])) \in Nat
    BY ConfigTypes, PackLength
  <1>2. Len(Pack(mem[p])) \in 0..Len(Pack(mem[p]))
    BY <1>1
  <1>3. WrittenInv' /\ written'.cfg = mem[p] /\ written'.whole /\ file'.data # << >> /\ file'.exists
    BY <1>2, WrittenNow DEF StoredInv
  <1>4. PICK c \in Config, buf \in Seq(Units) : c = mem[p] /\ buf = file'.data
    BY ConfigTypes DEF ConfigTypeInv
  <1>5. Whole(buf, c)
    BY <1>3, <1>4 DEF WrittenInv
  <1>6. Unpack(buf) = [may_fail |-> FALSE, configs |-> {c}]
    BY <1>3, <1>4, <1>5, WholeLoad DEF Whole
  <1> QED BY <1>3, <1>4, <1>6 DEF FileHolds

LEMMA SavedTurn ==
  ASSUME "malloc" \notin Faults, ConfigTypeInv, ConfigTypeInv', StoredInv, StoredInv',
         NEW p \in Proc, SavedOf(p), Does(p)
  PROVE  SavedOf(p)'
  <1> USE DEF Moves, Leaves, SavedOf, OnItsWay, FlushLabels, Dirty
  <1>1. CASE Starts(p)
    BY <1>1 DEF Starts, Name, Makes, Writes
  <1>2. CASE Opens(p)
    BY <1>2 DEF Opens
  <1>3. CASE Loading(p)
    BY <1>3 DEF Loading
  <1>4. CASE Dumps(p)
    BY <1>4 DEF Dumps
  <1>5. CASE Packs(p)
    BY <1>5 DEF Packs
  <1>6. CASE Truncates(p)
    BY <1>6 DEF Truncates
  <1>7. CASE Stores(p)
    <2>1. rc'[p] = "OK" => FileHolds(mem[p])'
      BY <1>7, WrittenHolds DEF Stores
    <2> QED BY <1>7, <2>1 DEF Stores
  <1>8. CASE Acts(p)
    BY <1>8 DEF Acts, Name, Writes, Makes, SameCommand
  <1>9. CASE Dies(p)
    BY <1>9 DEF Dies
  <1>10. CASE Concludes(p) \/ Configures(p) \/ Flushes(p) \/ Ends(p)
    <2>1. StillHeld(p) /\ Name(p)' = Name(p)
      BY <1>10 DEF Concludes, Configures, Flushes, Ends, StillHeld, Name, SameCommand
    <2>2. FileHolds(mem[p]) => FileHolds(mem[p])'
      BY <2>1, StillHolds
    <2>3. CASE Concludes(p)
      BY <2>1, <2>2, <2>3 DEF Concludes
    <2>4. CASE Configures(p)
      BY <2>1, <2>2, <2>4 DEF Configures, NotRespondingCode, TakeFlush, Writes, Makes
    <2>5. CASE Flushes(p)
      BY <2>1, <2>2, <2>5 DEF Flushes, Flushing, FlushCodes
    <2>6. CASE Ends(p)
      BY <2>1, <2>2, <2>6 DEF Ends, TakeFlush, Writes, Makes
    <2> QED BY <1>10, <2>3, <2>4, <2>5, <2>6
  <1> QED BY <1>1, <1>2, <1>3, <1>4, <1>5, <1>6, <1>7, <1>8, <1>9, <1>10 DEF Does
-----------------------------------------------------------------------------
ConfigInv == ConfigTypeInv /\ StoredInv /\ SavedInv

LEMMA ConfigInvInit == Tame /\ ConfigInit => ConfigInv
  BY ConfigTypeInit, StoredInit, SavedInit DEF ConfigInv

LEMMA ConfigInvStep ==
  ASSUME NEW q, Proc = {q}, "malloc" \notin Faults, Tame
  PROVE  ConfigInv /\ [ConfigNext]_configVars => ConfigInv'
  <1> SUFFICES ASSUME ConfigInv, [ConfigNext]_configVars PROVE ConfigInv'
    OBVIOUS
  <1>1. ConfigTypeInv /\ StoredInv /\ SavedInv /\ ConfigTypeInv' /\ StoredInv'
    BY ConfigTypeStep, StoredStep DEF ConfigInv
  <1>2. CASE Nothing
    BY <1>1, <1>2 DEF Nothing, ConfigInv, SavedInv, SavedOf, FileHolds, Name
  <1>3. ASSUME NEW p \in Proc, Does(p) PROVE ConfigInv'
    <2>1. SavedOf(p)'
      BY <1>1, <1>3, SavedTurn DEF SavedInv
    <2>2. \A o \in Proc : o = p
      OBVIOUS
    <2>3. SavedInv'
      BY <2>1, <2>2 DEF SavedInv
    <2> QED BY <1>1, <2>3 DEF ConfigInv
  <1> QED BY <1>1, <1>2, <1>3, NextDoes

(***************************************************************************)
(* One command at a time, with no allocation failing: a command that       *)
(* returns 0 and had to write has left its configuration in the file.      *)
(***************************************************************************)
THEOREM OkMeansItIsSaved ==
  ASSUME NEW q, Proc = {q}, "malloc" \notin Faults, Tame
  PROVE  ConfigSpec => []OkMeansSaved
  <1>1. ConfigInv => OkMeansSaved
    BY SavedMeans DEF ConfigInv
  <1> QED BY <1>1, ConfigInvInit, ConfigInvStep, PTL DEF ConfigSpec

(***************************************************************************)
(* And a command that says the switch lags behind the file tells the       *)
(* truth: the file holds the configuration the switch does not run.        *)
(***************************************************************************)
THEOREM DirtyMeansItIsWritten ==
  ASSUME NEW q, Proc = {q}, "malloc" \notin Faults, Tame
  PROVE  ConfigSpec => []DirtyMeansWritten
  <1>1. ConfigInv => DirtyMeansWritten
    BY SavedMeans DEF ConfigInv
  <1> QED BY <1>1, ConfigInvInit, ConfigInvStep, PTL DEF ConfigSpec
-----------------------------------------------------------------------------
\* What a command that flushed and returned 0 has left running.
AgreedOf(p) ==
    /\ pc[p] = "done" /\ rc[p] = "OK" /\ ~dry[p] /\ Name(p) \in TakeFlush /\ flush[p] =>
         running = mem[p]

AgreedInv == SoleInv /\ \A p \in Proc : AgreedOf(p)

LEMMA AgreedTurn ==
  ASSUME NEW q, Proc = {q}, ConfigTypeInv, AgreedInv, NEW p \in Proc, Does(p)
  PROVE  AgreedInv'
  <1>0. \A o \in Proc : o = p
    OBVIOUS
  <1>1. CASE Flushes(p)
    <2>1. SoleInv'
      BY <1>1, SoleFlush, ConfigTypes DEF Flushes, AgreedInv
    <2>2. AgreedOf(p)'
      BY <1>1 DEF Flushes, Flushing, AgreedOf
    <2> QED BY <1>0, <2>1, <2>2 DEF AgreedInv
  <1>2. ASSUME UNCHANGED hwVars, pc'[p] \notin {"poll", "upload", "clock", "verify", "flushed"},
               AgreedOf(p)'
        PROVE  AgreedInv'
    BY <1>0, <1>2 DEF AgreedInv, SoleInv, RunsOwn, AfterReset, OkMeansRunning, Succeeded
  <1>3. CASE Ends(p)
    <2>1. rc[p] = "OK" /\ ~dry[p] => running = mem[p]
      BY <1>3 DEF Ends, AgreedInv, SoleInv, OkMeansRunning, Succeeded
    <2>2. AgreedOf(p)'
      BY <1>3, <2>1 DEF Ends, Moves, Leaves, AgreedOf, SameCommand, Name, TakeFlush, hwVars
    <2> QED BY <1>2, <1>3, <2>2 DEF Ends, Moves, Leaves
  <1> USE DEF Moves, Leaves, AgreedOf
  <1>4. CASE Concludes(p)
    <2>1. AgreedOf(p)'
      BY <1>4 DEF Concludes, SameCommand, Name
    <2> QED BY <1>2, <1>4, <2>1 DEF Concludes
  <1>5. CASE Acts(p)
    <2>1. AgreedOf(p)'
      BY <1>5 DEF Acts, SameCommand, Name, TakeFlush
    <2> QED BY <1>2, <1>5, <2>1 DEF Acts
  <1>6. CASE Starts(p)
    BY <1>2, <1>6 DEF Starts
  <1>7. CASE Opens(p) \/ Loading(p) \/ Dumps(p)
    BY <1>2, <1>7 DEF Opens, Loading, Dumps
  <1>8. CASE Packs(p) \/ Truncates(p) \/ Stores(p)
    BY <1>2, <1>8 DEF Packs, Truncates, Stores
  <1>9. CASE Configures(p)
    BY <1>2, <1>9 DEF Configures, NotRespondingCode
  <1>10. CASE Dies(p)
    BY <1>2, <1>10 DEF Dies
  <1> QED BY <1>1, <1>3, <1>4, <1>5, <1>6, <1>7, <1>8, <1>9, <1>10 DEF Does

LEMMA AgreedStep ==
  ASSUME NEW q, Proc = {q}
  PROVE  ConfigTypeInv /\ AgreedInv /\ [ConfigNext]_configVars => AgreedInv'
  <1> SUFFICES ASSUME ConfigTypeInv, AgreedInv, [ConfigNext]_configVars PROVE AgreedInv'
    OBVIOUS
  <1>1. CASE Nothing
    BY <1>1 DEF Nothing, AgreedInv, SoleInv, RunsOwn, AfterReset, OkMeansRunning, Succeeded,
                AgreedOf, Name
  <1> QED BY <1>1, NextDoes, AgreedTurn

(***************************************************************************)
(* One command at a time, with no allocation failing: a command that       *)
(* returns 0 and had to flush leaves file, staging area and switch with    *)
(* the same configuration.                                                 *)
(***************************************************************************)
THEOREM OkMeansAgreement ==
  ASSUME NEW q, Proc = {q}, "malloc" \notin Faults, Tame
  PROVE  ConfigSpec => []OkMeansAgreed
  <1>1. ConfigInit => ConfigInv /\ AgreedInv
    <2>1. ConfigInit => AgreedInv
      BY DEF ConfigInit, Init, AgreedInv, SoleInv, RunsOwn, AfterReset, OkMeansRunning, Succeeded,
             AgreedOf
    <2> QED BY <2>1, ConfigInvInit
  <1>2. ConfigInv /\ AgreedInv /\ [ConfigNext]_configVars => ConfigInv' /\ AgreedInv'
    BY ConfigInvStep, AgreedStep DEF ConfigInv
  <1>3. ConfigInv /\ AgreedInv => OkMeansAgreed
    <2>1. TakeFlush \subseteq Writes
      BY DEF TakeFlush, Writes, Makes
    <2> QED BY <2>1, SavedMeans DEF ConfigInv, AgreedInv, AgreedOf, OkMeansAgreed, OkMeansSaved, Done
  <1> QED BY <1>1, <1>2, <1>3, PTL DEF ConfigSpec
-----------------------------------------------------------------------------
(***************************************************************************)
(* Whoever is on the way to the switch was asked to go there.              *)
(***************************************************************************)
AskedOf(p) ==
    /\ pc[p] # "idle" => WithSettings(p)
    /\ pc[p] \in OnItsWay => Name(p) = "upload" \/ (Name(p) \in TakeFlush /\ flush[p])

AskedInv == \A p \in Proc : AskedOf(p)

LEMMA AskedInit == ConfigInit => AskedInv
  BY DEF ConfigInit, Init, AskedInv, AskedOf, OnItsWay, FlushLabels

LEMMA SettingsStay ==
  ASSUME NEW p, SameCommand(p), WithSettings(p) PROVE WithSettings(p)'
  BY DEF SameCommand, WithSettings

LEMMA AskedTurn ==
  ASSUME NEW p \in Proc, AskedOf(p), Does(p) PROVE AskedOf(p)'
  <1> USE DEF Moves, Leaves, OnItsWay, FlushLabels
  <1>1. CASE Starts(p)
    BY <1>1 DEF Starts, AskedOf
  <1>2. CASE Dies(p)
    BY <1>2 DEF Dies, AskedOf
  <1>3. ASSUME SameCommand(p), pc[p] # "idle",
               pc'[p] \in OnItsWay =>
                 \/ pc[p] \in OnItsWay
                 \/ Name(p) = "upload" \/ (Name(p) \in TakeFlush /\ flush[p])
        PROVE  AskedOf(p)'
    <2>1. WithSettings(p)'
      BY <1>3, SettingsStay DEF AskedOf
    <2> QED BY <1>3, <2>1 DEF AskedOf, SameCommand, Name
  <1>4. CASE Opens(p) \/ Loading(p) \/ Dumps(p)
    BY <1>3, <1>4 DEF Opens, Loading, Dumps
  <1>5. CASE Packs(p) \/ Truncates(p) \/ Stores(p)
    BY <1>3, <1>5 DEF Packs, Truncates, Stores
  <1>6. CASE Acts(p)
    BY <1>3, <1>6 DEF Acts
  <1>8. CASE Concludes(p)
    BY <1>3, <1>8 DEF Concludes
  <1>7. CASE Configures(p) \/ Flushes(p) \/ Ends(p)
    BY <1>3, <1>7 DEF Configures, Flushes, Flushing, Ends
  <1> QED BY <1>1, <1>2, <1>4, <1>5, <1>6, <1>7, <1>8 DEF Does

LEMMA AskedStep == ConfigTypeInv /\ AskedInv /\ [ConfigNext]_configVars => AskedInv'
  <1> SUFFICES ASSUME ConfigTypeInv, AskedInv, [ConfigNext]_configVars PROVE AskedInv'
    OBVIOUS
  <1>1. CASE Nothing
    BY <1>1 DEF Nothing, AskedInv, AskedOf, WithSettings, Name
  <1>2. ASSUME NEW p \in Proc, Others(p), Does(p) PROVE AskedInv'
    <2>1. AskedOf(p)'
      BY <1>2, AskedTurn DEF AskedInv
    <2>2. ASSUME NEW o \in Proc \ {p} PROVE AskedOf(o)'
      BY <1>2, <2>2 DEF Others, AskedInv, AskedOf, WithSettings, Name
    <2> QED BY <2>1, <2>2 DEF AskedInv
  <1> QED BY <1>1, <1>2, NextDoes

LEMMA DrySendsNothing == ASSUME NEW p \in Proc, dry[p], FlushStep(p) PROVE UNCHANGED hwVars
  BY DEF FlushStep, FlushCheckValid, InhibitTx, ColdReset, PollBusy, UploadRefused, UploadChunk,
         ClockingSetup, VerifyStatus, Transfer

Indexed == idx \in [Proc -> Nat]

LEMMA IndexedInit == ConfigInit => Indexed
  BY DEF ConfigInit, Init, Indexed

LEMMA IndexedStep == Indexed /\ [ConfigNext]_configVars => Indexed'
  <1> USE DEF Indexed
  <1> SUFFICES ASSUME Indexed, [ConfigNext]_configVars PROVE Indexed'
    OBVIOUS
  <1>1. CASE UNCHANGED configVars \/ SwitchReady
    BY <1>1 DEF configVars, vars, flushVars, SwitchReady
  <1>2. ASSUME NEW p \in Proc, FlushStep(p) PROVE Indexed'
    <2>1. \/ idx' = idx
          \/ idx' = [idx EXCEPT ![p] = 0] \/ idx' = [idx EXCEPT ![p] = 1]
          \/ idx' = [idx EXCEPT ![p] = @ + 1]
      BY <1>2 DEF FlushStep, FlushCheckValid, InhibitTx, ColdReset, PollBusy, UploadRefused,
                  UploadChunk, ClockingSetup, NextPort, VerifyStatus, flushVars
    <2> QED BY <2>1
  <1>3. ASSUME NEW p \in Proc, Invoke(p) \/ Crash(p) PROVE Indexed'
    <2>1. idx' = [idx EXCEPT ![p] = 0]
      BY <1>3 DEF Invoke, Crash, ForgetFlush
    <2> QED BY <2>1
  <1>4. ASSUME NEW p \in Proc,
               \/ StagingStep(p) /\ UNCHANGED <<cmdVars, hwVars, flushVars>>
               \/ Loaded(p) \/ Saved(p) \/ SpiConfigure(p) \/ Flushed(p)
        PROVE  Indexed'
    <2>1. idx' = idx
      BY <1>4 DEF Loaded, Saved, SpiConfigure, Flushed, flushVars
    <2> QED BY <2>1
  <1> QED BY <1>1, <1>2, <1>3, <1>4 DEF ConfigNext, ConfigStep

\* A step of a flush that sends something is seen in where p is.
LEMMA SendingMoves ==
  ASSUME ConfigTypeInv, Indexed, NEW p \in Proc, FlushStep(p), ~UNCHANGED hwVars
  PROVE  Moved(p)
  <1> USE DEF Goto, Return, Fail, Indexed
  <1>0. DOMAIN pc = Proc /\ pc \in [Proc -> {pc[i] : i \in Proc}]
    BY DEF ConfigTypeInv, ConfigTypeOK
  <1>1. CASE InhibitTx(p)
    <2>1. pc[p] = "inhibit" /\ pc'[p] \in {"flushed", "reset"}
      BY <1>0, <1>1 DEF InhibitTx
    <2> QED BY <2>1 DEF Moved
  <1>2. CASE ColdReset(p)
    <2>1. pc[p] = "reset" /\ pc'[p] \in {"flushed", "poll", "upload"}
      BY <1>0, <1>2 DEF ColdReset
    <2> QED BY <2>1 DEF Moved
  <1>3. CASE UploadChunk(p)
    <2>1. /\ pc[p] = "upload"
          /\ pc'[p] \in {"flushed", "clock"} \/ idx' = [idx EXCEPT ![p] = @ + 1]
      BY <1>0, <1>3 DEF UploadChunk
    <2> QED BY <2>1 DEF Moved
  <1>4. CASE ClockingSetup(p)
    <2>1. /\ pc[p] = "clock"
          /\ pc'[p] \in {"flushed", "verify"} \/ idx' = [idx EXCEPT ![p] = @ + 1]
      BY <1>0, <1>4 DEF ClockingSetup, NextPort
    <2> QED BY <2>1 DEF Moved
  <1>5. CASE FlushCheckValid(p) \/ PollBusy(p) \/ UploadRefused(p) \/ VerifyStatus(p)
    BY <1>5 DEF FlushCheckValid, PollBusy, UploadRefused, VerifyStatus
  <1> QED BY <1>1, <1>2, <1>3, <1>4, <1>5 DEF FlushStep

\* What was asked for is what the configuration file says.
LEMMA AskedToFlush ==
  ASSUME ConfigTypeInv, AskedInv, NEW p \in Proc, pc[p] \in OnItsWay, ~dry[p] PROVE Asked(p)
  <1>1. WithSettings(p) /\ (Name(p) = "upload" \/ (Name(p) \in TakeFlush /\ flush[p]))
    BY DEF AskedInv, AskedOf, OnItsWay, FlushLabels
  <1>2. ASSUME cmd[p].conf \in DOMAIN ConfFiles
        PROVE  /\ ~Says(ConfFiles[cmd[p].conf], "dry_run", "true")
               /\ \/ Name(p) = "upload" \/ cmd[p].flush
                  \/ Says(ConfFiles[cmd[p].conf], "auto_flush", "true")
    <2>1. PICK s \in Settings(cmd[p].conf) :
            /\ dry[p] <=> s.dry_run = "true"
            /\ flush[p] <=> (cmd[p].flush /\ cmd[p].name \in TakeFlush) \/ s.auto_flush = "true"
      BY <1>1 DEF WithSettings
    <2>2. /\ s.dry_run = "true" <=> Says(ConfFiles[cmd[p].conf], "dry_run", "true")
          /\ s.auto_flush = "true" <=> Says(ConfFiles[cmd[p].conf], "auto_flush", "true")
      BY <1>2, SettingsAreSaid
    <2> QED BY <1>1, <2>1, <2>2
  <1> QED BY <1>1, <1>2 DEF Asked

(***************************************************************************)
(* The switch is touched only by a command that was asked to: upload, or   *)
(* one with -f, or with auto_flush in the configuration file, and never    *)
(* when that file says dry_run.  Any processes, any faults, any file that  *)
(* can be opened, malformed ones up to the first line that is not          *)
(* understood; without a file, only that the command is one that can flush. *)
(***************************************************************************)
THEOREM TouchedOnlyWhenAsked == ConfigSpec => SwitchTouchedOnlyWhenAsked
  <1> DEFINE ByOneAsked == \E p \in Proc : Moved(p) /\ Asked(p)
  <1>1. ConfigTypeInv /\ AskedInv /\ Indexed /\ [ConfigNext]_configVars
        => [SwitchTouched => ByOneAsked]_configVars
    <2> SUFFICES ASSUME ConfigTypeInv, AskedInv, Indexed, [ConfigNext]_configVars, SwitchTouched
                 PROVE  ByOneAsked
      OBVIOUS
    <2>0. ~UNCHANGED hwVars
      BY DEF SwitchTouched, hwVars
    <2>1. ~Nothing
      BY DEF Nothing
    <2>2. ASSUME NEW p \in Proc, ConfigStep(p), Does(p) PROVE ByOneAsked
      <3>1. FlushStep(p) /\ Flushes(p)
        BY <2>0, <2>2
        DEF Does, Starts, Opens, Loading, Dumps, Packs, Truncates, Stores, Acts, Concludes,
            Configures, Ends, Dies, Flushes
      <3>2. ~dry[p] /\ pc[p] \in OnItsWay
        BY <2>0, <3>1, DrySendsNothing DEF Flushes, Flushing, OnItsWay, FlushLabels
      <3>3. Asked(p)
        BY <3>2, AskedToFlush
      <3>4. Moved(p)
        BY <2>0, <3>1, SendingMoves
      <3> QED BY <3>3, <3>4
    <2> QED BY <2>1, <2>2, NextDoes
  <1>2. ConfigInit => ConfigTypeInv /\ AskedInv /\ Indexed
    BY ConfigTypeInit, AskedInit, IndexedInit
  <1>3. ConfigTypeInv /\ AskedInv /\ Indexed /\ [ConfigNext]_configVars => ConfigTypeInv' /\ AskedInv' /\ Indexed'
    BY ConfigTypeStep, AskedStep, IndexedStep
  <1> QED BY <1>1, <1>2, <1>3, PTL DEF ConfigSpec, SwitchTouchedOnlyWhenAsked
-----------------------------------------------------------------------------
(***************************************************************************)
(* What a "load" of a document holds, from the first step on.              *)
(***************************************************************************)
LoadsXml(p) == Name(p) = "load" /\ cmd[p].xml \in DOMAIN XmlFiles

Took(p) == Parsed[cmd[p].xml].rc = "ok" /\ mem[p] = Parsed[cmd[p].xml].cfg

TookOf(p) ==
    pc[p] # "idle" /\ LoadsXml(p) =>
      /\ pc[p] \in {"save", "open", "write", "saved", "done"} \cup OnItsWay
      /\ pc[p] # "done" \/ rc[p] = "OK" => Took(p)
      /\ pc[p] \in {"open", "write"} \cup OnItsWay => mem[p].dev \in DeviceIds
      /\ pc[p] \in {"saved", "done"} /\ rc[p] = "OK" => mem[p].dev \in DeviceIds

TookInv == \A p \in Proc : TookOf(p)

LEMMA TookInit == ConfigInit => TookInv
  BY DEF ConfigInit, Init, TookInv, TookOf

\* The document of the command, and what it was made into, stay.
LEMMA TookStays ==
  ASSUME NEW p, SameCommand(p), mem'[p] = mem[p]
  PROVE  (LoadsXml(p)' <=> LoadsXml(p)) /\ (Took(p)' <=> Took(p))
  BY DEF SameCommand, LoadsXml, Took, Name

LEMMA TookTurn ==
  ASSUME "malloc" \notin Faults, NEW p \in Proc, TookOf(p), Does(p)
  PROVE  TookOf(p)'
  <1> USE DEF Moves, Leaves, OnItsWay, FlushLabels
  <1>1. CASE Starts(p)
    <2>1. CASE pc'[p] = "save"
      <3>1. PICK made \in Made(cmd'[p]) : made.rc = "ok" /\ mem'[p] = made.cfg
        BY <1>1, <2>1 DEF Starts
      <3>2. LoadsXml(p)' => Took(p)'
        <4> SUFFICES ASSUME LoadsXml(p)' PROVE Took(p)'
          OBVIOUS
        <4>1. made = [rc |-> Parsed[cmd'[p].xml].rc, cfg |-> Parsed[cmd'[p].xml].cfg]
          BY DEF LoadsXml, Name, Made, Imported
        <4>2. made.rc = Parsed[cmd'[p].xml].rc /\ made.cfg = Parsed[cmd'[p].xml].cfg
          BY <4>1
        <4> QED BY <3>1, <4>2 DEF Took
      <3> QED BY <2>1, <3>2 DEF TookOf
    <2>2. CASE pc'[p] # "save"
      BY <1>1, <2>2 DEF Starts, TookOf, LoadsXml, Name, Loads
    <2> QED BY <2>1, <2>2
  <1>2. CASE Dies(p)
    BY <1>2 DEF Dies, TookOf
  <1>3. CASE Opens(p) \/ Loading(p) \/ Dumps(p) \/ Acts(p)
    <2>1. pc[p] \in {"load", "hexdump", "read", "dump", "loaded"} /\ SameCommand(p)
      BY <1>3 DEF Opens, Loading, Dumps, Acts
    <2>2. ~LoadsXml(p)
      BY <2>1 DEF TookOf
    <2>3. ~LoadsXml(p)'
      BY <2>1, <2>2 DEF SameCommand, LoadsXml, Name
    <2> QED BY <2>3 DEF TookOf
  <1>4. CASE Packs(p)
    <2>1. SameCommand(p) /\ mem'[p] = mem[p]
      BY <1>4 DEF Packs
    <2> QED BY <1>4, <2>1, TookStays DEF Packs, TookOf
  <1>5. CASE Truncates(p)
    <2>1. SameCommand(p) /\ mem'[p] = mem[p]
      BY <1>5 DEF Truncates
    <2> QED BY <1>5, <2>1, TookStays DEF Truncates, TookOf
  <1>6. CASE Stores(p)
    <2>1. SameCommand(p) /\ mem'[p] = mem[p]
      BY <1>6 DEF Stores
    <2> QED BY <1>6, <2>1, TookStays DEF Stores, TookOf
  <1>7. CASE Concludes(p)
    <2>1. SameCommand(p) /\ mem'[p] = mem[p]
      BY <1>7 DEF Concludes
    <2> QED BY <1>7, <2>1, TookStays DEF Concludes, TookOf
  <1>8. CASE Configures(p)
    <2>1. SameCommand(p) /\ mem'[p] = mem[p]
      BY <1>8 DEF Configures
    <2> QED BY <1>8, <2>1, TookStays DEF Configures, TookOf, NotRespondingCode
  <1>9. CASE Flushes(p)
    <2>1. SameCommand(p) /\ mem'[p] = mem[p]
      BY <1>9 DEF Flushes
    <2> QED BY <1>9, <2>1, TookStays DEF Flushes, Flushing, TookOf
  <1>10. CASE Ends(p)
    <2>1. SameCommand(p) /\ mem'[p] = mem[p]
      BY <1>10 DEF Ends
    <2> QED BY <1>10, <2>1, TookStays DEF Ends, TookOf
  <1> QED BY <1>1, <1>2, <1>3, <1>4, <1>5, <1>6, <1>7, <1>8, <1>9, <1>10 DEF Does

LEMMA TookStep ==
  ASSUME "malloc" \notin Faults
  PROVE  ConfigTypeInv /\ TookInv /\ [ConfigNext]_configVars => TookInv'
  <1> SUFFICES ASSUME ConfigTypeInv, TookInv, [ConfigNext]_configVars PROVE TookInv'
    OBVIOUS
  <1>1. CASE Nothing
    BY <1>1 DEF Nothing, TookInv, TookOf, LoadsXml, Took, Name
  <1>2. ASSUME NEW p \in Proc, Others(p), Does(p) PROVE TookInv'
    <2>1. TookOf(p)'
      BY <1>2, TookTurn DEF TookInv
    <2>2. ASSUME NEW o \in Proc \ {p} PROVE TookOf(o)'
      BY <1>2, <2>2 DEF Others, TookInv, TookOf, LoadsXml, Took, Name
    <2> QED BY <2>1, <2>2 DEF TookInv
  <1> QED BY <1>1, <1>2, NextDoes

LEMMA TookMeans ==
  ASSUME TookInv
  PROVE  LoadTakesTheDocument
  <1> SUFFICES ASSUME NEW p \in Proc, Done(p), rc[p] = "OK", Name(p) = "load",
                      cmd[p].xml \in DOMAIN XmlFiles, DeviceFirst(XmlFiles[cmd[p].xml])
               PROVE  /\ mem[p] = Described(XmlFiles[cmd[p].xml])
                      /\ Unpack(Pack(mem[p])) = [may_fail |-> FALSE, configs |-> {mem[p]}]
    BY DEF LoadTakesTheDocument
  <1>1. Took(p) /\ mem[p].dev \in DeviceIds
    BY DEF TookInv, TookOf, LoadsXml, Done
  <1>2. PICK name \in DOMAIN XmlFiles : name = cmd[p].xml
    OBVIOUS
  <1>3. PICK doc \in Documents : doc = XmlFiles[name]
    BY XmlFilesAssumption DEF Documents
  <1>4. /\ Parsed[name] = ParseRoot(doc) /\ Parsed[name].cfg \in Config /\ Fits(Parsed[name].cfg)
    BY <1>3, ParsedType
  <1>5. PICK c \in Config : c = mem[p] /\ c = ParseRoot(doc).cfg /\ Fits(c) /\ c.dev \in DeviceIds
    BY <1>1, <1>2, <1>4 DEF Took
  <1>6. ParseRoot(doc).rc = "ok"
    BY <1>1, <1>2, <1>4 DEF Took
  <1>7. c = Described(doc)
    BY <1>2, <1>3, <1>5, <1>6, DocumentTaken
  <1>8. Unpack(Pack(c)) = [may_fail |-> FALSE, configs |-> {c}]
    <2>1. Unpack(Pack(c) \o << >>) = [may_fail |-> FALSE, configs |-> {c}]
      <3>1. << >> \in Seq(Units)
        OBVIOUS
      <3> QED BY <1>5, <3>1, RoundTrip
    <2>2. Pack(c) \o << >> = Pack(c)
      <3>1. PICK s \in Seq(Units) : s = Pack(c)
        BY PackedPlaces
      <3>2. s \o << >> = s
        OBVIOUS
      <3> QED BY <3>1, <3>2
    <2> QED BY <2>1, <2>2
  <1> QED BY <1>2, <1>3, <1>5, <1>7, <1>8

(***************************************************************************)
(* A "load" that returns 0 has taken the whole document it was given, and  *)
(* what it took can be loaded again. Any number of commands at a time, any *)
(* document, and any fault but a failing allocation.                       *)
(***************************************************************************)
THEOREM LoadsTakeTheDocument ==
  ASSUME "malloc" \notin Faults
  PROVE  ConfigSpec => []LoadTakesTheDocument
  <1>1. ConfigInit => ConfigTypeInv /\ TookInv
    BY ConfigTypeInit, TookInit
  <1>2. ConfigTypeInv /\ TookInv /\ [ConfigNext]_configVars => ConfigTypeInv' /\ TookInv'
    BY ConfigTypeStep, TookStep
  <1>3. TookInv => LoadTakesTheDocument
    BY TookMeans
  <1> QED BY <1>1, <1>2, <1>3, PTL DEF ConfigSpec
=============================================================================
