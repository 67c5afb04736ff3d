---------------------------- MODULE StagingArea ----------------------------
(***************************************************************************)
(* The staging area: the file every invocation of the tool loads its       *)
(* static_config from and saves it to (staging_area_load and _save in      *)
(* tool/staging-area.c).  Nothing locks the file.                          *)
(*                                                                         *)
(* open with O_TRUNC, fstat, read and write are steps of their own: two    *)
(* invocations interleave between them and a crash may come between them.  *)
(* A write is one step, complete or, when the device fills up or the host  *)
(* loses power, cut short at any unit.                                     *)
(***************************************************************************)
EXTENDS Tool

CONSTANT Faults         \* what the operating system may do to us, see below

VARIABLES
    file,               \* [exists, data]: the staging area
    size,               \* what fstat told each invocation that is loading
    written,            \* history: [cfg, whole] of the last write to the file
    behind              \* history: what written was when p read what it has loaded

stagingVars == <<file, size, written, behind>>

\* "open", "read": the system call fails.  "short": a write stops half way.
\* "malloc": no memory for the packed configuration.
ASSUME FaultsAssumption == Faults \subseteq {"open", "read", "short", "malloc"}

NeverWritten == [cfg |-> EmptyConfig(NoDevice), whole |-> FALSE]
Absent == [exists |-> FALSE, data |-> << >>]
\* Mutant: opened without O_CREAT.
Holding_NotCreated(units) == [exists |-> FALSE, data |-> units]

Holding(units) == [exists |-> TRUE, data |-> units]

\* Writing units at offset 0 leaves what lies behind them in place.
Overwrite(old, units) ==
    units \o SubSeq(old, Len(units) + 1, Len(old))

Prefix(s, n) == SubSeq(s, 1, IF n < Len(s) THEN n ELSE Len(s))
-----------------------------------------------------------------------------
(***************************************************************************)
(* staging_area_load.  The buffer is as long as fstat said; fewer bytes    *)
(* are read when the file has shrunk since, and no more when it has grown. *)
(***************************************************************************)
OpenAndStat(p, next) ==
    /\ \/ /\ file.exists
          /\ size' = [size EXCEPT ![p] = Len(file.data)]
          /\ Goto(p, next)
       \/ /\ ~file.exists \/ "open" \in Faults
          /\ Return(p, "FILESYSTEM", "done")
          /\ UNCHANGED size
    /\ UNCHANGED <<mem, dry, file, written, behind>>

Buffer(p) == Prefix(file.data, size[p])

LoadOpen(p) == pc[p] = "load" /\ OpenAndStat(p, "read")

LoadRead(p) ==
    /\ pc[p] = "read"
    /\ LET parsed == Unpack(Buffer(p)) IN
       \/ /\ \E c \in parsed.configs : mem' = [mem EXCEPT ![p] = c]
          /\ behind' = [behind EXCEPT ![p] = written]
          /\ Goto(p, "loaded")
       \/ /\ parsed.may_fail
          /\ Return(p, "STAGING_AREA_INVALID", "done")
          /\ UNCHANGED <<mem, behind>>
       \/ /\ "read" \in Faults
          /\ Return(p, "FILESYSTEM", "done")
          /\ UNCHANGED <<mem, behind>>
    /\ size' = [size EXCEPT ![p] = 0]
    /\ UNCHANGED <<dry, file, written>>

(***************************************************************************)
(* staging_area_hexdump.  It checks no CRC; what it makes of the bytes of  *)
(* a damaged file is left open.  The path of success runs into the one of  *)
(* the file system errors.                                                 *)
(***************************************************************************)
HexdumpOpen(p) == pc[p] = "hexdump" /\ OpenAndStat(p, "dump")

HexdumpRead(p) ==
    /\ pc[p] = "dump"
    /\ \/ Return(p, "FILESYSTEM", "done")
       \/ Unpack(Buffer(p)).may_fail /\ Return(p, "STAGING_AREA_INVALID", "done")
    /\ size' = [size EXCEPT ![p] = 0]
    /\ UNCHANGED <<mem, dry, file, written, behind>>

(***************************************************************************)
(* staging_area_save.  When malloc fails the function returns the rc it    *)
(* was initialised with, which is 0.                                       *)
(***************************************************************************)
SavePack(p) ==
    /\ pc[p] = "save"
    /\ \/ "malloc" \in Faults /\ Return(p, "OK", "saved")
       \/ mem[p].dev \notin DeviceIds /\ Return(p, "ERRNO", "saved")
       \/ mem[p].dev \in DeviceIds /\ Goto(p, "open")
    /\ UNCHANGED <<mem, dry, stagingVars>>

SaveOpen(p) ==
    /\ pc[p] = "open"
    /\ \/ file' = Holding(<< >>) /\ Goto(p, "write")
       \/ "open" \in Faults /\ Return(p, "ERRNO", "saved") /\ UNCHANGED file
    /\ UNCHANGED <<mem, dry, size, written, behind>>

WriteUnits(p, n) ==
    /\ file' = Holding(Overwrite(file.data, Prefix(Pack(mem[p]), n)))
    /\ written' = [cfg |-> mem[p], whole |-> n = Len(Pack(mem[p]))]

SaveWrite(p) ==
    /\ pc[p] = "write"
    /\ \/ WriteUnits(p, Len(Pack(mem[p]))) /\ Return(p, "OK", "saved")
       \/ /\ "short" \in Faults
          /\ \E n \in 0..(Len(Pack(mem[p])) - 1) : WriteUnits(p, n)
          /\ Return(p, "ERRNO", "saved")
    /\ UNCHANGED <<mem, dry, size, behind>>

\* What the process held in memory is gone with it.
Forget(p) ==
    /\ mem' = [mem EXCEPT ![p] = EmptyConfig(NoDevice)]
    /\ size' = [size EXCEPT ![p] = 0]
    /\ behind' = [behind EXCEPT ![p] = NeverWritten]

\* The process is killed, or the host goes down in the middle of a write.
StagingCrash(p) ==
    /\ Return(p, "OK", "idle")
    /\ Forget(p)
    /\ dry' = [dry EXCEPT ![p] = FALSE]
    /\ \/ UNCHANGED <<file, written>>
       \/ /\ pc[p] = "write" /\ "short" \in Faults
          /\ \E n \in 0..(Len(Pack(mem[p])) - 1) : WriteUnits(p, n)

StagingStep(p) ==
    \/ LoadOpen(p)
    \/ LoadRead(p)
    \/ HexdumpOpen(p)
    \/ HexdumpRead(p)
    \/ SavePack(p)
    \/ SaveOpen(p)
    \/ SaveWrite(p)

StagingInit ==
    /\ file = Absent
    /\ size = [p \in Proc |-> 0]
    /\ written = NeverWritten
    /\ behind = [p \in Proc |-> NeverWritten]
-----------------------------------------------------------------------------
StagingLabels == {"load", "read", "loaded", "hexdump", "dump",
                  "save", "open", "write", "saved", "done"}

StagingTypeOK ==
    /\ file.exists \in BOOLEAN
    /\ file.data = << >> \/ file.exists
    /\ size \in [Proc -> Nat]
    /\ written \in [cfg : Config, whole : BOOLEAN]
    /\ behind \in [Proc -> [cfg : Config, whole : BOOLEAN]]

\* A load of the file would give c and nothing else.
FileHolds(c) ==
    /\ file.exists
    /\ Unpack(file.data) = [may_fail |-> FALSE, configs |-> {c}]

\* The two agree on every table check_valid or the rest of the tool demands;
\* the SGMII table, packed last, is the one a torn write can lose unnoticed.
SameButSgmii(c, d) ==
    c.dev = d.dev /\ \A t \in Tables \ {"sgmii"} : c.tab[t] = d.tab[t]

(***************************************************************************)
(* The packed format has one CRC per table and nothing that covers the     *)
(* whole file, so a file cut short between two tables may load.  What      *)
(* loads and passes check_valid is nevertheless the configuration that was *)
(* last saved, but for SGMII: xmii_params is mandatory and packed after    *)
(* every other table.                                                      *)
(***************************************************************************)
ValidLoadIsFaithful ==
    \A p \in Proc :
      pc[p] = "loaded" /\ CheckValid(mem[p]) =>
        SameButSgmii(mem[p], behind[p].cfg)

(***************************************************************************)
(* When nobody is saving and the last write was complete, the file loads   *)
(* to what was last written, whoever else was writing at the same time:    *)
(* the final header keeps the end of a longer file from being parsed.      *)
(***************************************************************************)
QuiescentFileIsLastWrite ==
    (\A p \in Proc : pc[p] \notin {"open", "write"}) /\ file.exists
        /\ file.data # << >> /\ written.whole =>
      FileHolds(written.cfg)
=============================================================================
