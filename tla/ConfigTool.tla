----------------------------- MODULE ConfigTool -----------------------------
(***************************************************************************)
(* "sja1105-tool config": config_parse_args (tool/parse-config.c), which   *)
(* joins the staging area and the switch.  Every command loads, makes or   *)
(* modifies a configuration, saves it, and with the flush condition goes   *)
(* on to configure the SPI device and flush the configuration it holds in  *)
(* memory; the code it exits with says what was touched.                   *)
(***************************************************************************)
EXTENDS StagingArea, Flush, ConfFile, XmlRead

CONSTANT Commands       \* the command lines that may be run, see Command

VARIABLES
    cmd,                \* the command line of every invocation
    flush               \* spi_setup->flush: -f is given or auto_flush is set

cmdVars == <<cmd, flush>>
configVars == <<vars, stagingVars, cmdVars>>

(***************************************************************************)
(* A command line: the command, the configuration file of the tool (-c),   *)
(* -f, and the configuration it makes ("default": the builtin one, "new":  *)
(* the empty one), the XML file it reads ("load") or the edit it makes     *)
(* ("modify").                                                             *)
(***************************************************************************)
CommandNames == {"load", "save", "default", "new", "modify", "upload", "show", "hexdump"}
Edit == [t : Tables, what : {"entry-count", "entry"}, n : Nat, e : Entry]
Command == [name : CommandNames, conf : STRING, flush : BOOLEAN,
            cfg : Config, xml : STRING, edit : Edit]

ASSUME CommandsAssumption == Commands \subseteq Command /\ Commands # {}

Name(p) == cmd[p].name

\* Which commands load the staging area first, which have a configuration of
\* their own, and which take -f.
Loads == {"modify", "save", "upload", "show"}
Makes == {"load", "default", "new"}
TakeFlush == {"load", "default", "modify"}

Exit(p, code) == Return(p, code, "done")

\* What an idle process holds: some command, which nothing looks at.
NoCommand == CHOOSE c \in Commands : TRUE

ForgetFlush(p) ==
    /\ idx' = [idx EXCEPT ![p] = 0]
    /\ retries' = [retries EXCEPT ![p] = 0]
    /\ down' = [down EXCEPT ![p] = FALSE]

(***************************************************************************)
(* main reads the configuration file before the command is looked at.      *)
(* "load" and "default" and "new" have their configuration before the      *)
(* staging area is touched; the XML file of a "load" may be refused.       *)
(***************************************************************************)
Made(c) ==
    IF c.name = "load" THEN Imported(c.xml) ELSE {[rc |-> "ok", cfg |-> c.cfg]}

Invoke(p) ==
    /\ pc[p] \in {"idle", "done"}
    /\ \E c \in Commands : \E s \in Settings(c.conf) :
         /\ cmd' = [cmd EXCEPT ![p] = c]
         /\ dry' = [dry EXCEPT ![p] = s.dry_run = "true"]
         /\ flush' = [flush EXCEPT ![p] =
                         (c.flush /\ c.name \in TakeFlush) \/ s.auto_flush = "true"]
         /\ \/ c.name \in Loads /\ Return(p, "OK", "load") /\ Forget(p)
            \/ c.name = "hexdump" /\ Return(p, "OK", "hexdump") /\ Forget(p)
            \/ /\ c.name \in Makes
               /\ \E made \in Made(c) :
                    IF made.rc = "ok"
                    THEN /\ Return(p, "OK", "save")
                         /\ mem' = [mem EXCEPT ![p] = made.cfg]
                         /\ UNCHANGED <<size, behind>>
                    ELSE Return(p, "INVALID_XML", "done") /\ Forget(p)
    /\ ForgetFlush(p)
    /\ UNCHANGED <<file, written, hwVars>>

(***************************************************************************)
(* staging_area_modify: the entry index is compared with the entry count;  *)
(* the entry count is set without looking at the size of the table, and    *)
(* entries past the old end are zero, as unpack left them.                 *)
(***************************************************************************)
Applicable(c, ed) == ed.what = "entry" => ed.n < Count(c, ed.t)

Resize(es, t, n) == [j \in 1..n |-> IF j <= Len(es) THEN es[j] ELSE ZeroEntry(t)]

Apply(c, ed) ==
    [c EXCEPT !.tab[ed.t] =
       IF ed.what = "entry-count" THEN Resize(@, ed.t, ed.n)
       ELSE [@ EXCEPT ![ed.n + 1] = ed.e]]

\* "save" returns 0 whether or not the XML file could be written.
Loaded(p) ==
    /\ pc[p] = "loaded"
    /\ \/ /\ Name(p) = "modify"
          /\ IF Applicable(mem[p], cmd[p].edit)
             THEN /\ mem' = [mem EXCEPT ![p] = Apply(@, cmd[p].edit)]
                  /\ Goto(p, "save")
             ELSE Exit(p, "ERRNO") /\ UNCHANGED mem
       \/ Name(p) = "upload" /\ Goto(p, "configure") /\ UNCHANGED mem
       \/ Name(p) \in {"show", "save"} /\ Exit(p, "OK") /\ UNCHANGED mem
    /\ behind' = [behind EXCEPT ![p] = NeverWritten]
    /\ UNCHANGED <<dry, cmdVars, file, size, written, hwVars, flushVars>>

\* Mutant: what staging_area_save returns is not looked at.
Saved_Unchecked(p) ==
    /\ pc[p] = "saved"
    /\ IF flush[p] /\ Name(p) \in TakeFlush THEN Return(p, "OK", "configure")
       ELSE Exit(p, "OK")
    /\ UNCHANGED <<mem, dry, cmdVars, stagingVars, hwVars, flushVars>>

Saved(p) ==
    /\ pc[p] = "saved"
    /\ IF rc[p] # "OK" THEN Exit(p, "FILESYSTEM")
       ELSE IF flush[p] /\ Name(p) \in TakeFlush THEN Goto(p, "configure")
       ELSE Exit(p, "OK")
    /\ UNCHANGED <<mem, dry, cmdVars, stagingVars, hwVars, flushVars>>

(***************************************************************************)
(* sja1105_spi_configure: opens the SPI device and reads the device id.    *)
(***************************************************************************)
NotRespondingCode(p) ==
    IF Name(p) \in {"load", "upload"} THEN "HW_NOT_RESPONDING"
    ELSE "HW_NOT_RESPONDING_STAGING_AREA_DIRTY"

SpiConfigure(p) ==
    /\ pc[p] = "configure"
    /\ \/ Goto(p, "flush")
       \/ ~dry[p] /\ "lost" \in Outcomes /\ Exit(p, NotRespondingCode(p))
    /\ UNCHANGED <<mem, dry, cmdVars, stagingVars, hwVars, flushVars>>

\* "upload" passes the code of the flush on; the others force their own.
Flushed(p) ==
    /\ pc[p] = "flushed"
    /\ IF rc[p] = "OK" \/ Name(p) = "upload" THEN Goto(p, "done")
       ELSE Exit(p, "HW_LEFT_FLOATING_STAGING_AREA_DIRTY")
    /\ UNCHANGED <<mem, dry, cmdVars, stagingVars, hwVars, flushVars>>

Crash(p) ==
    /\ pc[p] \notin {"idle", "done"}
    /\ StagingCrash(p)
    /\ ForgetFlush(p)
    /\ cmd' = [cmd EXCEPT ![p] = NoCommand]
    /\ flush' = [flush EXCEPT ![p] = FALSE]
    /\ UNCHANGED hwVars
-----------------------------------------------------------------------------
ConfigInit ==
    /\ Init
    /\ StagingInit
    /\ cmd = [p \in Proc |-> NoCommand]
    /\ flush = [p \in Proc |-> FALSE]

ConfigStep(p) ==
    \/ Invoke(p)
    \/ StagingStep(p) /\ UNCHANGED <<cmdVars, hwVars, flushVars>>
    \/ Loaded(p)
    \/ Saved(p)
    \/ SpiConfigure(p)
    \/ FlushStep(p) /\ UNCHANGED <<cmdVars, stagingVars>>
    \/ Flushed(p)
    \/ Crash(p)

ConfigNext ==
    \/ \E p \in Proc : ConfigStep(p)
    \/ SwitchReady /\ UNCHANGED <<cmdVars, stagingVars>>

ConfigSpec == ConfigInit /\ [][ConfigNext]_configVars
-----------------------------------------------------------------------------
ConfigTypeOK ==
    /\ pc \in [Proc -> FlushLabels \cup StagingLabels \cup {"idle", "configure"}]
    /\ cmd \in [Proc -> Commands]
    /\ flush \in [Proc -> BOOLEAN]
    /\ StagingTypeOK
    /\ mem \in [Proc -> Config]
    /\ rc \in [Proc -> ErrorCodes]

Done(p) == pc[p] = "done"
Dirty == {"HW_NOT_RESPONDING_STAGING_AREA_DIRTY", "HW_LEFT_FLOATING_STAGING_AREA_DIRTY"}
Writes == Makes \cup {"modify"}

(***************************************************************************)
(* A command that flushed and returned 0 leaves the staging area and the   *)
(* switch in agreement: a later "upload" would send what runs now.  One    *)
(* command at a time, but crashes and torn writes before it.               *)
(***************************************************************************)
OkMeansAgreed ==
    \A p \in Proc :
      Done(p) /\ rc[p] = "OK" /\ ~dry[p] /\ Name(p) \in TakeFlush /\ flush[p] =>
        FileHolds(mem[p]) /\ running = mem[p]

(***************************************************************************)
(* The codes that name the staging area dirty are returned only when the   *)
(* command has put its configuration there.  One command at a time.        *)
(***************************************************************************)
DirtyMeansWritten ==
    \A p \in Proc :
      Done(p) /\ rc[p] \in Dirty => FileHolds(mem[p])

(***************************************************************************)
(* Setting "entry-count" resizes the table: when the command returns 0, a  *)
(* load of the staging area finds that many entries.                       *)
(***************************************************************************)
ResizeTakesEffect ==
    \A p \in Proc :
      /\ Done(p) /\ rc[p] = "OK"
      /\ Name(p) = "modify" /\ cmd[p].edit.what = "entry-count"
      => \E c \in Unpack(file.data).configs : Count(c, cmd[p].edit.t) = cmd[p].edit.n

(***************************************************************************)
(* A command that returns 0 and changes the staging area has saved what it *)
(* was asked to save.  One command at a time, and memory for the packed    *)
(* configuration: without it staging_area_save returns 0 all the same.     *)
(***************************************************************************)
OkMeansSaved ==
    \A p \in Proc :
      Done(p) /\ rc[p] = "OK" /\ Name(p) \in Writes => FileHolds(mem[p])

(***************************************************************************)
(* A "load" that returns 0 has taken the whole document: the device id and *)
(* every entry of every section, in their order and with the fields the    *)
(* device has, and no more of them than can be loaded again; an unknown    *)
(* section or an incomplete entry loses nothing unnoticed.  Said of files  *)
(* that are XML and name the device before the tables, and of packings     *)
(* that got their memory: without it "load" returns 0 and nothing loads.   *)
(***************************************************************************)
LoadTakesTheDocument ==
    \A p \in Proc :
      Done(p) /\ rc[p] = "OK" /\ Name(p) = "load" /\ cmd[p].xml \in DOMAIN XmlFiles =>
        LET doc == XmlFiles[cmd[p].xml] IN
        DeviceFirst(doc) =>
          /\ mem[p] = Described(doc)
          /\ Unpack(Pack(mem[p])) = [may_fail |-> FALSE, configs |-> {mem[p]}]

(***************************************************************************)
(* "hexdump" tells a staging area that loads from one that does not: the   *)
(* init script asks it whether to replace the file by the default.         *)
(***************************************************************************)
HexdumpTellsValid ==
    \A p \in Proc :
      Done(p) /\ Name(p) = "hexdump" /\ file.exists /\ ~Unpack(file.data).may_fail
        => rc[p] = "OK"

(***************************************************************************)
(* The switch is written to only by an invocation that was asked to: an    *)
(* "upload", or a "load", "default" or "modify" with -f or auto_flush, and *)
(* not in dry run.  What the configuration file asks for is its last valid *)
(* word before the first line that is not understood (ConfFile!Says), so   *)
(* this speaks of sound files, of files with settings that are no good and *)
(* of files that are malformed.  A file that cannot be opened leaves       *)
(* dry_run and auto_flush to the stack: of such an invocation it says no   *)
(* more than that its command is one that can flush.                       *)
(***************************************************************************)
Asked(p) ==
    /\ Name(p) \in TakeFlush \cup {"upload"}
    /\ cmd[p].conf \in DOMAIN ConfFiles =>
         LET lines == ConfFiles[cmd[p].conf] IN
         /\ ~Says(lines, "dry_run", "true")
         /\ Name(p) = "upload" \/ cmd[p].flush \/ Says(lines, "auto_flush", "true")

SwitchTouchedOnlyWhenAsked ==
    [][SwitchTouched => \E p \in Proc : Moved(p) /\ Asked(p)]_configVars
=============================================================================
