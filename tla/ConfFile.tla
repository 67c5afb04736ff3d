------------------------------ MODULE ConfFile ------------------------------
(***************************************************************************)
(* The configuration file of the tool, sja1105.conf, which every           *)
(* invocation reads first (tool/tool-config-file.c).                       *)
(*                                                                         *)
(* A file is the sequence of its lines; blank lines and comments, which    *)
(* the reader skips, are left out.  A line is a section header, a "key =   *)
(* value" pair, or one without an equal sign.  Of the values only those of *)
(* the keys with a choice of words are told apart; a value that is no      *)
(* number is "bad".  Fields that are not set keep their default.           *)
(***************************************************************************)
EXTENDS Sequences, SequencesExt

CONSTANT ConfFiles      \* the files there are: name -> sequence of lines

Section(name) == [kind |-> "section", name |-> name]
Pair(key, value) == [kind |-> "pair", key |-> key, value |-> value]
NoEqualSign == [kind |-> "other"]

Line == [kind : {"section"}, name : STRING]
        \cup [kind : {"pair"}, key : STRING, value : STRING]
        \cup [kind : {"other"}]

ASSUME ConfFilesAssumption == \A name \in DOMAIN ConfFiles : ConfFiles[name] \in Seq(Line)

Booleans == {"dry_run", "auto_flush", "verbose", "debug"}
Free == {"device", "staging_area", "mode"}

Keys(section) ==
    IF section = "[general]"
    THEN {"verbose", "debug", "entries_per_line", "screen_width"}
    ELSE {"device", "staging_area", "mode", "dry_run", "auto_flush",
          "device_id", "bits", "speed", "delay", "cs_change"}

Takes(section, key, value) ==
    /\ key \in Keys(section)
    /\ IF key \in Booleans THEN value \in {"true", "false"}
       ELSE key \in Free \/ value # "bad"

Known(section) == section \in {"[spi_setup]", "[general]"}

\* A field is filled in, whatever it held.
WithField(fields, key, value) ==
    [k \in DOMAIN fields \cup {key} |-> IF k = key THEN value ELSE fields[k]]

(***************************************************************************)
(* One turn of the loop of read_config_file.  parse_key_val drops what the *)
(* section parsers return, so a bad value or an unknown key is skipped; an *)
(* unknown section or a line without "=" ends the reading, and the fields  *)
(* set so far stay.  A pair before any section compares a null pointer.    *)
(***************************************************************************)
Start == [state |-> "reading", section |-> "none", fields |-> << >>]

\* Mutant: what the section parsers return is passed on.
ReadLine_Strict(st, line) ==
    IF st.state # "reading" THEN st
    ELSE IF line.kind = "section" THEN [st EXCEPT !.section = line.name]
    ELSE IF line.kind = "pair" /\ st.section = "none" THEN [st EXCEPT !.state = "crashed"]
    ELSE IF line.kind = "other" \/ ~Known(st.section) \/ ~Takes(st.section, line.key, line.value)
    THEN [st EXCEPT !.state = "stopped"]
    ELSE [st EXCEPT !.fields = WithField(@, line.key, line.value)]

ReadLine(st, line) ==
    IF st.state # "reading" THEN st
    ELSE IF line.kind = "section" THEN [st EXCEPT !.section = line.name]
    ELSE IF line.kind = "pair" /\ st.section = "none" THEN [st EXCEPT !.state = "crashed"]
    ELSE IF line.kind = "other" \/ ~Known(st.section) THEN [st EXCEPT !.state = "stopped"]
    ELSE IF Takes(st.section, line.key, line.value)
    THEN [st EXCEPT !.fields = WithField(@, line.key, line.value)]
    ELSE st

\* config_set_defaults, for the two fields that decide what reaches the switch.
SetDefaults(fields) ==
    [k \in DOMAIN fields \cup {"dry_run", "auto_flush"} |->
       IF k \in DOMAIN fields THEN fields[k] ELSE "false"]

(***************************************************************************)
(* The settings an invocation may run with; none when it dies reading the  *)
(* file.  When the file cannot be opened nothing is cleared, fields_set    *)
(* included: the stack decides which fields are taken for set and what     *)
(* they hold (or the process dies on the path of the staging area).  main  *)
(* does not look at what read_config_file returns.                         *)
(***************************************************************************)
Settings(name) ==
    IF name \notin DOMAIN ConfFiles
    THEN [dry_run : {"true", "false"}, auto_flush : {"true", "false"}]
    ELSE LET end == FoldLeft(ReadLine, Start, ConfFiles[name])
         IN  IF end.state = "crashed" THEN {} ELSE {SetDefaults(end.fields)}
-----------------------------------------------------------------------------
(***************************************************************************)
(* What a file asks for, said without the reader: its last word on a key,  *)
(* in the section of that key, before the first line that is not           *)
(* understood.  (The manual page promises the defaults for a file with     *)
(* such a line; the code keeps what it has read.)                          *)
(***************************************************************************)
SectionAt(lines, n) ==
    LET headers == {i \in 1..n : lines[i].kind = "section"}
    IN  IF headers = {} THEN "none"
        ELSE lines[CHOOSE i \in headers : \A j \in headers : j <= i].name

Sound(lines, n) ==
    /\ lines[n].kind # "other"
    /\ lines[n].kind = "pair" => Known(SectionAt(lines, n))

Understood(lines) == {n \in DOMAIN lines : \A m \in 1..n : Sound(lines, m)}

Says(lines, key, value) ==
    \E n \in Understood(lines) :
      /\ lines[n] = Pair(key, value)
      /\ Takes(SectionAt(lines, n), key, value)
      /\ \A m \in Understood(lines) :
           m > n /\ lines[m].kind = "pair" /\ Takes(SectionAt(lines, m), key, lines[m].value) =>
             lines[m].key # key \/ lines[m].value = value
=============================================================================
