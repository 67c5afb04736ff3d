# Verification of sja1105-tool

TLA+ models, TLC runs and TLAPS proofs for `sja1105-tool`, the command line
configuration tool of the NXP SJA1105 automotive Ethernet switch.  Paths below
are those of the repository (`src/lib/...` is written `lib/...`, `src/tool/...`
is written `tool/...`).

## 1. The system

The tool is a sequential C program: one invocation, one command, then it exits.
What makes it hard is what invocations share and what survives them:

* the **staging area**, a file (`/etc/sja1105/.staging`) that holds one packed
  configuration, read and rewritten in place by most commands, locked by none;
* the **switch**, behind spidev.  `sja1105_spi_transfer` takes a `flock` on the
  device for *one* transfer, so the multi-transfer procedures of two
  invocations (boot scripts, cron jobs, users) interleave;
* the **switch's own state**, which outlives a killed process half way through
  an upload.

| component | code | state | operations | what is hard | what makes it correct |
|---|---|---|---|---|---|
| static configuration | `lib/static-config/static-config.c` | tables and their entry counts, device id | unpack, pack, check_valid, add_entry | no length and no overall CRC in the format; limits; FDB indices | what loads is what was saved; limits agree on the two sides |
| per-table packing | `lib/static-config/tables/*.c` | none | field layouts per device | E/T and P/Q/R/S layouts, VL lookup formats | round trip |
| staging area | `tool/staging-area.c` | the file | load, save, hexdump | torn writes, races, missing rollback | a load never mixes two configurations unnoticed |
| flush | `tool/staging-area.c`, `lib/reset/rgu.c`, `lib/control/port.c`, `lib/clock/cgu.c` | progress of the upload | check, inhibit, reset, poll, upload, clock, verify | every transfer may fail, the process may die, two may interleave | the return code says what the switch runs |
| command dispatch | `tool/parse-config.c`, `tool/config-modify.c` | configuration in memory | load, save, default, new, modify, upload, show, hexdump | two resources changed in turn, a code for each outcome | codes tell which of the two changed |
| SPI transfers | `lib/spi/spi-transfer.c`, `spi-message.c` | device handle | transfer, configure, chunking | lock, late failures, dry run | dry run is dry; the chunks tile the buffer |
| clock setup | `lib/clock/*.c` | none (registers of the switch) | MII, RMII, RGMII, SGMII | sequences of writes whose failure is dropped | every port gets its clock |
| PTP | `lib/ptp/ptp.c` | registers of the switch | set, add, rate, corrclk, timestamps, Qbv start/stop | command bits overwritten, two-transfer operations, wraparound | time reconstruction, no lost command |
| dynamic reconfiguration | `lib/dynamic-config/*.c`, `lib/control/port.c` | registers of the switch | FDB entries, management routes, CBS | read/write through one shared register set | a read answers the question asked |
| status | `lib/status/*.c`, `tool/parse-status.c` | none | general and port status | bits of an earlier configuration | - |
| reset | `lib/reset/rgu.c`, `tool/parse-reset.c` | none | cold, warm reset | runs between the transfers of a flush | - |
| bit packing | `lib/gtable/gtable.c` | quirks word | pack, unpack | quirks, bit ranges over byte borders | round trip, no neighbour changed |
| configuration file | `tool/tool-config-file.c` | spi_setup, general_conf | read | defaults when absent or malformed | every member is defined |
| XML | `tool/config-xml-read.c`, `config-xml-write.c`, `tool/xml` | configuration in memory | import, export | order of sections, dropped return codes | a failed import is reported |
| strings | `tool/strings.c` | none | keyword and array parsing | prefix matching, array limits | - |
| scripts | `etc/sja1105-init`, `src/helpers` | none | start, stop, link speed fixup | depend on the tool's exit codes | - |

Interaction: `main` reads the configuration file, dispatches to
`config_parse_args`; that loads the staging area (or makes a configuration),
changes it, saves it, and with `-f` or `auto_flush` calls
`sja1105_spi_configure` and `staging_area_flush`, which is
`static_config_flush` on the configuration in memory.  All calls are direct;
there are no callbacks and no threads.

## 2. Modules

| module | role | extends |
|---|---|---|
| `StaticConfig` | configurations, packed form, `CheckValid`, `Pack`, `Unpack` | - |
| `Tool` | what every invocation has: location, configuration, return code, dry run | `StaticConfig` |
| `Switch` | the SJA1105 as the tool relies on it (external) | `StaticConfig` |
| `Flush` | `static_config_flush`, one SPI transfer a step, one step a port for the clocks | `Tool`, `Switch` |
| `Clocking` | `Flush` with `sja1105_clocking_setup` register by register, and the clock tree (external) | `Flush` |
| `SwitchUpdate` | abstract: what an upload promises | - |
| `FlushRefinement` | `Flush` with one process implements `SwitchUpdate` | `Flush` |
| `StagingArea` | load, save, hexdump, one system call a step | `Tool` |
| `ConfFile` | the configuration file of the tool | - |
| `XmlRead` | a configuration read from an XML document, section by section | `StaticConfig` |
| `ConfigTool` | the commands, composing file, settings, documents and flush | `StagingArea`, `Flush`, `ConfFile`, `XmlRead` |
| `LibraryCall` | what calls of an application into the library have in common | - |
| `Ptp` | `lib/ptp`: PTP clocks, rates, commands, egress timestamps, Qbv | `LibraryCall` |
| `Dynamic` | management routes and credit based shapers of a running switch | `LibraryCall` |
| `Library` | applications calling both | `Ptp`, `Dynamic` |
| `Gtable` | `lib/gtable`: the byte loop that accesses a bit field | - |
| `Checksum` | the CRC over tables and the hash of the FDB, on the buffer of `Gtable` | `Gtable` |
| `Fdb` | bins, counters and indices of static L2 addresses | `Checksum` |
| `TableLayout` | `lib/static-config/tables`: the layout of every table entry, packing and unpacking one | - |
| `TableFields` | the fields that `config modify`, XML export and XML import handle | `TableLayout` |
| `TableEntry` | one entry of one table through whole commands | `TableFields` |
| `FlushProofs`, `FlushRecoveryProofs`, `ClockingProofs` | theorems: the flush, what it heals and implements, its registers | `Flush`, `FlushRefinement`, `Clocking` |
| `FormatProofs` | theorems: packed file, document, settings file | `ConfFile`, `XmlRead` |
| `ConfigProofs` | theorems: the commands | `ConfigTool`, `FormatProofs`, `FlushProofs` |
| `LibraryProofs`, `GtableProofs`, `TableEntryProofs` | theorems: the library, bit fields and bins, entries | `Library`, `Fdb`, `TableEntry` |
| `MCFlush`, `MCClocking`, `MCFlushRefinement`, `MCConfigTool`, `MCLibrary`, `MCGtable`, `MCTableEntry` | small instances | |

The modules look at the same program from different distances.  `Gtable` shows
that the byte order of a packed table implements the numbering of the data
sheet; on that ground `TableLayout` takes a packed entry for the set of its bits
that are 1.  `TableEntry` keeps the content of entries exact and leaves out
files, failures and other processes; `ConfigTool` has those and keeps one field
of an entry.  `Clocking` opens the one step that `Flush` takes for the clocks of
a port, and is shown to implement it; `Library` is the switch afterwards, when
applications talk to it through `libsja1105` while it runs.

How they correspond to the code:

* **A configuration** is a device id and, per table, the sequence of its
  entries.  An entry keeps the fields a property can tell apart: the speed of a
  MAC entry, the mode of each port, the frame memory of the two
  forwarding-parameter tables, and one field of every other table.
* **The packed form** is a sequence of units: device id, table header, entry,
  data CRC, final header.  A CRC unit *is* the data it covers, which models a
  CRC without collisions; header CRCs belong to their header.  `Unpack` is a
  relation: the C function is given no length, so past the data it reads what
  `malloc` returned, and the model lets that memory be zero (a final header) or
  anything (a CRC error).
* **`Flush`** has one action per SPI transfer of `static_config_flush`, in its
  order, plus the two checks that send nothing.  `Transfer(p, o, Effect)` is
  `sja1105_spi_transfer`: in dry run nothing happens; else the message is lost
  (`lock`, `ioctl`), arrives, or arrives and is reported as failed (`unlock`).
  `ClockingSetup` is one step per port, and its result is dropped as the code
  drops it.
* **`Clocking`** takes that step apart: `PortWrites` is the list of register
  writes of a port by its mode, role and speed, with one definition per
  function of `lib/clock` and its table of addresses; `ClockWrite` sends the next
  one and gives the port up when it fails.  `regs` keeps of a register what the
  clock tree depends on.  Below the line, `ClockAt` follows a clock from its
  control to its source as the data sheet has it, and `Needs` says what a port
  of each mode has to get.
* **`Switch`** is assumed, not translated: a cold reset drops the
  configuration, the clocks and the egress mask; the loader takes messages in
  order, spoils on any other order, and refuses another chip's device id; a
  running switch takes no configuration.  `L2BUSYS` clears at any time.
* **`StagingArea`** has `open`, `fstat`+size, `read`, `open(O_TRUNC)`, `write`
  as steps.  `write` replaces the file from offset 0 and leaves what lies
  beyond; with `"short"` it may stop after any unit, for a full device or a
  power failure.
* **`ConfFile`** reads a file line by line (`ReadLine`): sections, pairs, keys in
  the wrong section, values that are no good, lines without an equal sign, and
  a file that is not there, whose fields are what the stack holds.  `Says` is
  the same said of the file as a whole.
* **`XmlRead`** follows `parse_root`, `parse_static_config` and the `parse_entry`
  of the tables, with the `rc` that is overwritten or returned.  `Described` is
  what a document says, without the reader.
* **`ConfigTool`** follows `config_parse_args`: `Invoke` reads the settings and
  takes a command line to its first step, `Loaded`, `Saved`, `SpiConfigure`,
  `Flushed` are the conditions between the calls, with their return codes.
  `Crash` ends a process anywhere.
* **`Ptp` and `Dynamic`** have one action per SPI transfer of a library function;
  `call` is the function and its arguments, `pc` its next transfer, `ret` what
  the last one returned.  The chip's registers are variables, and the two clocks
  tick by themselves.  A timestamp carries, as history, how long ago it was
  taken.
* **`Fdb`** has `patch_fdb` and the counting in `unpack` as operators; each
  property is said of every state of the entry being edited, whatever the bins
  were counted at.
* **An integer**, in `Gtable`, `TableLayout` and `TableEntry`, is the set of the
  numbers of its bits that are 1, so that cutting, shifting and masking are
  set operations and no width has to be left out.
* **`Gtable`**: the boxes of a field lie at different addresses, so the loop of
  `gtable_field_access` is one step; `Packed` and `Unpacked` compute it box by
  box as the code does, with its two address computations.  The undefined
  shift of a 64-bit field is a choice of both results (`ShiftBy64`).
* **`TableLayout`** has one definition per `*_entry_access` function, named as
  its table, with the calls of `pack_or_unpack` in their order.  `TableFields`
  has, per table, `<table>_modify`, `<table>_write` and `<table>_read`; where the
  list in the code names exactly the fields of the layout, it says so.
* **`TableEntry`**: every command loads the staging area, so an edit is `Load`,
  a change and `Save`.  `Load` and `Save` keep what the code does with the type
  of a VL policing entry, the format of a VL lookup entry and the index of a
  static L2 address (recomputed at each save; a choice here).

## 3. Runs

| run | instance | what it shows |
|---|---|---|
| `FlushOne` | 1 process, clocks register by register, all transfer outcomes, chip T, fairness | return code 0 means the switch runs the configuration; a floating switch is reported; resets happen with egress inhibited; a port that counts as set up has its clocks; the register writes implement the steps of `Flush`, and those `SwitchUpdate`; every flush ends |
| `FlushHeals` | 1 process, no failing transfer, crashes, dry runs, five ports of a chip QS | a flush of an acceptable configuration succeeds whatever was left behind, and every port gets the clocks of its mode, role and speed; no message of a dry run, of the upload or of the clock setup, reaches the switch |
| `FlushPair` | 2 processes, transfers interleaved | the switch only runs what passed the checks; if both leave it without a configuration, one says so |
| `ConfigOne` | 1 process at a time; every command, sound and broken settings and XML documents, failing system calls and transfers, writes cut short anywhere, crashes | return codes against file and switch; what loads and passes the checks is what was saved, but for SGMII; a load takes the whole document or fails; the switch is touched only by a step of a command that was asked to, under malformed settings too |
| `ConfigPair` | 2 processes on the file, crashes, failing calls | the same when loads and saves interleave; a complete last write can be loaded back |
| `GtableBits` | a 12-byte table, four fields that overlap, touch or stand alone | storing and reading fields agrees with the data sheet's bit numbers; the checksums are divisions of polynomials; every static address gets a place in its bin, and one of its own |
| `TableEntries` | each of the 19 tables, both families, edits, export, edited XML, import | an edit changes its field only; other commands change nothing; the XML form keeps the entry; import is all or nothing |
| `Library` | 2 applications, six workloads, any transfer failing before or after its effect, either killed | a timestamp is that of the frame; the clock is set or moved as asked; registers hold what was asked; a get returns a route as the switch has it, undisturbed the one it names; a shaper gets its slopes |
| `FlushPairQuiet`, `ConfigOverflow`, `ConfigInitScript`, `GtableWide` | | violations, section 4 |

`ValidLoadIsFaithful` deserves a word.  Nothing in the file format covers the
whole file, so a prefix that ends between two tables may load.  It does not get
through `check_valid`, because `xmii_params` is mandatory and packed after all
other tables but one: SGMII, which a torn write can lose unnoticed.  The
property states exactly that; packing `xmii_params` earlier, or no longer
demanding it, breaks it.  Between two invocations the final header plays the
same part (`QuiescentFileIsLastWrite`).

### Bounds

* `NumPorts`: 5, as the chip, in `FlushHeals`, so that every row of every table
  of addresses is used; 3 in `FlushOne`, whose
  configurations have ports of all three modes; 2 in `FlushPair`, which shows a
  first and a last port, and a failure at the second after the first is set up;
  1 in `ConfigOne`, which has no property of ports.
* `MaxCount`: 2 where the hardware has 8 to 1024 entries, 1 for the
  single-entry tables; below, at, one above (`CHECK_COUNT` admits it) and two
  above the limit are all reached.
* `MaxFrameMemory = 9`: configurations at the limit and one beyond it.
* `ChunkUnits = 9`: the configurations take three or four messages, so an
  upload has a first, a middle and a last one.  In `ConfigOne` it is 40, one
  message: which part of an upload failed is the concern of `FlushOne`.
* `MaxRetries` 1 to 3 instead of 100: the switch gets ready at the first, at
  the last and after the last poll.
* Configurations, command lines, settings and documents are listed in `MCFlush`
  and `MCConfigTool`: each takes a branch of the code the others do not (named
  after it).  The documents have their tables in two sections, an unknown
  section or table, an entry too many or incomplete, no device id, the device id
  last, another root; one file does not exist, and `Leftovers` is what the stack
  may then hold: nothing, or a sound configuration.
* In `ConfigOne` transfers are `ok` or `lost`; `late`, checked in `FlushOne`,
  only adds failures after the effect and does not reach the staging area.
  `malloc` failing is left to `ConfigPair` (section 4).
* `ConfigPair` has the commands that only touch the file, among them saves of
  three lengths; its writes are whole, since a torn one is the subject of
  `ConfigOne` (with both, what is behind a torn write is not the last one saved).
* `Gtable`: `TblLen = 12`, three words, so that a field can span a whole word and
  parts of its neighbours; the proofs are for any length.  The neighbours in the
  FDB share a bin with the entry under some of its values and not under others;
  two polynomials.
* `TableEntry`: values 0, all ones and every odd bit; one edit per behaviour,
  two for the VL tables, whose fields depend on one another.  Exports and
  imports are not bounded.  The tables are those of the code, not a sample.
* `Library`: clocks of 3 bits, stamps of 2, a tick of 3 ns, doubles of 4
  fraction bits.  Only remainders matter to a clock, so the small ones wrap as
  the large ones do, once in a few steps instead of once in 4676 years; the
  width is a parameter of `ReconstructIsExact`.  A workload says what the two
  applications may call; `clk_rate_set` meets every double around 0, 1 and 2.

Deadlock is checked in every run: a process can always start the next command.

### Fairness

`FairClockingSpec` asks for weak fairness of `ClockingStep(p)` alone: a flush that
was started goes on, as a sequential program does.  Nothing is asked of the switch
(`L2BUSYS` may never clear), nor of transfers (all may fail), and a crash may
end a flush.  `FlushTerminates` rests on the poll counter and on
the list of register writes being finite.  `Library` states no liveness:
each call is a fixed number of transfers.

## 4. Where code and text disagree

1. `FlushPairQuiet` — the comment at `tool/staging-area.c:306` calls the cold
   reset safe after `sja1105_inhibit_tx`.  With two flushes the reset of one
   clears the mask of the other.
2. `ConfigOverflow` — `modify -f TABLE entry-count N` is documented to resize;
   N is not compared with the maximum, and the saved file no longer loads.
3. `ConfigInitScript` — `hexdump` of a sound staging area returns 9
   (`FILESYSTEM`): the path of success runs into the error labels.  The init
   script uses it to ask whether the staging area is valid.
4. `GtableWide` — a comment in `gtable.c:159` has any 64-bit value fit in a field
   of 64 bits.  The mask of its top byte is computed with a shift by 64, which is
   undefined; where that is a shift by 0 (x86-64, AArch64) packing stores 0 in
   the byte.  The 64-bit registers of the PTP clock are written this way.

The manual pages differ from the code in three more places.  The first is a
disagreement in behaviour: `ConfFile` models what the code does, and
`SwitchTouchedOnlyWhenAsked` claims of such files only what the code does, so no
run contradicts the text:

* `sja1105-conf.5.md:21` ("If the file does not exist or syntax errors are present,
  the **sja1105-tool** throws an error and loads default values"), the message at
  `tool/tool-config-file.c:293` ("not present, loading default config") and that
  at `:346` ("Invalid config file, using defaults") promise defaults.  A file that
  is missing leaves `fields_set` uninitialised, so that `config_set_defaults`
  fills in only what the stack happens not to mark as set, and `dry_run` and
  `auto_flush` may be anything (`Settings` has all four).  A malformed file keeps
  the fields read before the bad line (`ReadLine`); a file with `dry_run = true`
  and then a bad line runs dry, and one whose bad line comes first does not.
  `main` (`tool/main.c:182`) does not look at the result, and the command goes on;
* `sja1105-conf.5.md` writes `[spi-setup]` (`:27`, `:142`), `[general-setup]` (`:105`),
  `staging-area` (`:32`) and `screen-width` (`:119`), and `sja1105-tool-config.1.md:57`
  the first and the third; the code wants `[spi_setup]`, `[general]`, `staging_area`
  and `screen_width`.  Under a section name of the manual page the first pair
  ends the reading (the file `cut` of `MCConfigTool` has one); its keys are skipped;
* `sja1105-tool-config-format.5.md:327` gives `debugen` of the VL forwarding
  parameters bits 24-20, within the first `partspc` (25-16, `:326`); the code has
  bit 15.

Met on the way and excluded by a condition of a property that holds:

* a failed write of a clock register goes unnoticed, since
  `sja1105_clocking_setup` drops the result of each port's setup:
  `OkMeansEveryClockRuns` is checked where transfers do not fail, and
  `SetUpMeansClocked`, where they do, is of ports that were set up and excepts
  the clocks of PLL1, which every RMII port turns off and on again;
* `staging_area_save` returns 0 when `malloc` fails: `OkMeansSaved` is checked with
  memory;
* `load -f` returns `HW_NOT_RESPONDING` where `default -f` and `modify -f` return
  the code for a changed staging area, when the SPI device cannot be configured;
* `sja1105_staging_area_from_xml` returns 0 for a file that is missing or is no
  XML, and `config load` goes on with a configuration nobody has written to.
  Normally its device id is 0 and `staging_area_save` refuses it, with the code of a
  file system error; `LoadTakesTheDocument` is of files that are there;
* in the same function an unknown section is an error only when no known one
  follows it; every `device-id` section is answered with the last one; and with
  the device id after the tables the P/Q/R/S fields of the L2 lookup entries are
  read as 0 (`DeviceFirst`);
* `sja1105_staging_area_to_xml` always returns 0, so that `config save` reports
  success when the file could not be written;
* the P/Q/R/S fields of the L2 lookup parameters are neither written to nor read
  from XML, so that loading one's own export clears them; VL lookup entries
  exported in format 1 are refused (`NotInXml`);
* the words that `sja1105_cbs_commit` sends too many may be a command that overwrites
  another shaper; `ShaperIsAsAsked` is of the shaper committed;
* a `vlan_pmap` of fewer than 8 elements is reported on the console and
  imported; a VL policing type of 2 in XML is read as "not 0", without bag and
  jitter, and stored as 0 (`ImportIsAllOrNothing`);
* the P/Q/R/S layout holds 45 bits of `srcmeta` (`avb-params.c:79`), of 48;
* with `-f` the FDB is packed twice, and the second packing goes on counting where
  the first ended: the switch gets other places than the file holds;
* a `macaddr` or `vlanid` too wide for its field is hashed before packing cuts it;
* the ratio 1 - 2^-53 gives a PTPCLKRATE of 0, which stops the clock
  (`RegistersHoldWhatWasAsked` excepts it);
* every PTP command is written from a structure cleared to zero, so it takes back
  `corrclk4ts`: timestamps then come from the other clock (`Tells` asks that the
  caller named the right one);
* a caller of `config load` may name a file that cannot be read: file and switch then
  agree on whatever the stack held (`OkMeansSaved` and `OkMeansAgreed` compare with
  the configuration in memory);
* a poll of a timestamp whose second transfer fails has consumed the update bit:
  the timestamp is lost;
* `clk_add` whose transfer took effect but was reported as failed, called again,
  moves the clock twice; with two applications the mode (set or add) of one may
  be in force for the value of the other (`alone` in `StepIsAsAsked`);
* `mgmt_route_get` with another application between its two transfers may return
  the other one's route, and 0 (`alone` in `RouteAnswersTheQuestion`).

Seen in code that is not modelled, or not to that detail: an egress timestamp of a
P/Q/R/S chip is unpacked with 24 bits and completed with a mask of 32
(`ptp.c:606`), so `Ptp` is of E/T chips; `sja1105_cbs_commit` sends 32 bytes of
which it filled 16 (`control/port.c:118`; `Dynamic` has the stray ones as garbage
on the command register); `sja1105_port_status_clear` sends a read where it means
a write (`status/port.c:289`) and clears nothing; in dry run the reads of the
library return what the stack held, so `Library` has no dry run.

## 5. Proofs

The theorems hold for every value of the constants the `ASSUME`s of the modules
allow: every number of ports, retries and processes, every set of uploads,
commands, documents and settings files, every `MaxCount`; tables of every length
in `Gtable`; every number of applications, width of clock and stamp and workload
in `Library`; any neighbours, polynomials and counts in `Fdb`; any values, tables
and number of edits in `TableEntry`.  Where a theorem needs more, its `ASSUME` says
so and the table below repeats it.

| theorem | processes | statement |
|---|---|---|
| `TypeCorrect` | any | `Spec => []TypeOK` |
| `OnlyValidConfigurationsRun` | any | `Spec => []OnlyValidRuns` |
| `FloatingIsNoticed` | any, at least one | `Spec => []SomeoneReports` |
| `SuccessMeansRunning` | one | `Spec => []OkMeansRunning` |
| `ResetsAreQuiet` | one | `Spec => ResetOnlyWhenQuiet` |
| `FloatingReported` | one | `Spec => []FloatingIsReported` |
| `FlushHeals` | one, `Outcomes = {"ok"}` | `Spec => []RetryHeals` |
| `FlushImplementsUpdate` | one, hardware | `Spec => ImplementsSwitchUpdate` |
| `TablesAreTheDataSheets` | - | every address in the tables of `lib/clock` is the data sheet's, both families |
| `ClockingImplementsFlush` | any | `ClockingSpec => ImplementsFlush` |
| `DryRunStaysDry` | any | `ClockingSpec => DryRunIsDry` |
| `SetUpPortsAreClocked` | one, `NumPorts <= 5` | `ClockingSpec => []SetUpMeansClocked` |
| `OkMeansClocksRun` | one, `NumPorts <= 5`, `Outcomes = {"ok"}` | `ClockingSpec => []OkMeansEveryClockRuns` |
| `RoundTrip` | - | `Unpack(Pack(c) \o rest)` is `c` and nothing else |
| `CutLoad` | - | a beginning of a packed configuration that passes the checks lacks SGMII at most |
| `SettingsAreSaid` | - | the settings are the last valid words of the file before the first line not understood; any file that can be opened |
| `DocumentTaken` | - | a document read without complaint gives what `Described` says of it |
| `ConfigTypeCorrect` | any | `ConfigSpec => []ConfigTypeOK` |
| `LastWriteIsLoaded` | any, `Tame` | `ConfigSpec => []QuiescentFileIsLastWrite` |
| `ValidLoadsAreFaithful` | any, or one if writes may be cut | `ConfigSpec => []ValidLoadIsFaithful` |
| `OkMeansItIsSaved`, `DirtyMeansItIsWritten` | one, `Tame`, no `malloc` fault | `ConfigSpec => []OkMeansSaved`, `[]DirtyMeansWritten` |
| `OkMeansAgreement` | one, `Tame`, no `malloc` fault | `ConfigSpec => []OkMeansAgreed` |
| `LoadsTakeTheDocument` | any, no `malloc` fault | `ConfigSpec => []LoadTakesTheDocument` |
| `TouchedOnlyWhenAsked` | any | `ConfigSpec => SwitchTouchedOnlyWhenAsked` |
| `ReconstructIsExact` | - | a timestamp completed from its low bits is exact for any width and age |
| `TimestampsAreExact` | any | `LibrarySpec => TimestampIsExact` |
| `StepsAreAsAsked` | any | `LibrarySpec => StepIsAsAsked` |
| `RegistersHoldTheirValue` | any | `LibrarySpec => RegistersHoldWhatWasAsked` |
| `RoutesAnswerTheQuestion` | any | `LibrarySpec => RouteAnswersTheQuestion` |
| `ShapersAreAsAsked` | any | `LibrarySpec => ShaperIsAsAsked` |
| `LibraryTypeCorrect` | any | `LibrarySpec => []LibraryTypeOK` |
| `PackIsTheDataSheets` | - | `Spec => PackWritesTheField` (`Gtable`) |
| `UnpackIsTheDataSheets` | - | `Spec => []UnpackReadsTheField` (`Gtable`) |
| `StoredFieldReadsBack` | - | unpack after pack is the value cut to the width |
| `PatchKeepsApart` | - | `patch_fdb` gives entries of a bin different places, from any counts |
| `EntriesAlwaysKeepApart` | - | `Spec => []EntriesKeepApart` (`Fdb`) |
| `ShiftRegisterDivides` | - | a CRC register of any width holds the remainder of a division |
| `CrcIsAlwaysIeee8023` | - | `Spec => []CrcIsIeee8023` (`Checksum`) |
| `EntriesAreInTheirBins` | - | `Spec => []EveryEntryInItsBin` (`Fdb`) |
| `LayoutRoundTrip` | - | unpack after pack for a whole entry, any layout without overlap |
| `EntryTypeCorrect` | - | `Spec => []TypeOK` (`TableEntry`) |
| `EditExact`, `OthersKeep` | - | `Spec => EditIsExact`, `OthersKeepTheEntry` |
| `ExportKept`, `ImportAllOrNothing` | - | `Spec => ExportImportKeeps`, `ImportIsAllOrNothing` |

### Hypotheses and why the code justifies them

* `Tame`: the commands use no configuration with more entries than the arrays of
  `lib/include/static-config.h` and `CHECK_COUNT` let in (one above the maximum
  included).  Beyond that the C code writes behind the arrays; `ConfigOverflow`
  shows that the tool lets a user get there, and what then happens to the file.
  `Tame` is true of the instances of `ConfigOne` and `ConfigPair`.
* `"malloc" \notin Faults`: without memory `staging_area_save` returns 0 and has
  written nothing (section 4), and a packed configuration is not there to be
  loaded again.
* one process, for the return codes against file and switch: with two, another
  command may change either before the first one ends.
* cut writes with one process (`InTurn`): of two writers at the same time one may
  be cut behind the other's beginning, and a splice can load.
* `NumPorts <= 5`: the tables of addresses in `lib/clock` have five rows.
* `Outcomes = {"ok"}`: `sja1105_clocking_setup` drops the result of a port's setup.
* Assumptions on constants: sections, pairs and entries of the files listed have
  the form of their constructors (`ConfFilesAssumption`, `XmlFilesAssumption`);
  there is a command, and commands are well formed (`CommandsAssumption`);
  callers of the library name routes and shapers that exist
  (`IndicesAssumption`; the library does not look) and times that 63 bits of
  nanoseconds hold (`WorkloadsAssumption`); a register of 32 bits is no wider
  than the low bytes of one of 64 (`PtpAssumption`); the fields of a layout share
  no bit and lie within the entry (`LayoutsAssumption`: it speaks of the layouts of
  the code only, and TLC evaluates it for each of them in `TableEntries`); VLAN ids,
  addresses and polynomials fit their fields of 12, 48 and 8 bits
  (`NeighboursAssumption`, `PolysAssumption`).

### The arguments, each by an inductive invariant

**Flush.**

* `TypeInv` is `TypeOK` with two facts it needs: the poll counter is positive
  while polling, and the index of the clock setup names a port.
* `ValidInv`: a process past its first check holds a valid configuration, and
  the configuration running and the one being received come from such a
  process.  The second part is what makes interleaved streams harmless: the
  loader spoils a stream as soon as two configurations mix.
* `SomeoneKnows`: as long as the switch has no configuration, some process is
  at a point from which it will either read the status or fail, or has failed
  already.  `SomeoneReports` alone is not inductive: it says nothing before
  all are done.
* `SoleInv` (one process): between reset and the end of the upload, the loader
  has received exactly the messages `0..idx-1` of `mem`, or is spoiled; after
  it, the switch runs `mem` or nothing.
* `QuietBeforeReset`: at the reset, egress is inhibited.
* `FloatInv`, `HealInv`: the same for the failing and for the never failing
  bus; `HealInv` says that the stream is never spoiled after a reset.
* `RefinementInv`: `SoleInv` and `ValidInv` under the mapping of
  `FlushRefinement`; every step then is a step of `SwitchUpdate` or stutters.

**Clocks.** `ClockingImplementsFlush` rests on `ClockingInv`: while a process
sets up a port, the count of its writes done is below the length of the port's
list.  A write that is not the last then stutters in `Flush`, and the last one,
or one that failed, is the step of `Flush` for the port.  What is proved of
`Flush` over the variables they share therefore holds register by register
(`ClockedOnlyValidRuns`).  `SetUpPortsAreClocked` rests on `RegsInv`: while the
upload runs no port is set up (`Streams`), the writes done for the port at hand
are in force (`SetsUp`), and so are all writes of every port that counts as set
up (`PortsAreDone`).  It is inductive because the rows of two ports are different
registers and no port writes one twice, PLL1 excepted (`RowsApart`), so that no
write takes another back; that writes in force are clocks that run is then a
calculation for each mode, role and speed.  `PllInv` adds, for the bus that never
fails, that PLL1 runs whenever a port before the one at hand needs it, but
between the two writes with which that port turns it off and on.

**Formats.** `ParsedTables` is a recursive function, and facts about all its
inputs need induction.  The induction theorems of the library take an operator,
which the provers cannot instantiate; `SetInduction` states induction over the
naturals for a *set* instead, and each induction of `FormatProofs` is the
set of the numbers for which its claim holds.  `RoundTrip` follows the parse loop
through `Pack`: after `j` tables, what has been parsed is what the first `j`
tables of the configuration hold (`Begins` says how far a file agrees with the
packed form).  `CutLoad` is the same walk over a file that ends early:
`xmii_params` comes after every table but SGMII, and `check_valid` demands it.

**Documents.** `ParseRoot` is a fold over sections of a fold over tables of a fold
over entries.  Each level has a lemma of the same shape: one turn adds what that
element holds to every table and to nothing else (`EntryTurns`, `TableTurns`,
`SectionMoves`), or is an error that stays; turns that only add amount to the
sum of what they add, in order (`TurnsTogether`, `AddsInTurn`).  The device id is
known before the first table and does not change after it (`DeviceStaysKnown`), so
that all fields are those of one device.  `LoadsTakeTheDocument` carries the
result from the reader to the return code (`TookInv`), and `RoundTrip` gives its
second part.

**Commands.** `ConfigTypeCorrect` needs that what `Unpack` and the XML reader
return is a configuration, whatever the file holds.  Every step of `ConfigNext`
is then brought to a short list of what it does to file and memory (`Does`, one
lemma for each kind of step), which the other proofs use in place of the
actions.  `StoredInv`: what is held fits the arrays, a process about to write has
a device id, and after a whole write the file begins with the packed form of
what was written (`Whole`), which `RoundTrip` turns into
`QuiescentFileIsLastWrite`; interleaved whole writes keep it because each
replaces the file from its first unit.  `FaithfulInv` says the same of a file that
may end early.  `SavedInv` and `AgreedInv` carry these facts from the save to the
return code, `AgreedInv` with `SoleInv` of `FlushProofs`.  `AskedInv`: whoever is on
the way to the switch has a command that flushes or settings that say so, and
runs under the settings its file says (`SettingsAreSaid`); a step of a flush that sends
something changes where its process is (`SendingMoves`).

**Library.** `CallInv` types the calls.  `TimestampsAreExact` rests on `StampInv`: a
timestamp whose age is known has the low bits of its clock that many ticks ago
(`Dated`).  It survives a tick (`OlderStaysDated`), and a step of the clock makes
the age unknown (`SteppedStaysDated`).  The remainders are those of integers, so
the lemmas at the head of `LibraryProofs` derive them from division.
`StepsAreAsAsked` rests on `ModeInv`: while nobody else has written since the mode
was, the mode in the chip is that of the call; `WindowInv` is the same for the
window of the management routes and the slopes of the shapers.  `ShownInv` holds
of disturbed calls too: as long as somebody is to read the window, it shows a
route as the switch has it.
`RegistersHoldTheirValue` needs no history: what is sent is computed in the step
that stores it, and the proof is that the checks let no value through that
would be cut, with the fixed-point arithmetic of the rate.

**Bits and entries.** `GtableProofs` needs no invariant beyond the type
(`GtableTypeCorrect`): it shows that the two address computations compose to the
wire order (`BoxAddrIsWireOrder`), that no two boxes share an address
(`BoxAddrIsInjective`), and that boxes and their bit ranges cut a field exactly
(`BoxesCutTheField`).  `PatchKeepsApart` counts: of two entries of a bin, the later
has more before it (`EarlierGrows`), by less than four; and four numbers in a row
are different by 4 also where the 8-bit counter wraps (`FourInARow`), since 4
divides 256.

**Checksums.** The register and the division are recursive functions of different
kinds: one goes through the bits, the other down the exponents.
`ShiftRegisterDivides` runs them side by side.  The invariant is that after `k` of
`N` bits the rest of the division is the register times x^(N-k) over the bits
still to come; `OneTurn` is its step, where the highest exponent of the rest is
in it exactly when the register feeds back.  `CrcIsAlwaysIeee8023` adds that the
bits are fed in the data sheet's order (`BitsAreFedInOrder`) and that the reset value
is the inversion of the first 32 of them; `EntriesAreInTheirBins` that Koopman's
notation and the 8-bit register leave out terms both of which the division has.

**Entries.** `LayoutRoundTrip` rests on `PackedBitsOfField`, that a field's bits in
a packed entry are its own.  What the commands do to an entry needs more, because
an entry is often not unpacked with the layout that packed it.  `EntrySurvives`
settles that once: a VL policing entry is read with the type that its packed form
holds (`TypeIsStored`), and a VL lookup entry of format 1, read as format 0,
finds every field of format 1 at the end of one of format 0 whose other bits are
clear (`WidenedField`).  With the type invariant, `ContentAfterSave` then says what
the switch is given after any save, and the four properties compare it with what
it was given before.  `EditExact` adds that a field which the old type of an entry
did not have was loaded as 0 (`AbsentIsZero`).  The two theorems about XML compare
the lists of `TableFields` with the layouts, table by table (`ListsAgree`,
`LayoutIsTaken`); where a list of P/Q/R/S fields serves E/T too, the fields of E/T
are shown to be among them (`GeneralIdsGrow`, `MacIdsGrow`, `AvbIdsGrow`).

### Only model-checked

* `FlushTerminates`: liveness, which the proof system does not cover.

Every safety property that a run finds to hold is stated by a theorem; where the
theorem has a hypothesis, the run that checks the property satisfies it.

## 6. What is abstracted or left out

* CRC collisions; damage to the file other than truncation and splicing.
* The array neighbour that the entry `MAX + 1` overwrites, and entry counts so
  large that the packed size overflows.
* FDB indices in `ConfigTool` (they are in `Fdb` and, as a choice, in `TableEntry`).
* The SGMII registers; of a clock register all but what the clock tree depends
  on (drive strengths, block bits).
* A `device_id` forced in the configuration file (the model takes the chip's).
* `sja1105_spi_configure` returning success on a mismatched device id, after
  which transfers fail: covered by `lost` transfers.
* libxml; in `XmlRead`, the fields of an entry beyond what tells entries apart, in
  `TableEntry` anything but the fields of one entry; repeated elements.
* In `TableEntry`: changes of the device id between commands, elements the user
  adds to the XML, lists of too many numbers for an array.
* In `ConfFile`: comments, blank lines, and what a number means.
* In `Library`: dry run, P/Q/R/S egress timestamps, the mode of `inhibit_tx` (it is
  in `Flush`).
* Status readout, raw register access, the `reset` command, string parsing and the
  scripts: one transfer or one pass over characters, with no state of their own.
* The default configuration: data.
* The quirks of `Gtable` that the tool never sets.
* Argument parsing, printing, logging.
* Two concurrent `modify`: one edit is lost.  Nothing is promised here, so no
  property is stated; nor of a torn write with two processes, after which
  `ValidLoadIsFaithful` would fail.

## 7. Plan

Done: staging area, commands, flush, clock setup, PTP, dynamic reconfiguration, bit
fields, checksums, FDB, table layouts, configuration file, XML reader; theorems for
all but liveness.  Left, in this order:

1. `SpiLong`: the six-bit word count of long reads.
2. `Strings`: array and number parsing with the edge at the last element.
3. The `reset` command, port status and `InitScript` as further actors.
