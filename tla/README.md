# ModbusSim in TLA+

ModbusSim simulates Modbus TCP devices: a project file and one signal file per
device become register maps behind Modbus servers, one address (and possibly
VLAN subinterface) per device; a Flask API and a web page watch and edit them
while they run. The state is small and the code sequential to look at; what is
hard is that Flask gives every request a thread, the Modbus servers run on an
event loop in another, most operations take no lock, a process may die between
any two of their steps, and disk and kernel outlive it.

This directory holds TLA+ modules of those parts, TLC configurations that check
them, and TLAPS proofs. `tlc -config X.cfg MCModule` runs a configuration,
`tlapm XProofs.tla` a proof module. Paths below are relative to `modbus_sim/`.

## Inventory

| part | state | operations | hard | right when |
|---|---|---|---|---|
| register store, `register_map.py` | words, simulation profiles, an RLock | block/bit reads and writes, `read_signal`, `set_signal`, bulk operations, profile rebuild | two threads; lookup and build outside the lock; re-entry | locked blocks are atomic, generated registers masked, no bit lost |
| values, `register_map.py`, `simulator.py` | a signal's registers, its motion, the clock | codec, `resolve_profile`, generators | widths, complements, word order, rounding, ranges beyond the type | what a client sets a master can see; both readers see one value |
| Modbus bridge and servers, `modbus_server.py` | a server per address and port, its map | `_make_action`, bind, hot_reload, stop | event loop against API threads; bind fails half way | what is served is what the engine holds |
| edits of a running simulation, `state_machine.py` | live maps, signal CSVs, `simulation.json` | hot reload (CSV, JSON), `update_signal`, device / signal / bulk simulation, global settings | lock-free, several steps each, crash in between, shared mutable lists, a reset meanwhile | memory, server, files, profiles agree |
| engine lifecycle, `state_machine.py`, `main.py` | SETUP/RUNNING/STOPPING, config, lists, lock file | upload, start, reset, change of NIC, stop, boots plain / `--reset` / `--restore` | partial failure, crash, concurrent requests | RUNNING means serving; disk is memory; kernel clean after a reset |
| network manager, `network_manager.py` | interfaces and addresses it made | setup, teardown | `ip` fails half way; memory lost with the process | removes exactly what was made |
| GUI supervisor, `gui_server.py` | engine process, its state, reader and health threads | start, stop, restart, status | late reports about an older engine | stop is final, no engine forgotten, exits noticed |
| config loader, `config_loader.py` | accumulators of one pass | `load_and_validate`, `device_by_id` | rules across devices; what passes but cannot be used | accepted iff legal; every device reachable |
| signal file loader, `signal_loader.py` | accumulators of one pass | `parse_and_validate`, `signals_to_csv` | rules across rows; report all, build none | accepted iff legal; written files are readable |
| Zenon import, `../import/zenon_csv.py`, `api_server.py` | an export kept on disk between two requests | parse, generate | several uploads that can fail one by one; another tab | an import that answers is ready to start |
| web page, `webui/app.js`, `runtime.js` | view, selection, table, values, timer | state poll, `enter`/`leave`, select, value poll | answers late, lost, out of order | the table is of the selected device |
| search and bulk apply, `webui/alldevices.js` | query, matches, modal | search, apply | debounce against answers | applies to what is shown |
| other pages, scripts, service files | – | forms, rendering, launching | – | – |

The supervisor starts the engine process; the page talks to the engine through
the supervisor's proxy; requests call the lifecycle and the edits; both build
register maps and hand them to the Modbus servers; a loader stands between
every file or upload and what the engine holds; an import is a client of both
loaders inside the engine. PROJECT.json lists every component with its status
and every hazard at its line.

## Modules

**RegisterOps, RegisterMap, AtomicRegisterMap** (register store).
`RegisterOps` has the signals, and each call of the API or of the Modbus loop as
a sequence of locked sections of reads and writes. A word is the set of its set
bits, so a masked write is what `|=` and `&= ~` do. `RegisterMap` runs the calls
access by access: `Enter` and `Leave` are the RLock, `LookupHit`/`LookupMiss`
the test `read_signal` makes before it locks, `AssignDefaults` and
`BuildProfiles` what `set_sim_defaults` does outside the lock, `LoadWord` and
`StoreBit` the read-modify-write of a bool. `AtomicRegisterMap` is the promise:
each section at one instant, no lock. `ImplementsAtomic` is the refinement, a
section taking effect where the lock is released.

**SignalValues** (values). One signal, its two registers and a clock. The codec
(`TypedToRaw`, `Words`, `Interpreted`), the resolution of a profile, the five
motions, and the two readers: the API's and a Modbus master's, which interprets
the block it gets. A register has `WordBits` bits; time and generated values are
counted in quarters, where a sine is exact. A step or a period that is not
positive counts as absent, as in the code. float32 is left out. The loader takes
signals of any type on coils, so the model does: a number there keeps its words
(`NumberInCoil`), the API returns it whole, and a master, which reads coils bit by
bit, can see the lowest bit of its low word (`Shows`).

**HotReload** (edits). One action per step of the code: validate, empty the CSV,
write it, build the map, swap the server's, swap the engine's, swap the list.
A map is an object that the engine, the server and requests refer to, because
in-place edits reach it through any of them. `Crash` may come between any two
steps; a file cut short is `Torn`, a content that does not parse. A request may
fail half-way: pymodbus refuses to build the server of a device with an address
beyond 65535 (`Beyond`, `SwapFails`; the loader accepts such addresses), and a
`sim_*` edit has cleared a bound that is no number before it refuses
(`ApplyFields`). Three history variables say where that matters: `crossed` has the
devices of which an edit began while another was under way, until a list sent
whole replaces theirs with no edit beside it; `parted` those a request that failed
left at odds with their file, until the file is written again; `mixed` notes that
a `set_simulation` crossed another request, until one assigns with none beside it.
Abstractions: names are fixed (no renaming), one register per signal, restore is
one step.

**ProjectReset** (uploads and edits against resets). One device over several
projects, the steps of uploads, edits and a reset with everything told apart by the
project it is of. `Outside` are the projects whose config puts the signal file
elsewhere than in `devices/`; `far` is that file. `overlapped` is a history
variable: an upload or edit and a reset have been under way together.

**NetworkOps, EngineLifecycle** (engine and network manager). Requests of several
threads, their steps one at a time; `setup` link by link and address by address; bind
socket by socket; the wipe of `--reset` file by file in any order the directory may
list them (`wiping` until something is uploaded again); the clearing of memory is one
step, and so is teardown, in which each `ip` may fail. A config says which of its
lines the rewriting functions find (`vlanLine`, `nicLine`), since they edit text by
patterns (`Edited`). NICs come and go, `ip` and bind fail, other programs take ports.
Each boot has root or not (`Rights`). Waits (5 s, 15 s) are unbounded, SIGTERM is
`Stop` or `Crash`, a refused request is no step.

**EngineProcess** (supervisor). What holds the supervisor's lock is one step.
Each engine brings a reader thread, which binds to whatever `_proc` is when it
begins and reports later, and a health waiter that hears and reports in two
steps. `wanted` and `late` are history variables. An engine told to stop keeps
no port here, which only allows more behaviours. The log ring, the lock file and
the restore flag are left out.

**ConfigRules, ConfigLoader** (config loader). `ConfigRules` states when devices are
legal, of devices and pairs of devices; for unit ids it has the rule of the code
(`UnitAccepted`, 1-255) and that of the requirements (`UnitSpecified`, 1-247).
`ConfigLoader` is the pass: `ReadDevice` is one iteration with `seen_ids`,
`seen_ip_port_unit` and `errors`; `Answer` locks what was accepted, `UploadSignals`
finds a device by the text in the URL and writes its `signals_file`, `Restart` loads
every device from the file its row names.

**SignalRules, SignalLoader** (signal files). Likewise: `SignalRules` says when rows
are legal (`WellFormed`, `Clash`), `SignalLoader` is the loop with `seen_names`,
`bool_bits`, `occupied`, `errors`. `Persist` and `Restore` are the callers: an
accepted list is written with `signals_to_csv`, and another process reads it. A
default passes the checks as any number and is converted afterwards: inf on an integer
or a value beyond float32 makes `parse_and_validate` raise (`Raise`, `Unwind`;
`Convertible` says of which rows). Fields are parsed values, `Empty`, or `Bad`;
`scale` stands for itself and the simulation columns. A bool in a word and a number at
the same address do not clash: the code allows it and the rules in
`../docs/REQUIREMENTS.md:635` speak of non-bool signals.

**Acceptance** (what both loaders promise). `Ask` hands over a file, `Answer`
keeps it whole if it is one the code accepts and otherwise changes nothing.
`ConfigLoader` implements it with the locked config (`LocksLegalConfigs`),
`SignalLoader` with the rows on disk (`KeepsLegalFiles`), where a file is kept if it
is legal and its defaults are convertible. A client that only sees answers, as those
of ZenonImport, may therefore take a call of a loader for one step.

**ZenonImport** (import). The two requests step by step. What is generated is rows and
devices, and whether the engine takes them is said by `SignalRules` and `ConfigRules`,
to which the two loader modules are shown to be exact. `Csv`, `Yaml` and `YamlId` are
the generated texts as the loaders read them: a row stands in the place of its
variable, the last entry of a device speaks for it, a text id without quotes may be
read as a number. Other tabs parse meanwhile; signals are also uploaded by hand.

**WebPage** (page). Each `await` ends an action; the answer's action does the rest
of the function and may send the next request. The wire holds the requests per
route. Answers of a route may come in any order, because both Flask servers are
threaded and browsers open several connections. The value poll does not wait for
its last answer. The state poll is one step: a late state is that of an engine
which moves later.

**MC modules** give the constants values; **Proofs modules** extend their module.
`LatecomerProofs` extends three, WebPage, EngineProcess and ProjectReset, which have
one thing in common: somebody acts on what has been replaced meanwhile, and a
history variable (`overtaken`, `late`, `overlapped`) notes that this happened.
Where they would share a name (`Init`, `TypeOK`, `None`, ...), those of
EngineProcess and ProjectReset are called after the component (`SupervisorInit`,
`ResetTypeOK`, `NoEngine`); `phase` is the engine's state in ProjectReset.
The type invariant is in a configuration where a plausible fault would break it
first, in EngineLifecycle (a file cut short is read back). That of every component
is proved.

## What the runs show

| run | shows | bounds |
|---|---|---|
| `register_map` | one API thread against the Modbus loop: no torn or unmasked read, no lost bit, settings applied, every block atomic (refinement), every call returns | 2-bit words, a 32-bit value, two bools in a word, a coil; every kind of call. Two words and two bits are what tearing and loss need; the proofs cover any number of threads and bits |
| `signal_values` | what is set or is a default is what a master can see, modulo the width; API and master agree on a moving value; it stays in its range, and stairs hold and go up by one step | 3-bit registers, values down to -33 and up to 64 so that every type wraps; every kind of type in coils too; ranges inside, across and outside the type's; 12 s, three times the longest period |
| `hot_reload` | two clients edit a device at once, one in place, one by replacing its list, in bulk and through the settings, accepted, refused or failing half-way, with a crash and restore anywhere: server and engine share a map, settings on disk are those in force, nothing invalid is served; file and profiles follow, and an update changes one signal, unless edits crossed, a `set_simulation` crossed another request (profiles), or a request failed half-way (file, profiles); and what puts those right does | 1 device of 2 signals, 3 addresses and one beyond, 3 maps alive (never a block): a device's map, file and list depend on no other device's, which the proofs take in. One client replaces lists: with two, server and engine part (`hot_reload_twice`) |
| `project_reset` | something of a reset project is left in memory, or in the directory reset knows, only by an upload or edit that was under way during a reset | 2 clients, 3 projects: a request can outlive one project into the next but one; the second has its file elsewhere |
| `lifecycle` | a client that sets up, starts, resets and stops with every failure and crash, and three ways to boot: RUNNING serves and SETUP has no maps, disk is memory but for what a rewriting looks for in vain, a lock file means a project or a wipe not finished | 2 devices, one in a VLAN, 1 NIC |
| `lifecycle_moves` | starts, bind failures, changes of NIC: a reset leaves nothing in the kernel | 2 NICs, one VLAN layout |
| `engine_process` | stops are final, an engine is lost only to a late reader, every exit is noticed | 3 engines, 1 client in TLC, any number in the proof |
| `config_loader` | the pass accepts exactly the legal configs (unit ids 1-255), a locked one loses no device and serves each unit once, a device with a file of its own keeps its list over a restart; the pass implements one answer (refinement) | ≤ 3 devices from 6 that meet in id, endpoint or file, ≤ 2 with the 14 malformed ones, every fault above the devices |
| `signal_loader` | the pass accepts exactly the legal files, reports every bad row, and reads back what it wrote; the pass implements one answer (refinement), an exception included | ≤ 3 rows from 8 that meet each other; ≤ 2 with the 10 malformed ones and 4 with odd defaults |
| `zenon_import` | an import that answers is ready to start; one that fails after it locked the project fails for what the export or the form says; a clean export is imported whole | a tab that imports, one that parses; 2 devices, exports of ≤ 3 variables that meet in a name, a register or a bit; 13 forms |
| `web_page` | the table is of the selected device unless answers overtook each other; view and values come right in the end | 2 devices, 2 `enter()` under way, 2 values requests of the poll, one user request for the table on the wire when another is sent |

The run `hot_reload_twice` is a violation: TLC finds the single source of truth
broken by two reloads at once (see the disagreements).

Every property of a passing run has a mutant, a faulty variant of a definition
kept beside it ("Faulty variant" in the modules), with which TLC finds the
property violated. Deadlock is checked in every run but two. In `signal_values`
the clock stops at its bound. In `zenon_import` the system really stops: a config
locked with an id that YAML reads as a number can neither be given its signals
nor started nor, before it has run, reset.

**Fairness.** `RegisterMap`: a thread inside a call takes its next step (weak),
and one that waits for the lock gets it when it is released again and again
(strong: the lock is not fair in the OS, but its holders only compute).
`EngineProcess`: the reader threads run (weak); neither clients nor engines are
assumed to do anything. `WebPage`: timers fire, the oldest request of a route is
answered (weak); answers succeed from a point on, without which no page can show
anything.

## What is proved

For every value of the constants that meets the assumptions stated in the
modules. Each proof shows an inductive invariant, which says more than the
property because the property alone does not survive a step. Where a theorem
has a hypothesis (`ASSUME`), it says what the clients do, and the property is
false without it: the disagreements below have the counterexamples.

* `RegisterMapProofs`, for any signals, word size and number of threads:
  `TypeCorrect`, `LockSafe`, `ReadsConsistent`, `BitsKept`, `ReadsMasked`, and
  `Atomicity`, that the locked store implements `AtomicRegisterMap`. The
  invariant adds where a thread is in its call (`Placed`), without which it could
  hold the lock at no access; `RInv` that a loaded word is the stored one while
  the lock is held, which is why the store of a bool undoes nothing. For the
  refinement, `Written` says each bit of the store is what the last write of the
  block so far made it, `Recorded` that what a block has read so far is of one
  store and one set of profiles: the step that releases the lock is the abstract
  block, every other step stutters. `SettingsInForce` needs one thread that sets
  the simulation (`OneSetter`).
* `SignalValuesProofs`, for any signals and settings: `StaysInRange`,
  `StaircasesHold`. Each motion adds a part of the span between none and all of
  it; a staircase is below its high before its last level because the number of
  jumps is rounded up by half a jump at most. For registers of the code's 16 bits
  (`CodeWidth`) and any values, lows, highs and times: `TypeCorrect`,
  `SettingsLand`, `ReadersAgree`. The steps are: setting a bit leaves a word and
  is read back (`BitSet`), the words of a raw value stand for it
  (`UnsignedReadsBack`), two's complement brings it into the type's range a
  multiple of the width away from the value it was made from (`IntReadsBack`),
  and there is one such value (`OneInRange`).
* `HotReloadProofs`, for any devices, signals, requests and number of clients:
  `OnlyValidServed`, `TypeCorrect`. What a thread is about to write or to hand over
  is valid (`Checked`, `Swapping`), and an edit of simulation fields holds the maps
  of all devices it still has to deal with (`Turn`), so that what it writes later is
  the list of a map that was good. `FilesCurrent`, `EditsOne` and `ProfilesFollow`
  too hold for any clients: a thread that edits a device outside `crossed` knows that
  no other does (`CrossInv`), so that each step from the request to the last swap
  brings one more of file, map and profiles in line (`RowsInv`, `ApartInv`,
  `ProfilesInv`); a device enters `crossed` with the second request, before that has
  done anything. Two need a hypothesis on who acts at once: `ReloadsAgree` that no
  two clients replace the same device's list (`OneReloader`), `SetterSaves` that one
  sets the simulation (`OneSetter`).
* `EngineLifecycleProofs`, for any devices, networks, failures, boots and crashes, and
  **one client**: `LockIsOfProject`, `TypeCorrect`. One client's requests and the
  restore never overlap (`Alone`), so what a thread found on disk is there at its next
  step (`Prepared`); `LockIsOfProject` excepts a `--reset` that is wiping the
  directory or died over it, as the property does. If the client never changes the
  interface (`NoChange`), `RunningServesAll` and `DiskIsCurrent`: a start that fails
  is not RUNNING, and each step of a save has brought one more of the config and the
  lists to disk (`QInv`), of the config as much as its text lets the rewriting find
  (`Holds`). With `KernelOwned`, `ResetLeavesNothing`: everything in the kernel is in
  the manager's memory or is what a request under way is about to record (`NInv`). TLC
  refutes it for boots with `--reset` or `--restore`, for an `ip` that fails at will
  and for a switch of VLANs.
* `ConfigLoaderProofs`, for any configs: `TypeCorrect`, `ScanIsExact`,
  `LockedIsBindable`, `OwnFilesKept`. The accumulators hold the ids and units of
  the devices read so far, no more and no less; without an error the devices
  built are those of the file; a locked config is a legal one. `OneAnswer`, that
  the pass implements Acceptance, adds that there is an error at the end of it if
  and only if the whole config breaks a rule (`Answered`): the step that answers
  is the abstract one, and reading, signals and restarts stutter.
* `SignalLoaderProofs`, for any files: `TypeCorrect` (an accepted list is of
  well-formed signals), `ScanIsExact`, `AllAreReported`, `RestoresExactly`. The
  accumulators hold exactly the names, registers and bits that the rows so far claim
  while no error was found, so a new row is refused exactly when it clashes with one
  of them. A row written from a signal is well-formed, clashes where the signal's own
  row did, and gives the same signal (`RInv`). `OneAnswer` likewise (a file on which
  the pass raises is not kept either), with `RoundTrip` for the rows on disk: a row
  written from the signal built of a well-formed row is that row.
* `ZenonImportProofs`, for any exports, forms and number of tabs: `TypeCorrect`,
  `CleanTaken`. Two variables of a clean export keep names, registers and bits of
  their own in the generated rows. If one tab imports, whatever others parse:
  `ReadyToStart`, `FailsForCause`. What is locked is the config of the form being
  imported, and the entries that are no longer to do have their signals; the ids
  of a locked config differ, so that each entry speaks for a device of its own.
  With two that import a reset lets the second lock another config under the first.
* `LatecomerProofs`, that nothing but the latecomer breaks the component. For the
  page, any devices and any number of requests on the wire: `TypeCorrect`,
  `TableOfSelected`. While no answer with signals has overtaken another, the
  youngest request for signals is for the selected device, so that its answer,
  which comes last, puts the table right. For the supervisor, any number of clients
  and engines: `SupervisorTypeCorrect`, `StopsAreFinal`, `EnginesKnown`.
  `StopIsFinal` is inductive by itself; `OrphanOnlyByLateReader` together with the
  types. For edits against resets, any number of clients and projects:
  `ResetTypeCorrect`, `NothingLeftOver`. As long as no upload or edit and a reset have
  overlapped, every one under way is of the present project and no reset is, and
  a reset has removed the files it knows before the next project begins.

Every invariant and action property of the passing runs, and each of the three
refinements, is the statement of a theorem. Only model-checked: the liveness
properties `CallsReturn`, `ExitNoticed`, `ViewFollows` and `ValuesSettle`, which are
out of the prover's reach, and the codec for widths other than 16 (powers of two of
any width would need induction, the run has 3).

## Disagreements

Where the code does not do what a text in the repository says. The first is the
run `hot_reload_twice`. The others are in no run; TLC refutes each when the
property named is put in the configuration named, with the change given (jobs,
settings at the start, threads) in place of what the configuration has.

| the text says | the code does | reproduce |
|---|---|---|
| `register_map.py:3-5` one source of truth for server and API | two hot reloads of a device interleave between the two swaps (`state_machine.py:437-438`) | HotReloadTwice |
| `state_machine.py:446` edit ONE signal | of two edits at once the second undoes the first | HotReloadTwice: `TwoUpdates`, `LeavesOthers` |
| `state_machine.py:557-558` the CSV is rewritten so the change survives | two edits write it in one order and change the rows in the other; after a reload it is written from the old map | HotReloadTwice: `TwoSignalSims` or `ReloadAndSignalSim`, `ChangesSurvive` |
| `state_machine.py:475` settings are applied live | a map being built then keeps the old ones | HotReloadTwice: `ReloadAndSwitch`, `SettingsApply` |
| `register_map.py:84-86` an edit takes effect on the next read | two edits of a device's simulation can install the older profiles last | HotReloadTwice: `TwoSignalSims`, `StartOn`, `SettingsApply` |
| `state_machine.py:513-514` only fields that validate are changed | a range that does not parse is cleared first | HotReloadTwice: `BadRange`, `Editor = {e1}`, `OnlyValidFields` |
| `simulator.py:55-56` an atomic file write | the file is emptied first | HotReloadTwice: `JustSwitch`, `Editor = {e1}`, `WholeSimFile` |
| `main.py:53-54` a crash followed by `--reset` leaves the kernel clean | teardown is called on a manager just made, which removes nothing | LifecycleBootReset |
| `main.py:77` a locked config exists | a wipe cut short (`:90`) can leave the lock file alone, and the next boot refuses | LifecycleBootReset: `LockIsOfConfig` |
| `state_machine.py:92-94` the mode is replaced or inserted | where neither pattern matches the file stays as it was, and memory does not | LifecycleBootReset: `Rewrites`, `ConfigSaved` |
| `state_machine.py:710` reset tears down the network | not what a failed start before the last made | MCEngineLifecycle: `Flattens`, `ResetCleansNetwork` |
| `main.py:229-230` retry once the cause is fixed | a retry cannot bind the port its own failed start holds | MCEngineLifecycle: `IpMayFail = FALSE`, `BindFailsForCause` |
| `state_machine.py:762` a brief outage | a failed change leaves RUNNING with nothing served | LifecycleMoves: `RunningServes` |
| `state_machine.py:792` roll back | the file keeps the new interface | LifecycleMoves: `DiskMatches` |
| `../README.md:432` RUNNING has maps and servers | two starts at once can leave RUNNING without maps | LifecycleBootReset: `BothStart`, two workers, `RunningServes` |
| `../README.md:124` one config, locked | two uploads at once both pass | LifecycleBootReset: `BothUpload`, two workers, `DiskMatches` |
| `main.py:72` a lock file means a locked config | an upload that passed the guard writes the lock after a reset of another client removed it | LifecycleBootReset: `UploadAndReset`, two workers, `Privileged = FALSE`, `LockMeansProject` |
| `state_machine.py:710` reset clears disk and memory | a signal file the config puts outside `devices/` stays (`:739`), with no other request about | ProjectReset: `DiskCleared` |
| `state_machine.py:710` the same | an upload or edit in flight writes files and installs maps of the old project after it | ProjectReset: `LeftOverByOverlap` without its premise `~overlapped` |
| `gui_server.py:42` manages the engine subprocess | a reader that reports after the next start makes it forget the new engine (`:137`) | EngineProcessOrphan |
| `gui_server.py:111` the pause lets the engine exit | a slow engine makes the restart end with none | EngineProcessOrphan: `RestartStarts` |
| `../docs/REQUIREMENTS.md:493` a unit id is 1–247 | it is accepted up to 255 (`config_loader.py:163`) | MCConfigLoader: `UnitsAsSpecified` |
| `../docs/REQUIREMENTS.md:476` an id is a string | an unquoted number is accepted and locked, and no URL names it (`config_loader.py:136`) | MCConfigLoader: `IdsAreText` |
| `signal_loader.py:101` returns signals or errors | a default that cannot be converted, as inf on an integer, makes it raise (`:278`, `:307-322`) | MCSignalLoader: `AlwaysReturns` |
| `../docs/REQUIREMENTS.md:571` `word_order` is ignored on 16-bit types and bool | one that is neither order is refused there too | MCSignalLoader: `NarrowOrderIgnored` |
| `register_map.py:10` a coil stores one bit | a signal of a number type on a coil stores words in it (`:302-303`) | MCSignalValues: `BitsInCoils` |
| `register_map.py:218` the raw register interpretation | the API rounds what a master gets truncated | MCSignalValues: `ApiIsRegister` |
| `simulator.py:152` stairs go low, high, low | 2.5 jumps are rounded to 2, and the last level is below the high (`:160`) | MCSignalValues: `StairsReachHigh` |
| `register_map.py:18-20` generation always wins over a write | `read_signal` looks up before it locks; a read racing a change of settings returns the stored value | MCRegisterMap: `Web = {w1, w2}`, `SimSetters = {w2}`, `GenerationWins` |
| `register_map.py:77` swap settings and rebuild in place | of two changes at once the first's profiles may be installed last | MCRegisterMap: `Web` and `SimSetters` `{w1, w2}`, `SettingsApplied` |
| `../import/zenon_csv.py:182-183` the output passes the loader | negative offsets, bits beyond 15 and shared registers are passed on (`../README.md:153` asks for clean exports: `CleanImports`) | MCZenonImport: `GeneratedFits` |
| `webui/runtime.js:11` signals of selected device | whichever answer comes last is shown (`:203`), and its rows' edits go to the selected one | WebPageOvertaken |

The README calls SETUP → RUNNING one-way (`../README.md:434`), but `reset` returns
in-process; it says the network is never torn down (`../README.md:38`,
`../docs/REQUIREMENTS.md:1104`), but `stop` and `reset` do so.

## Not modelled

* float32, whose rounding TLA+ has no arithmetic for, and the rounding of
  generated values between quarters of a period.
* The text of files: decoding and delimiters of exports, YAML and CSV syntax, the
  converter's command line. Fields are parsed values here. Of the ids that YAML
  reads as something else when unquoted only numbers are there (`YamlId`), not
  comments or quotes in an id, which give another text; and no unit id that is a
  list or `.inf`, at which `load_and_validate` raises.
* `_build_profiles` resolving signal by signal (`register_map.py:101-103`):
  `BuildProfiles` is one step, which is exact as long as one thread sets
  settings, since only a setter changes what it reads.
* What a status request of the supervisor answers (`gui_server.py:57-59`): the
  answer is the state `Status` leaves.
* A request given up on its 5 s or 15 s timeout while its coroutine goes on in
  the event loop: the loop would have to be an actor of EngineLifecycle.
* Grouping of devices on one endpoint and the address ranges of their blocks in
  the Modbus server, which pymodbus does; the 15-character limit of interface
  names.
* The search and bulk apply of `webui/alldevices.js`, the other pages and all
  rendering; the API's other routes, which only translate a request into a call.
* pymodbus, Flask, the browser and `ip` appear as what the code relies on.
