----------------------------- MODULE HotReload -----------------------------
(***************************************************************************)
(* Editing a running simulation (state_machine.py, RUNNING).  Flask serves *)
(* every request in a thread of its own and none of these operations takes *)
(* the engine's lock, so each is the sequence of its steps and requests    *)
(* interleave: replace a device's signals (hot_reload_csv / _json), edit   *)
(* one of them (update_signal), set a device's motion                      *)
(* (set_device_simulation), change sim_* fields in place (set_signal_sim,  *)
(* set_signals_sim_bulk), change the project's simulation settings         *)
(* (set_simulation).  The process may die between any two steps.           *)
(*                                                                         *)
(* A register map is an object: the engine, the Modbus server and requests *)
(* under way hold references to it, and sim_* edits mutate its signals in  *)
(* place.  Its register values are the subject of RegisterMap.             *)
(***************************************************************************)
EXTENDS Naturals, Sequences, FiniteSets

CONSTANTS
  Devices,   \* the configured devices, in order (a sequence)
  Names,     \* the names of a device's signals, in order (a sequence)
  Addr,      \* addresses a signal may be given
  Beyond,    \* those pymodbus builds no block of registers at: above 65535
  Editor,    \* threads serving edit requests
  Jobs,      \* Jobs[e]: the requests thread e may be asked to serve
  MaxMaps,   \* bound on the register maps alive at once
  Files,     \* signal lists the devices may have at the start
  Starts,    \* simulation settings the project may have at the start
  Torn,      \* content of a file whose rewriting was cut short
  NoMap, NoJob

Device == {Devices[i] : i \in DOMAIN Devices}
Name == {Names[i] : i \in DOMAIN Names}
MapId == 1 .. MaxMaps
Places == (DOMAIN Devices) \X (DOMAIN Names)

Modes == {"", "static", "oscillate", "triangle"}
Row == [addr : Addr, mode : Modes, range : BOOLEAN]
Rows == [Name -> Row]
Settings == [enabled : BOOLEAN, mode : Modes \ {""}]
Profiles == [Name -> Modes \ {""}]   \* "static" is "no profile"
Maps == [rows : Rows, defaults : Settings, profiles : Profiles]

\* SimDefaults(): what a process without a readable simulation.json starts from.
DefaultSettings == [enabled |-> FALSE, mode |-> "oscillate"]

\* parse_and_validate: no two signals of a device share a register.
Valid(list) == \A m, n \in Name : m # n => list[m].addr # list[n].addr

\* build_sim_device: the loader bounds no address, pymodbus's SimData does.
Servable(list) == \A n \in Name : list[n].addr \notin Beyond

\* load_defaults: a file that does not parse reads as SimDefaults().
LoadDefaults(file) == IF file = Torn THEN DefaultSettings ELSE file

\* resolve_profile, of a numeric signal: it moves only when it has a range.
ResolveProfile(row, settings) ==
  IF ~settings.enabled \/ ~row.range THEN "static"
  ELSE IF row.mode # "" THEN row.mode ELSE settings.mode
ResolveAll(list, settings) == [n \in Name |-> ResolveProfile(list[n], settings)]

\* RegisterMap(signals, sim_defaults).
NewMap(list, settings) ==
  [rows |-> list, defaults |-> settings, profiles |-> ResolveAll(list, settings)]

(***************************************************************************)
(* Requests.  A patch is a function from some of the fields to values; the *)
(* value "bad" stands for one that does not parse.                         *)
(***************************************************************************)
Reload(d, list) == [kind |-> "reload", dev |-> d, rows |-> list]
Update(d, n, addr) == [kind |-> "update", dev |-> d, name |-> n, addr |-> addr]
DeviceSim(d, mode) == [kind |-> "device", dev |-> d, mode |-> mode]
SignalSim(d, n, patch) == [kind |-> "signal", dev |-> d, name |-> n, patch |-> patch]
BulkSim(names, patch) == [kind |-> "bulk", names |-> names, patch |-> patch]
SetSimulation(patch) == [kind |-> "settings", patch |-> patch]

\* The devices have had their signals accepted; a request names one of them, and the
\* list a client sends has been read into rows.  A config has at least one device.
ASSUME HotReloadAssumption ==
  /\ MaxMaps \in Nat /\ NoMap \notin MapId
  /\ Devices \in Seq(Device) /\ Len(Devices) \in 1 .. MaxMaps
  /\ Addr # {} /\ Beyond \subseteq Addr
  /\ Torn \notin Rows \cup Settings
  /\ \A list \in Files : list \in Rows /\ Valid(list) /\ Servable(list)
  /\ Starts \subseteq Settings
  /\ DOMAIN Jobs = Editor
  /\ \A e \in Editor : \A j \in Jobs[e] :
       /\ j.kind = "reload" => j.rows \in Rows
       /\ j.kind \in {"reload", "update", "device", "signal"} => j.dev \in Device
       /\ j.kind = "update" => j.addr \in Addr
       /\ j.kind = "device" => j.mode \in Modes
       /\ j.kind \in {"signal", "bulk"} =>
            ("mode" \in DOMAIN j.patch => j.patch["mode"] \in Modes \cup {"bad"})
       /\ j.kind = "settings" =>
            /\ "enabled" \in DOMAIN j.patch => j.patch["enabled"] \in BOOLEAN
            /\ "mode" \in DOMAIN j.patch => j.patch["mode"] \in Modes \ {""}

Reloads == {"reload", "update", "device"}
Rejected(patch) == \E f \in DOMAIN patch : patch[f] = "bad"

\* _apply_sim_fields: a mode that is not valid is left alone, but a number that
\* does not parse reads as "cleared" before the error is reported.
ApplyFields(row, patch) ==
  LET moved == [row EXCEPT !.mode = IF "mode" \in DOMAIN patch /\ patch["mode"] # "bad"
                                    THEN patch["mode"] ELSE @]
  IN [moved EXCEPT !.range = IF "range" \in DOMAIN patch
                             THEN patch["range"] = "set" ELSE @]

\* {**self._sim_defaults.to_dict(), **patch}
Merge(settings, patch) ==
  [f \in DOMAIN settings |-> IF f \in DOMAIN patch THEN patch[f] ELSE settings[f]]

VARIABLES
  up,          \* the process is alive and RUNNING
  maps,        \* the RegisterMap objects
  regmaps,     \* _regmaps: the API's map of each device
  server,      \* the map the Modbus server's runtime of each device uses
  signals,     \* _signals: the map whose Signal objects the list holds
  simDefaults, \* _sim_defaults
  csv,         \* the devices' signal files
  simFile,     \* simulation.json
  pc, job,     \* per thread: the step it is at, its request
  rows,        \* per thread: the signal list it validates or writes
  queue,       \* per thread: the devices it still has to deal with
  todo,        \* per thread: the places <<device, name>> it still has to change
  refs,        \* per thread: the map of each device it has taken hold of
  built,       \* per thread: the profiles it has resolved
  chosen,      \* per thread: the simulation settings it installs
  crossed,     \* history: the devices whose edits have crossed one another
  mixed,       \* history: set_simulation has crossed another request
  parted       \* history: the devices a failed request has left at odds with their files

engine == <<up, maps, regmaps, server, signals, simDefaults>>
disk == <<csv, simFile>>
locals == <<pc, job, rows, queue, todo, refs, built, chosen>>
history == <<crossed, mixed, parted>>
vars == <<up, maps, regmaps, server, signals, simDefaults, csv, simFile,
          pc, job, rows, queue, todo, refs, built, chosen, crossed, mixed, parted>>

NoRows == [n \in Name |-> [addr |-> CHOOSE a \in Addr : TRUE, mode |-> "", range |-> FALSE]]
Blank == NewMap(NoRows, DefaultSettings)
NoRefs == [d \in Device |-> NoMap]
NoProfiles == Blank.profiles

Steps == {"idle", "check", "truncate", "write", "build", "swap", "regmap", "signals",
          "apply", "match", "resolve", "install", "dump",
          "assign", "erase", "save", "visit", "reply"}

StateOK ==
  /\ up \in BOOLEAN
  /\ maps \in [MapId -> Maps]
  /\ regmaps \in [Device -> MapId \cup {NoMap}]
  /\ server \in [Device -> MapId \cup {NoMap}]
  /\ signals \in [Device -> MapId \cup {NoMap}]
  /\ simDefaults \in Settings
  /\ csv \in [Device -> Rows \cup {Torn}]
  /\ simFile \in Settings \cup {Torn}
  /\ pc \in [Editor -> Steps]
  /\ DOMAIN job = Editor /\ \A e \in Editor : job[e] \in Jobs[e] \cup {NoJob}
  /\ rows \in [Editor -> Rows]
  /\ queue \in [Editor -> Seq(Device)]
  /\ todo \in [Editor -> SUBSET Places]
  /\ refs \in [Editor -> [Device -> MapId \cup {NoMap}]]
  /\ built \in [Editor -> Profiles]
  /\ chosen \in [Editor -> Settings]
HistoryOK == crossed \subseteq Device /\ parted \subseteq Device /\ mixed \in BOOLEAN
TypeOK == StateOK /\ HistoryOK

-----------------------------------------------------------------------------
\* The engine has just been started from what is on disk: one map per device.
MapOf(d) == CHOOSE i \in DOMAIN Devices : Devices[i] = d
Loaded(files, settings) ==
  /\ maps' = [m \in MapId |->
               IF m \in DOMAIN Devices THEN NewMap(files[Devices[m]], settings) ELSE Blank]
  /\ regmaps' = [d \in Device |-> MapOf(d)]
  /\ server' = [d \in Device |-> MapOf(d)]
  /\ signals' = [d \in Device |-> MapOf(d)]
  /\ simDefaults' = settings

Init ==
  /\ csv \in [Device -> Files]
  /\ simFile \in Starts
  /\ up = TRUE
  /\ maps = [m \in MapId |->
              IF m \in DOMAIN Devices THEN NewMap(csv[Devices[m]], simFile) ELSE Blank]
  /\ regmaps = [d \in Device |-> MapOf(d)]
  /\ server = regmaps
  /\ signals = regmaps
  /\ simDefaults = simFile
  /\ pc = [e \in Editor |-> "idle"]
  /\ job = [e \in Editor |-> NoJob]
  /\ rows = [e \in Editor |-> NoRows]
  /\ queue = [e \in Editor |-> <<>>]
  /\ todo = [e \in Editor |-> {}]
  /\ refs = [e \in Editor |-> NoRefs]
  /\ built = [e \in Editor |-> NoProfiles]
  /\ chosen = [e \in Editor |-> DefaultSettings]
  /\ crossed = {} /\ parted = {} /\ mixed = FALSE

Go(e, step) == pc' = [pc EXCEPT ![e] = step]
Goes(e, step) == Go(e, step) /\ UNCHANGED <<job, rows, queue, todo, refs, built, chosen>>
Dev(e) == Head(queue[e])
Mine(e) == refs[e][Dev(e)]
Put(e, var, value) == [var EXCEPT ![e] = value]

\* The objects somebody still refers to; the others are garbage.
Live == {regmaps[d] : d \in Device} \cup {server[d] : d \in Device}
          \cup {signals[d] : d \in Device}
          \cup {refs[e][d] : e \in Editor, d \in Device}

\* The request is answered; its locals go.
Forget(e) ==
  /\ pc' = [pc EXCEPT ![e] = "idle"]
  /\ job' = Put(e, job, NoJob)
  /\ rows' = Put(e, rows, NoRows)
  /\ queue' = Put(e, queue, <<>>)
  /\ todo' = Put(e, todo, {})
  /\ refs' = Put(e, refs, NoRefs)
  /\ built' = Put(e, built, NoProfiles)
  /\ chosen' = Put(e, chosen, DefaultSettings)

(***************************************************************************)
(* A request arrives.                                                      *)
(***************************************************************************)
Ready(e, j, kind) == up /\ pc[e] = "idle" /\ j.kind = kind

\* hot_reload_csv, hot_reload_json: the client sends the whole list.
BeginReload(e, j) ==
  /\ Ready(e, j, "reload")
  /\ rows' = Put(e, rows, j.rows)
  /\ queue' = Put(e, queue, <<j.dev>>)
  /\ job' = Put(e, job, j)
  /\ Go(e, "check")
  /\ UNCHANGED <<engine, disk, todo, refs, built, chosen>>

\* update_signal: the live list, with one signal's definition replaced.
BeginUpdateHeaderOnly(e, j) ==
  /\ Ready(e, j, "update")
  /\ rows' = Put(e, rows, [n \in Name |->
               [addr |-> IF n = j.name THEN j.addr ELSE maps[regmaps[j.dev]].rows[n].addr,
                mode |-> "", range |-> FALSE]])
  /\ queue' = Put(e, queue, <<j.dev>>)
  /\ job' = Put(e, job, j)
  /\ Go(e, "check")
  /\ UNCHANGED <<engine, disk, todo, refs, built, chosen>>

BeginUpdate(e, j) ==
  /\ Ready(e, j, "update")
  /\ rows' = Put(e, rows, [maps[regmaps[j.dev]].rows EXCEPT ![j.name].addr = j.addr])
  /\ queue' = Put(e, queue, <<j.dev>>)
  /\ job' = Put(e, job, j)
  /\ Go(e, "check")
  /\ UNCHANGED <<engine, disk, todo, refs, built, chosen>>

\* set_device_simulation: the live list, with every sim_mode replaced.
BeginDeviceSim(e, j) ==
  /\ Ready(e, j, "device")
  /\ rows' = Put(e, rows, [n \in Name |->
               [maps[regmaps[j.dev]].rows[n] EXCEPT !.mode = j.mode]])
  /\ queue' = Put(e, queue, <<j.dev>>)
  /\ job' = Put(e, job, j)
  /\ Go(e, "check")
  /\ UNCHANGED <<engine, disk, todo, refs, built, chosen>>

\* set_signal_sim: take hold of the device's map.
BeginSignalSim(e, j) ==
  /\ Ready(e, j, "signal")
  /\ refs' = [refs EXCEPT ![e][j.dev] = regmaps[j.dev]]
  /\ queue' = Put(e, queue, <<j.dev>>)
  /\ job' = Put(e, job, j)
  /\ Go(e, "apply")
  /\ UNCHANGED <<engine, disk, rows, todo, built, chosen>>

\* set_signals_sim_bulk: a scratch signal has shown that the fields are valid.
BeginBulkSim(e, j) ==
  /\ Ready(e, j, "bulk")
  /\ ~Rejected(j.patch)
  /\ todo' = Put(e, todo, {p \in Places : Names[p[2]] \in j.names})
  /\ job' = Put(e, job, j)
  /\ Go(e, "match")
  /\ UNCHANGED <<engine, disk, rows, queue, refs, built, chosen>>

\* set_simulation: the settings merged with the patch, which is valid.
BeginSettings(e, j) ==
  /\ Ready(e, j, "settings")
  /\ chosen' = Put(e, chosen, Merge(simDefaults, j.patch))
  /\ job' = Put(e, job, j)
  /\ Go(e, "assign")
  /\ UNCHANGED <<engine, disk, rows, queue, todo, refs, built>>

Begin(e, j) ==
  \/ BeginReload(e, j) \/ BeginUpdate(e, j) \/ BeginDeviceSim(e, j)
  \/ BeginSignalSim(e, j) \/ BeginBulkSim(e, j) \/ BeginSettings(e, j)

(***************************************************************************)
(* _hot_reload, and the rewriting of a CSV it shares with the sim_* edits. *)
(***************************************************************************)
\* parse_and_validate finds no error ...
AcceptAnything(e) ==
  /\ pc[e] = "check"
  /\ Goes(e, "truncate")
  /\ UNCHANGED <<engine, disk>>
Accept(e) ==
  /\ pc[e] = "check" /\ Valid(rows[e])
  /\ Goes(e, "truncate")
  /\ UNCHANGED <<engine, disk>>

\* ... or the request is refused before anything is touched.
Reject(e) ==
  /\ pc[e] = "check" /\ ~Valid(rows[e])
  /\ Goes(e, "reply")
  /\ UNCHANGED <<engine, disk>>

\* write_text opens the file, which empties it, and then writes the text.
Truncate(e) ==
  /\ pc[e] = "truncate"
  /\ csv' = [csv EXCEPT ![Dev(e)] = Torn]
  /\ Goes(e, "write")
  /\ UNCHANGED <<engine, simFile>>

WriteCsv(e) ==
  /\ pc[e] = "write"
  /\ csv' = [csv EXCEPT ![Dev(e)] = rows[e]]
  /\ \/ /\ job[e].kind \in Reloads
        /\ Go(e, "build")
        /\ UNCHANGED queue
     \/ /\ job[e].kind \notin Reloads
        /\ queue' = Put(e, queue, Tail(queue[e]))
        /\ Go(e, IF Len(queue[e]) > 1 THEN "resolve" ELSE "reply")
  /\ UNCHANGED <<engine, simFile, job, rows, todo, refs, built, chosen>>

\* The new map, with the settings of this moment; nobody else sees it yet.
BuildStatic(e) ==
  /\ pc[e] = "build"
  /\ \E m \in MapId \ Live :
        /\ \A k \in MapId \ Live : m <= k
        /\ maps' = [maps EXCEPT ![m] = NewMap(rows[e], DefaultSettings)]
        /\ refs' = [refs EXCEPT ![e][Dev(e)] = m]
  /\ Go(e, "swap")
  /\ UNCHANGED <<up, regmaps, server, signals, simDefaults, disk,
                 job, rows, queue, todo, built, chosen>>
Build(e) ==
  /\ pc[e] = "build"
  /\ \E m \in MapId \ Live :
        /\ \A k \in MapId \ Live : m <= k
        /\ maps' = [maps EXCEPT ![m] = NewMap(rows[e], simDefaults)]
        /\ refs' = [refs EXCEPT ![e][Dev(e)] = m]
  /\ Go(e, "swap")
  /\ UNCHANGED <<up, regmaps, server, signals, simDefaults, disk,
                 job, rows, queue, todo, built, chosen>>

\* ModbusServerManager.hot_reload: the server's runtime is replaced.
SwapServer(e) ==
  /\ pc[e] = "swap" /\ Servable(maps[Mine(e)].rows)
  /\ server' = [server EXCEPT ![Dev(e)] = Mine(e)]
  /\ Goes(e, "regmap")
  /\ UNCHANGED <<up, maps, regmaps, signals, simDefaults, disk>>

\* ... unless the library refuses to build it: the request fails with its file written.
SwapFails(e) ==
  /\ pc[e] = "swap" /\ ~Servable(maps[Mine(e)].rows)
  /\ Goes(e, "reply")
  /\ UNCHANGED <<engine, disk>>

SetRegmap(e) ==
  /\ pc[e] = "regmap"
  /\ regmaps' = [regmaps EXCEPT ![Dev(e)] = Mine(e)]
  /\ Goes(e, "signals")
  /\ UNCHANGED <<up, maps, server, signals, simDefaults, disk>>

ForgetSignals(e) ==
  /\ pc[e] = "signals"
  /\ Goes(e, "reply")
  /\ UNCHANGED <<engine, disk>>
SetSignals(e) ==
  /\ pc[e] = "signals"
  /\ signals' = [signals EXCEPT ![Dev(e)] = Mine(e)]
  /\ Goes(e, "reply")
  /\ UNCHANGED <<up, maps, regmaps, server, simDefaults, disk>>

(***************************************************************************)
(* The sim_* edits.                                                        *)
(***************************************************************************)
\* set_signal_sim changes the signal before it knows whether it will refuse.
ApplySim(e) ==
  /\ pc[e] = "apply"
  /\ maps' = [maps EXCEPT ![Mine(e)].rows[job[e].name] = ApplyFields(@, job[e].patch)]
  /\ Goes(e, IF Rejected(job[e].patch) THEN "reply" ELSE "resolve")
  /\ UNCHANGED <<up, regmaps, server, signals, simDefaults, disk>>

\* _iter_matching_signals goes through the signals in order.  It comes to another
\* device, and takes hold of its map ...
Foremost(p, S) == \A q \in S : p[1] < q[1] \/ (p[1] = q[1] /\ p[2] <= q[2])
Iterate(e) ==
  /\ pc[e] = "match"
  /\ \E p \in todo[e] :
       /\ Foremost(p, todo[e])
       /\ refs[e][Devices[p[1]]] = NoMap
       /\ refs' = [refs EXCEPT ![e][Devices[p[1]]] = regmaps[Devices[p[1]]]]
  /\ UNCHANGED <<engine, disk, pc, job, rows, queue, todo, built, chosen>>

\* ... and to a matching signal of it, ...
ApplyMatch(e) ==
  /\ pc[e] = "match"
  /\ \E p \in todo[e] :
       LET m == refs[e][Devices[p[1]]]
       IN /\ Foremost(p, todo[e])
          /\ m # NoMap
          /\ maps' = [maps EXCEPT ![m].rows[Names[p[2]]] = ApplyFields(@, job[e].patch)]
          /\ todo' = Put(e, todo, todo[e] \ {p})
  /\ UNCHANGED <<up, regmaps, server, signals, simDefaults, disk,
                 pc, job, rows, queue, refs, built, chosen>>

\* ... and when all are changed, each affected device is dealt with, in order.
InOrder(S) == {q \in [1 .. Cardinality(S) -> S] :
                 \A i, j \in DOMAIN q : i < j => MapOf(q[i]) < MapOf(q[j])}
Matched(e) ==
  /\ pc[e] = "match" /\ todo[e] = {}
  /\ LET affected == {d \in Device : refs[e][d] # NoMap}
     IN /\ \E q \in InOrder(affected) : queue' = Put(e, queue, q)
        /\ Go(e, IF affected # {} THEN "resolve" ELSE "reply")
  /\ UNCHANGED <<engine, disk, job, rows, todo, refs, built, chosen>>

\* _build_profiles: resolved into locals first, ...
BuildProfiles(e) ==
  /\ pc[e] = "resolve"
  /\ built' = Put(e, built, ResolveAll(maps[Mine(e)].rows, maps[Mine(e)].defaults))
  /\ Go(e, "install")
  /\ UNCHANGED <<engine, disk, job, rows, queue, todo, refs, chosen>>

\* ... then swapped.
SwapProfiles(e) ==
  /\ pc[e] = "install"
  /\ maps' = [maps EXCEPT ![Mine(e)].profiles = built[e]]
  /\ \/ /\ job[e].kind = "settings"
        /\ queue' = Put(e, queue, Tail(queue[e]))
        /\ Go(e, IF Len(queue[e]) > 1 THEN "visit" ELSE "reply")
     \/ /\ job[e].kind # "settings"
        /\ Go(e, "dump")
        /\ UNCHANGED queue
  /\ UNCHANGED <<up, regmaps, server, signals, simDefaults, disk,
                 job, rows, todo, refs, built, chosen>>

\* signals_to_csv
DumpFile(e) ==
  /\ pc[e] = "dump"
  /\ rows' = Put(e, rows, IF csv[Dev(e)] = Torn THEN NoRows ELSE csv[Dev(e)])
  /\ Go(e, "truncate")
  /\ UNCHANGED <<engine, disk, job, queue, todo, refs, built, chosen>>
Dump(e) ==
  /\ pc[e] = "dump"
  /\ rows' = Put(e, rows, maps[Mine(e)].rows)
  /\ Go(e, "truncate")
  /\ UNCHANGED <<engine, disk, job, queue, todo, refs, built, chosen>>

(***************************************************************************)
(* set_simulation.                                                         *)
(***************************************************************************)
AssignUnsaved(e) ==
  /\ pc[e] = "assign"
  /\ simDefaults' = chosen[e]
  /\ queue' = Put(e, queue, Devices)
  /\ Go(e, "visit")
  /\ UNCHANGED <<up, maps, regmaps, server, signals, disk,
                 job, rows, todo, refs, built, chosen>>
Assign(e) ==
  /\ pc[e] = "assign"
  /\ simDefaults' = chosen[e]
  /\ Goes(e, "erase")
  /\ UNCHANGED <<up, maps, regmaps, server, signals, disk>>

\* save_defaults is a write_text too.
Erase(e) ==
  /\ pc[e] = "erase"
  /\ simFile' = Torn
  /\ Goes(e, "save")
  /\ UNCHANGED <<engine, csv>>

Save(e) ==
  /\ pc[e] = "save"
  /\ simFile' = chosen[e]
  /\ queue' = Put(e, queue, Devices)
  /\ Go(e, "visit")
  /\ UNCHANGED <<engine, csv, job, rows, todo, refs, built, chosen>>

\* for regmap in _regmaps.values(): regmap.set_sim_defaults(new)
Visit(e) ==
  /\ pc[e] = "visit"
  /\ refs' = Put(e, refs, [NoRefs EXCEPT ![Dev(e)] = regmaps[Dev(e)]])
  /\ maps' = [maps EXCEPT ![regmaps[Dev(e)]].defaults = chosen[e]]
  /\ Go(e, "resolve")
  /\ UNCHANGED <<up, regmaps, server, signals, simDefaults, disk,
                 job, rows, queue, todo, built, chosen>>

\* The request is answered; maps nobody holds any more are garbage.
Reply(e) ==
  /\ pc[e] = "reply"
  /\ UNCHANGED <<up, regmaps, server, signals, simDefaults, disk>>
  /\ Forget(e)
  /\ maps' = [m \in MapId |-> IF m \in Live' THEN maps[m] ELSE Blank]

(***************************************************************************)
(* History, which no operation reads: the requests that crossed, and what  *)
(* a request that failed has left behind.                                  *)
(***************************************************************************)
Working(e) == pc[e] \notin {"idle", "reply"}

\* The devices whose signals a request edits.
Edits(j) ==
  IF j.kind = "bulk" THEN Device ELSE IF j.kind = "settings" THEN {} ELSE {j.dev}

\* The devices that another thread edits while e serves request j.
Shared(e, j) ==
  {d \in Edits(j) : \E x \in Editor \ {e} : Working(x) /\ d \in Edits(job[x])}

\* Edits cross when the second begins.  A list the client has sent whole puts a device
\* right again, if the server can be built from it and no other edit of the device is
\* under way when it is accepted.
PutsRight(e) ==
  /\ pc[e] = "check" /\ pc'[e] = "truncate"
  /\ job[e].kind = "reload" /\ Servable(rows[e])
NoteCrossed(e) ==
  crossed' = (crossed \cup (IF pc[e] = "idle" THEN Shared(e, job'[e]) ELSE {}))
               \ (IF PutsRight(e) THEN Edits(job[e]) \ Shared(e, job[e]) ELSE {})

\* The same of set_simulation, which concerns every device.
NoteMixed(e) ==
  LET others == {x \in Editor \ {e} : Working(x)}
  IN mixed' = IF pc[e] = "idle"
              THEN mixed \/ \E x \in others : "settings" \in {job'[e].kind, job[x].kind}
              ELSE mixed /\ ~(pc[e] = "assign" /\ others = {})

\* A request fails after it has changed the signals, or the file.
Fails(e) ==
  /\ pc'[e] = "reply"
  /\ pc[e] = "swap" \/ (pc[e] = "apply" /\ maps' # maps)
NoteParted(e) ==
  parted' = (parted \cup (IF Fails(e) THEN {Dev(e)} ELSE {}))
              \ (IF pc[e] = "write" THEN {Dev(e)} ELSE {})

-----------------------------------------------------------------------------
\* The process dies: only the files are left.
Crash ==
  /\ up
  /\ up' = FALSE
  /\ maps' = [m \in MapId |-> Blank]
  /\ regmaps' = [d \in Device |-> NoMap]
  /\ server' = [d \in Device |-> NoMap]
  /\ signals' = [d \in Device |-> NoMap]
  /\ simDefaults' = DefaultSettings
  /\ pc' = [e \in Editor |-> "idle"]
  /\ job' = [e \in Editor |-> NoJob]
  /\ rows' = [e \in Editor |-> NoRows]
  /\ queue' = [e \in Editor |-> <<>>]
  /\ todo' = [e \in Editor |-> {}]
  /\ refs' = [e \in Editor |-> NoRefs]
  /\ built' = [e \in Editor |-> NoProfiles]
  /\ chosen' = [e \in Editor |-> DefaultSettings]
  /\ crossed' = {} /\ parted' = {} /\ mixed' = FALSE
  /\ UNCHANGED disk

\* --restore: every signal file must parse, and the server be built from it; the settings
\* fall back if theirs does not parse.
Usable(file) == file # Torn /\ Valid(file) /\ Servable(file)
Restore ==
  /\ ~up
  /\ \A d \in Device : Usable(csv[d])
  /\ up' = TRUE
  /\ Loaded(csv, LoadDefaults(simFile))
  /\ UNCHANGED <<disk, locals, history>>

\* A device whose file is not usable waits in SETUP for another upload.
Reupload(d) ==
  /\ ~up /\ ~Usable(csv[d])
  /\ \E file \in Files : csv' = [csv EXCEPT ![d] = file]
  /\ UNCHANGED <<engine, simFile, locals, history>>

Step(e) ==
  \/ \E j \in Jobs[e] : Begin(e, j)
  \/ Accept(e) \/ Reject(e) \/ Truncate(e) \/ WriteCsv(e) \/ Build(e)
  \/ SwapServer(e) \/ SwapFails(e) \/ SetRegmap(e) \/ SetSignals(e)
  \/ ApplySim(e) \/ Iterate(e) \/ ApplyMatch(e) \/ Matched(e)
  \/ BuildProfiles(e) \/ SwapProfiles(e) \/ Dump(e)
  \/ Assign(e) \/ Erase(e) \/ Save(e) \/ Visit(e) \/ Reply(e)

Next ==
  \/ \E e \in Editor : Step(e) /\ NoteCrossed(e) /\ NoteMixed(e) /\ NoteParted(e)
  \/ Crash \/ Restore \/ \E d \in Device : Reupload(d)

Spec == Init /\ [][Next]_vars

-----------------------------------------------------------------------------
(***************************************************************************)
(* Properties.                                                             *)
(***************************************************************************)
Busy(e) == pc[e] # "idle"

\* No request that concerns device d is under way.
Quiet(d) ==
  \A e \in Editor : Busy(e) =>
    job[e].kind \in {"reload", "update", "device", "signal"} /\ job[e].dev # d

\* Between edits of a device, the API, the Modbus server and the list start()
\* would use are about the same register map: what the UI shows and writes is
\* what a master reads.
ServersAgree ==
  up => \A d \in Device : Quiet(d) => /\ server[d] = regmaps[d]
                                     /\ signals[d] = regmaps[d]

\* Between edits, the file a restart would load holds the signals being served, unless
\* edits of the device crossed since its list was last replaced by an edit on its own, or
\* the request that last touched it failed half-way.
CsvCurrent ==
  up => \A d \in Device \ (crossed \cup parted) : Quiet(d) => csv[d] = maps[regmaps[d]].rows

\* Between edits, what moves is what the signals' own fields and the project's
\* settings say, whatever order reloads, sim_* edits and settings came in: under the same
\* reservation, and if no set_simulation crossed another request since one ran alone.
ProfilesCurrent ==
  up /\ ~mixed => \A d \in Device \ (crossed \cup parted) : Quiet(d) =>
    maps[server[d]].profiles = ResolveAll(maps[server[d]].rows, simDefaults)

\* Unless set_simulation is under way, a restart reads the settings in force,
\* also after a crash in the middle of an earlier set_simulation.
SettingsSaved ==
  up /\ (\A e \in Editor : Busy(e) => job[e].kind # "settings")
    => LoadDefaults(simFile) = simDefaults

\* Whatever requests race, no device is ever served a signal list with two
\* signals on one register, and no such list is left on disk for a restart.
ServedValid ==
  /\ up => \A d \in Device : /\ Valid(maps[regmaps[d]].rows)
                            /\ Valid(maps[server[d]].rows)
  /\ \A d \in Device : csv[d] # Torn => Valid(csv[d])

\* update_signal edits one signal: unless another edit of the device crossed it, the list
\* that replaces the live one is the live one with that field changed, whatever else other
\* clients and set_simulation have done since it was copied.
ReplacesOne(e) ==
  pc[e] = "regmap" /\ pc'[e] = "signals" /\ job[e].kind = "update" =>
    maps[regmaps'[Dev(e)]].rows =
      [maps[regmaps[Dev(e)]].rows EXCEPT ![job[e].name].addr = job[e].addr]
EditsOneSignal ==
  [][\A e \in Editor : pc[e] = "regmap" /\ Dev(e) \notin crossed => ReplacesOne(e)]_vars

\* update_signal edits one signal and leaves the others as they are.
\* TLC refutes it: README, "Disagreements".
LeavesOthers == [][\A e \in Editor : ReplacesOne(e)]_vars

\* set_signal_sim rewrites the file so that its change survives a restart.
\* TLC refutes it: README, "Disagreements".
ChangesSurvive == up => \A d \in Device : Quiet(d) => csv[d] = maps[regmaps[d]].rows

\* set_simulation applies to every device, without a reload of its signals.
\* TLC refutes it: README, "Disagreements".
SettingsApply ==
  up => \A d \in Device : Quiet(d) =>
    maps[server[d]].profiles = ResolveAll(maps[server[d]].rows, simDefaults)

\* set_signal_sim changes only the fields that validate.
\* TLC refutes it: README, "Disagreements".
OnlyValidFields ==
  [][\A e \in Editor :
       pc[e] = "apply" /\ pc'[e] = "reply" =>
         \A f \in DOMAIN job[e].patch : job[e].patch[f] = "bad" =>
           maps'[Mine(e)].rows[job[e].name][f] = maps[Mine(e)].rows[job[e].name][f]]_vars

\* Saving the simulation settings is atomic: a process that starts finds either
\* the old file or the new one.
\* TLC refutes it: README, "Disagreements".
WholeSimFile == ~up => simFile # Torn
=============================================================================
