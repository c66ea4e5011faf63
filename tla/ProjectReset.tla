---------------------------- MODULE ProjectReset ----------------------------
(***************************************************************************)
(* reset against requests in flight (state_machine.py).  Flask serves them *)
(* in threads of their own: reset locks only its first step, and an upload *)
(* or an edit checks the state only when it begins.  One device, which     *)
(* every project has, and one client that starts and resets; what a        *)
(* request works on is told apart by the project it is of.                 *)
(*                                                                         *)
(* The steps of a reload are those of HotReload, the steps of a reset      *)
(* those of EngineLifecycle, without files cut short, servers and network. *)
(***************************************************************************)
EXTENDS Integers

CONSTANTS
  Editor,       \* the threads that serve uploads and edits
  MaxProjects,  \* resets stop after that many projects
  Outside,      \* the projects whose signals_file is not in devices/: it may be any path
  NoProject

ASSUME ResetAssumption == /\ MaxProjects \in Nat \ {0} /\ NoProject \notin Nat
                          /\ Outside \subseteq 1 .. MaxProjects

VARIABLES
  phase, project,                 \* _state; which project it is
  config,                         \* self.config, sim_config.yaml and the lock file
  signals, regmap, server, defaults,  \* memory: the project each is of, or NoProject
  dir, csv, far, simFile,         \* disk: devices/ is there; the device's file in it; the
                                  \* one elsewhere; simulation.json
  resetting,                      \* the next step of reset, or "no"
  edit, of,                       \* each editor's next step, and its project
  overlapped                      \* an upload or edit and a reset have been under way together

memory == <<signals, regmap, server, defaults>>
disk == <<dir, csv, far, simFile>>
resetVars == <<phase, project, config, signals, regmap, server, defaults, dir, csv, far,
               simFile, resetting, edit, of, overlapped>>

Of == (1 .. MaxProjects) \cup {NoProject}
EditSteps == {"lock", "mkdir", "file", "store",                        \* uploads
              "update", "reload", "sim", "swap", "regmap", "signals",  \* edits of the device
              "assign", "save"}                                        \* of the settings
ResetTypeOK ==
  /\ phase \in {"SETUP", "RUNNING", "STOPPING"} /\ project \in 1 .. MaxProjects
  /\ dir \in BOOLEAN /\ overlapped \in BOOLEAN
  /\ config \in Of /\ signals \in Of /\ regmap \in Of /\ server \in Of /\ defaults \in Of
  /\ csv \in Of /\ far \in Outside \cup {NoProject} /\ simFile \in Of
  /\ resetting \in {"no", "files", "rmtree", "rmdir", "clear"}
  /\ phase = "STOPPING" <=> resetting # "no"
  /\ resetting # "no" => project < MaxProjects
  /\ csv # NoProject => dir
  /\ edit \in [Editor -> EditSteps \cup {"idle"}]
  /\ of \in [Editor -> Of]
  /\ \A e \in Editor : edit[e] = "idle" <=> of[e] = NoProject

ResetInit ==
  /\ phase = "SETUP" /\ project = 1 /\ config = NoProject
  /\ signals = NoProject /\ regmap = NoProject
  /\ server = NoProject /\ defaults = NoProject
  /\ dir = FALSE /\ csv = NoProject /\ far = NoProject /\ simFile = NoProject
  /\ resetting = "no" /\ overlapped = FALSE
  /\ edit = [e \in Editor |-> "idle"] /\ of = [e \in Editor |-> NoProject]

Note ==
  overlapped' = (overlapped \/ (resetting' # "no" /\ \E e \in Editor : edit'[e] # "idle"))

At(e, step) == edit[e] = step
Enter(e, step, p) == edit' = [edit EXCEPT ![e] = step] /\ of' = [of EXCEPT ![e] = p]
Go(e, step) == edit' = [edit EXCEPT ![e] = step] /\ UNCHANGED of
Done(e) == edit' = [edit EXCEPT ![e] = "idle"] /\ of' = [of EXCEPT ![e] = NoProject]

-----------------------------------------------------------------------------
(***************************************************************************)
(* Uploads: upload_config, upload_signals.                                 *)
(***************************************************************************)
\* Both look at the state, and then read and check the file.
Upload(e) ==
  /\ At(e, "idle") /\ phase = "SETUP"
  /\ IF config = NoProject THEN Enter(e, "lock", project) ELSE Enter(e, "mkdir", config)
  /\ UNCHANGED <<phase, project, config, memory, disk, resetting>> /\ Note

LockConfig(e) ==
  /\ At(e, "lock")
  /\ config' = of[e]
  /\ Done(e)
  /\ UNCHANGED <<phase, project, memory, disk, resetting>> /\ Note

MakeDir(e) ==
  /\ At(e, "mkdir")
  /\ dir' = (dir \/ of[e] \notin Outside)
  /\ Go(e, "file")
  /\ UNCHANGED <<phase, project, config, memory, csv, far, simFile, resetting>> /\ Note

StoreSignals(e) ==
  /\ At(e, "store")
  /\ signals' = of[e]
  /\ Done(e)
  /\ UNCHANGED <<phase, project, config, regmap, server, defaults, disk, resetting>> /\ Note

\* start.  The device counts as uploaded if there is a list for it.
StartProject ==
  /\ phase = "SETUP" /\ config # NoProject /\ signals # NoProject
  /\ phase' = "RUNNING"
  /\ regmap' = signals /\ server' = signals
  /\ UNCHANGED <<project, config, signals, defaults, disk, resetting, edit, of, overlapped>>

(***************************************************************************)
(* Edits: _hot_reload, set_signal_sim, set_simulation.                     *)
(***************************************************************************)
\* The settings may be changed in any state, the rest needs RUNNING.
Begin(e) ==
  /\ At(e, "idle")
  /\ \/ /\ phase = "RUNNING" /\ config # NoProject /\ regmap # NoProject
        /\ \E op \in {"update", "reload", "sim"} : Enter(e, op, config)
     \/ Enter(e, "assign", project)
  /\ UNCHANGED <<phase, project, config, memory, disk, resetting>> /\ Note

\* update_signal has copied the list it will reload; the reload asks for RUNNING again.
Reload(e) ==
  /\ At(e, "update")
  /\ IF phase = "RUNNING" /\ regmap # NoProject THEN Go(e, "reload") ELSE Done(e)
  /\ UNCHANGED <<phase, project, config, memory, disk, resetting>> /\ Note

\* write_text fails where devices/ is gone: FileNotFoundError.
CanWrite(e) == dir \/ of[e] \in Outside
WriteCsv(e) ==
  /\ edit[e] \in {"file", "reload", "sim"}
  /\ IF of[e] \in Outside THEN far' = of[e] /\ UNCHANGED csv
     ELSE csv' = (IF dir THEN of[e] ELSE csv) /\ UNCHANGED far
  /\ IF ~CanWrite(e) \/ At(e, "sim") THEN Done(e)
     ELSE Go(e, IF At(e, "file") THEN "store" ELSE "swap")
  /\ UNCHANGED <<phase, project, config, memory, dir, simFile, resetting>> /\ Note

\* ModbusServerManager.hot_reload; a manager that has bound nothing knows no device.
SwapServer(e) ==
  /\ At(e, "swap")
  /\ IF server # NoProject THEN server' = of[e] /\ Go(e, "regmap")
                      ELSE UNCHANGED server /\ Done(e)
  /\ UNCHANGED <<phase, project, config, signals, regmap, defaults, disk, resetting>> /\ Note

SetRegmap(e) ==
  /\ At(e, "regmap")
  /\ regmap' = of[e]
  /\ Go(e, "signals")
  /\ UNCHANGED <<phase, project, config, signals, server, defaults, disk, resetting>> /\ Note

SetSignals(e) ==
  /\ At(e, "signals")
  /\ signals' = of[e]
  /\ Done(e)
  /\ UNCHANGED <<phase, project, config, regmap, server, defaults, disk, resetting>> /\ Note

Assign(e) ==
  /\ At(e, "assign")
  /\ defaults' = of[e]
  /\ Go(e, "save")
  /\ UNCHANGED <<phase, project, config, signals, regmap, server, disk, resetting>> /\ Note

Save(e) ==
  /\ At(e, "save")
  /\ simFile' = of[e]
  /\ Done(e)
  /\ UNCHANGED <<phase, project, config, memory, dir, csv, far, resetting>> /\ Note

(***************************************************************************)
(* reset.                                                                  *)
(***************************************************************************)
BeginReset ==
  /\ phase = "RUNNING" /\ project < MaxProjects
  /\ phase' = "STOPPING" /\ resetting' = "files"
  /\ UNCHANGED <<project, config, memory, disk, edit, of>> /\ Note

\* Faulty variant: simulation.json stays.
UnlinkTwo ==
  /\ resetting = "files"
  /\ resetting' = "rmtree"
  /\ UNCHANGED <<phase, project, config, memory, disk, edit, of>> /\ Note
\* The lock file and sim_config.yaml, which `config` stands for here until Clear,
\* and simulation.json.
UnlinkFiles ==
  /\ resetting = "files"
  /\ simFile' = NoProject
  /\ resetting' = "rmtree"
  /\ UNCHANGED <<phase, project, config, memory, dir, csv, far, edit, of>> /\ Note

\* rmtree of devices/ alone.  Its last step fails if a file has come in meanwhile,
\* which reset ignores.
RemoveFiles ==
  /\ resetting = "rmtree"
  /\ csv' = NoProject
  /\ resetting' = "rmdir"
  /\ UNCHANGED <<phase, project, config, memory, dir, far, simFile, edit, of>> /\ Note
RemoveDevices ==
  /\ resetting = "rmdir"
  /\ dir' = (csv # NoProject)
  /\ resetting' = "clear"
  /\ UNCHANGED <<phase, project, config, memory, csv, far, simFile, edit, of>> /\ Note

Clear ==
  /\ resetting = "clear"
  /\ config' = NoProject
  /\ signals' = NoProject /\ regmap' = NoProject
  /\ server' = NoProject /\ defaults' = NoProject
  /\ phase' = "SETUP" /\ resetting' = "no" /\ project' = project + 1
  /\ UNCHANGED <<disk, edit, of>> /\ Note

ResetNext ==
  \/ StartProject
  \/ BeginReset \/ UnlinkFiles \/ RemoveFiles \/ RemoveDevices \/ Clear
  \/ \E e \in Editor : \/ Upload(e) \/ LockConfig(e) \/ MakeDir(e) \/ StoreSignals(e)
                       \/ Begin(e) \/ Reload(e) \/ WriteCsv(e) \/ SwapServer(e)
                       \/ SetRegmap(e) \/ SetSignals(e) \/ Assign(e) \/ Save(e)

ResetSpec == ResetInit /\ [][ResetNext]_resetVars

-----------------------------------------------------------------------------
(***************************************************************************)
(* Properties.                                                             *)
(***************************************************************************)
\* Nothing the engine holds or serves, or finds in the directory it knows, is of a
\* project that was reset, unless an upload or an edit was under way during a reset
\* (upload_signals and _hot_reload go on after reset has removed and cleared), whatever
\* uploads and edits came before it and come after it.
LeftOverByOverlap ==
  ~overlapped => {config, signals, regmap, server, defaults, csv, simFile}
                    \subseteq {NoProject, project}

\* Without such an overlap no file of a reset project is left: reset means to "clear
\* disk + memory".  TLC refutes it: reset removes devices/, and the config may name a
\* signal file elsewhere.
DiskCleared == ~overlapped => {csv, far, simFile} \subseteq {NoProject, project}
=============================================================================
