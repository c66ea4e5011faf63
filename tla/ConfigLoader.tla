---------------------------- MODULE ConfigLoader ----------------------------
(***************************************************************************)
(* load_and_validate (config_loader.py): one pass over the devices that    *)
(* collects every error it can, with two accumulators for the checks       *)
(* across devices; and what the engine does with what it accepted:         *)
(* upload_config locks it, upload_signals finds a device by the id in the  *)
(* URL and writes that device's signals_file, and a process started with   *)
(* --restore loads every device from the file its row names.               *)
(*                                                                         *)
(* Requests come one at a time; EngineLifecycle interleaves them and       *)
(* crashes between their steps.                                            *)
(***************************************************************************)
EXTENDS ConfigRules, Functions

CONSTANTS
  Configs,  \* the files that may be uploaded
  Lists,    \* valid signal lists
  None

HeaderFields == {"project", "network", "project.name", "traffic_interface",
                 "vlan_mode", "web_ui_port"}
DeviceFields == {"mapping", "id", "name", "ip", "port", "unit_id", "signals_file",
                 "vlan", "prefix_length", "endpoint"}
Config == [yaml : BOOLEAN,               \* it is YAML, and a mapping
           wrong : SUBSET HeaderFields,  \* what is missing or invalid above 'devices'
           devices : Seq(DeviceRow \cup {Bad})]

ASSUME LoaderAssumption ==
  /\ Configs \subseteq Config
  /\ None \notin Lists /\ Bad \notin DeviceRow

\* A DeviceConfig; one without an id has a placeholder for it, Empty here.
DeviceConfig == [id : Id \cup {Empty}, name : {"name"}, ip : Ip \cup {Bad},
                 port : Int, unit_id : Int, signals_file : Path,
                 vlan : Int, prefix_length : Int]

VARIABLES
  pc,        \* "idle", "scan" or "done"
  file, row, \* the config it scans and the next device
  seen_ids, seen_ip_port_unit,  \* the accumulators
  errors,    \* <<device number, field>>, 0 for what is above 'devices'
  devices,   \* the DeviceConfigs built
  config,    \* the devices of the locked config, None before
  signals,   \* signals[i]: the list loaded for the id i
  disk       \* disk[p]: the signal file p

scan == <<pc, file, row, seen_ids, seen_ip_port_unit, errors, devices>>
vars == <<pc, file, row, seen_ids, seen_ip_port_unit, errors, devices, config,
          signals, disk>>

NoConfig == [yaml |-> FALSE, wrong |-> {}, devices |-> <<>>]

TypeOK ==
  /\ pc \in {"idle", "scan", "done"}
  /\ file \in Config /\ row \in Nat \ {0}
  /\ seen_ids \subseteq Id
  /\ seen_ip_port_unit \subseteq (Ip \cup {Bad}) \X Int \X Int
  /\ errors \subseteq Nat \X (HeaderFields \cup DeviceFields \cup {"yaml", "devices"})
  /\ devices \in Seq(DeviceConfig)
  /\ config \in Seq(DeviceConfig) \cup {None}
  /\ signals \in [Id -> Lists \cup {None}]
  /\ disk \in [Path -> Lists \cup {None}]

Init ==
  /\ pc = "idle" /\ file = NoConfig /\ row = 1
  /\ seen_ids = {} /\ seen_ip_port_unit = {} /\ errors = {} /\ devices = <<>>
  /\ config = None
  /\ signals = [i \in Id |-> None] /\ disk = [p \in Path |-> None]

-----------------------------------------------------------------------------
(***************************************************************************)
(* One device.                                                             *)
(***************************************************************************)
\* Faulty variant: a device on the standard port is not remembered.
KeysOfOtherPorts(r) ==
  IF r.ip # Empty /\ r.port \notin {Bad, 502} /\ r.unit_id # Bad
  THEN {<<r.ip, r.port, r.unit_id>>} ELSE {}

\* The key that must be unique, once its three parts are there; an address is
\* there also when it is invalid.
Keys(r) ==
  IF r.ip # Empty /\ r.port # Bad /\ r.unit_id # Bad
  THEN {<<r.ip, r.port, r.unit_id>>} ELSE {}

\* The fields a device is refused for, given what came before it.
DeviceFaults(r) ==
  {f \in DeviceFields :
     \/ f = "id" /\ (r.id = Empty \/ r.id \in seen_ids)
     \/ f = "name" /\ r.name = Empty
     \/ f = "ip" /\ r.ip \in {Empty, Bad}
     \/ f = "port" /\ r.port \notin Port
     \/ f = "unit_id" /\ r.unit_id \notin UnitAccepted
     \/ f = "signals_file" /\ r.signals_file = Empty
     \/ f = "vlan" /\ r.vlan = Bad
     \/ f = "prefix_length" /\ r.prefix_length \notin 0 .. 32
     \/ f = "endpoint" /\ Keys(r) \cap seen_ip_port_unit # {}}

\* A DeviceConfig is built from the fields that are there; vlan and
\* prefix_length have defaults.
Complete(r) ==
  /\ r.name # Empty /\ r.ip # Empty /\ r.signals_file # Empty
  /\ r.port # Bad /\ r.unit_id # Bad
Built(r) ==
  LET tagged == [r EXCEPT !.vlan = IF @ = Bad THEN 0 ELSE @]
  IN [tagged EXCEPT !.prefix_length = IF @ = Bad THEN 24 ELSE @]

(***************************************************************************)
(* upload_config.                                                          *)
(***************************************************************************)
\* What is above the devices; without YAML there is nothing to scan.
Upload(c) ==
  /\ pc = "idle" /\ config = None
  /\ file' = c
  /\ IF c.yaml
     THEN /\ pc' = "scan"
          /\ errors' = ({0} \X c.wrong) \cup
                       (IF c.devices = <<>> THEN {<<0, "devices">>} ELSE {})
     ELSE pc' = "done" /\ errors' = {<<0, "yaml">>}
  /\ UNCHANGED <<row, seen_ids, seen_ip_port_unit, devices, config, signals, disk>>

\* An entry that is no mapping is reported and skipped.
SkipDevice ==
  /\ pc = "scan" /\ row <= Len(file.devices)
  /\ file.devices[row] = Bad
  /\ errors' = errors \cup {<<row, "mapping">>}
  /\ row' = row + 1
  /\ UNCHANGED <<pc, file, seen_ids, seen_ip_port_unit, devices, config, signals, disk>>

\* Faulty variant: a refused device is forgotten.
ReadForgetful ==
  /\ pc = "scan" /\ row <= Len(file.devices)
  /\ file.devices[row] # Bad
  /\ LET r == file.devices[row]
     IN /\ errors' = errors \cup ({row} \X DeviceFaults(r))
        /\ seen_ids' = seen_ids \cup ({r.id} \ {Empty})
        /\ seen_ip_port_unit' = Keys(r)
        /\ devices' = IF Complete(r) THEN Append(devices, Built(r)) ELSE devices
  /\ row' = row + 1
  /\ UNCHANGED <<pc, file, config, signals, disk>>

\* After errors the devices are still checked, and built.
ReadDevice ==
  /\ pc = "scan" /\ row <= Len(file.devices)
  /\ file.devices[row] # Bad
  /\ LET r == file.devices[row]
     IN /\ errors' = errors \cup ({row} \X DeviceFaults(r))
        /\ seen_ids' = seen_ids \cup ({r.id} \ {Empty})
        /\ seen_ip_port_unit' = seen_ip_port_unit \cup Keys(r)
        /\ devices' = IF Complete(r) THEN Append(devices, Built(r)) ELSE devices
  /\ row' = row + 1
  /\ UNCHANGED <<pc, file, config, signals, disk>>

Return ==
  /\ pc = "scan" /\ row > Len(file.devices)
  /\ pc' = "done"
  /\ UNCHANGED <<file, row, seen_ids, seen_ip_port_unit, errors, devices, config,
                 signals, disk>>

\* Faulty variant: the devices that could be built are kept in spite of errors.
AnswerPartly ==
  /\ pc = "done"
  /\ config' = IF errors = {} \/ devices # <<>> THEN devices ELSE None
  /\ pc' = "idle" /\ file' = NoConfig /\ row' = 1
  /\ seen_ids' = {} /\ seen_ip_port_unit' = {} /\ errors' = {} /\ devices' = <<>>
  /\ UNCHANGED <<signals, disk>>

\* Errors are answered with 400; a config without is kept, and locked.
Answer ==
  /\ pc = "done"
  /\ config' = IF errors = {} THEN devices ELSE None
  /\ pc' = "idle" /\ file' = NoConfig /\ row' = 1
  /\ seen_ids' = {} /\ seen_ip_port_unit' = {} /\ errors' = {} /\ devices' = <<>>
  /\ UNCHANGED <<signals, disk>>

(***************************************************************************)
(* upload_signals and restore.                                             *)
(***************************************************************************)
\* device_by_id: the first device with that id.
DeviceById(id) ==
  CHOOSE d \in Range(config) :
    \E i \in DOMAIN config : /\ config[i] = d /\ d.id = id
                             /\ \A j \in 1 .. i - 1 : config[j].id # id

\* Faulty variant: the list goes to another file.
UploadElsewhere(id, list) ==
  /\ pc = "idle" /\ config # None
  /\ \E d \in Range(config) : d.id = id
  /\ \E p \in Path : disk' = [disk EXCEPT ![p] = list]
  /\ signals' = [signals EXCEPT ![id] = list]
  /\ UNCHANGED <<scan, config>>

\* An id no device has is answered with 404.
UploadSignals(id, list) ==
  /\ pc = "idle" /\ config # None
  /\ \E d \in Range(config) : d.id = id
  /\ disk' = [disk EXCEPT ![DeviceById(id).signals_file] = list]
  /\ signals' = [signals EXCEPT ![id] = list]
  /\ UNCHANGED <<scan, config>>

\* The process ends and --restore reads back the config, which it accepted, and of
\* each device the file its row names.
Restart ==
  /\ pc = "idle" /\ config # None
  /\ signals' = [i \in Id |->
                   IF \E d \in Range(config) : d.id = i
                   THEN disk[DeviceById(i).signals_file] ELSE None]
  /\ UNCHANGED <<scan, config, disk>>

Next ==
  \/ \E c \in Configs : Upload(c)
  \/ SkipDevice \/ ReadDevice \/ Return \/ Answer
  \/ \E id \in TextId, list \in Lists : UploadSignals(id, list)
  \/ Restart

Spec == Init /\ [][Next]_vars

-----------------------------------------------------------------------------
(***************************************************************************)
(* Properties.                                                             *)
(***************************************************************************)
\* The pass is exact at every device: it has found an error if and only if the
\* config so far breaks a rule (of unit ids that of UnitAccepted, see
\* UnitsAsSpecified), so no config with two devices of one id or one unit of an
\* endpoint is accepted, and none is refused for a device seen before.
DeviceScanExact ==
  pc = "scan" =>
    (errors = {} <=> /\ file.wrong = {} /\ file.devices # <<>>
                     /\ LegalDevicesUpTo(file.devices, row - 1))

\* No device is lost on the way: a config that is locked has a device for every
\* entry of the file, and the server of an endpoint has one device per unit, which
\* hot_reload can replace without touching another.
LockedBindable ==
  /\ pc = "done" /\ errors = {} => devices = file.devices
  /\ config # None =>
       \A i, j \in DOMAIN config : i # j =>
         /\ config[i].id # config[j].id
         /\ EndpointOf(config[i]) = EndpointOf(config[j]) =>
              config[i].unit_id # config[j].unit_id

\* A device whose signals_file is its own is loaded, after a restart too, with the
\* list uploaded for it.
OwnFileKept ==
  config # None =>
    \A d \in Range(config) :
      (\A e \in Range(config) : e.signals_file = d.signals_file => e = d) =>
        signals[d.id] = disk[d.signals_file]

\* Seen from outside the pass is one step: a config that is legal (but for unit ids
\* up to 255, see UnitsAsSpecified) is locked, with a device for every entry, and one
\* that is not leaves no trace.
AcceptsConfig(c) == c.yaml /\ c.wrong = {} /\ LegalDevices(c.devices)
DevicesOf(c) == c.devices
Lock == INSTANCE Acceptance WITH
          Nothing <- NoConfig, Accepts <- AcceptsConfig, Content <- DevicesOf,
          Blank <- None, asked <- file, kept <- config
LocksLegalConfigs == Lock!Spec

\* "unit_id must be 1-247", of the devices that are locked.
\* TLC refutes it: the loader takes the reserved ids 248-255 too.
UnitsAsSpecified ==
  config # None => \A d \in Range(config) : d.unit_id \in UnitSpecified

\* Every device of a locked config can be given its signals: "id: string".
\* TLC refutes it: an unquoted number is accepted as an id, and no URL names it.
IdsAreText == config # None => \A d \in Range(config) : d.id \in TextId
=============================================================================
