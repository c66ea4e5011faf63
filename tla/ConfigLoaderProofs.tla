------------------------- MODULE ConfigLoaderProofs -------------------------
(***************************************************************************)
(* Proofs about ConfigLoader, for all configs and signal lists.  The       *)
(* inductive invariant says what the accumulators hold (the ids and the    *)
(* units of the devices read so far, no more and no less), that without an *)
(* error the devices built are those of the file, and that a locked config *)
(* is a legal one, whose signals are those on disk.                        *)
(***************************************************************************)
EXTENDS ConfigLoader, TLAPS

SomeKey == (Ip \cup {Bad}) \X Int \X Int
SeenIds == \A n \in Id : n \in seen_ids <=> \E i \in 1 .. row - 1 :
                           file.devices[i] # Bad /\ file.devices[i].id = n
SeenKeys == \A k \in SomeKey : k \in seen_ip_port_unit <=> \E i \in 1 .. row - 1 :
                                 file.devices[i] # Bad /\ k \in Keys(file.devices[i])
Fresh == pc = "idle" => /\ row = 1 /\ errors = {} /\ devices = <<>>
                        /\ seen_ids = {} /\ seen_ip_port_unit = {}
Scanned ==
  pc = "scan" =>
    /\ row \in 1 .. Len(file.devices) + 1 /\ SeenIds /\ SeenKeys
    /\ errors = {} => /\ Len(devices) = row - 1
                      /\ \A i \in 1 .. row - 1 : devices[i] = file.devices[i]
Finished == pc = "done" /\ errors = {} =>
              devices = file.devices /\ LegalDevices(devices)
Locked == config # None => LegalDevices(config)
Quiet == /\ pc # "idle" => config = None
         /\ config = None => /\ signals = [i \in Id |-> None]
                             /\ disk = [p \in Path |-> None]
IInv == /\ TypeOK /\ Fresh /\ Scanned /\ DeviceScanExact
        /\ Finished /\ Locked /\ Quiet /\ OwnFileKept

-----------------------------------------------------------------------------
\* A device that is built has the types of a DeviceConfig, and is its row when the
\* row is in order.
LEMMA BuiltType ==
  ASSUME NEW r \in DeviceRow, Complete(r)
  PROVE  /\ Built(r) \in DeviceConfig
         /\ DeviceWellFormed(r) => Built(r) = r
<1> DEFINE v == IF r.vlan = Bad THEN 0 ELSE r.vlan
           l == IF r.prefix_length = Bad THEN 24 ELSE r.prefix_length
<1>2. v \in Int /\ l \in Int
  BY DEF DeviceRow
<1>1. Built(r) = [id |-> r.id, name |-> r.name, ip |-> r.ip, port |-> r.port,
                  unit_id |-> r.unit_id, signals_file |-> r.signals_file,
                  vlan |-> v, prefix_length |-> l]
  <2> DEFINE t == [r EXCEPT !.vlan = v]
  <2>1. t = [id |-> r.id, name |-> r.name, ip |-> r.ip, port |-> r.port,
             unit_id |-> r.unit_id, signals_file |-> r.signals_file,
             vlan |-> v, prefix_length |-> r.prefix_length]
    BY DEF DeviceRow
  <2>2. Built(r) = [t EXCEPT !.prefix_length = l]
    BY <2>1 DEF Built
  <2> HIDE DEF t, v, l
  <2> QED BY <2>1, <2>2
<1>3. /\ r.id \in Id \cup {Empty} /\ r.name \in {"name"} /\ r.ip \in Ip \cup {Bad}
      /\ r.port \in Int /\ r.unit_id \in Int /\ r.signals_file \in Path
  BY DEF DeviceRow, Complete
<1>4. Built(r) \in DeviceConfig
  <2> HIDE DEF v, l
  <2> QED BY <1>1, <1>2, <1>3 DEF DeviceConfig
<1>5. ASSUME DeviceWellFormed(r) PROVE Built(r) = r
  <2>1. r.vlan # Bad /\ r.prefix_length \in Int /\ Bad \notin Int
    BY <1>5, ConfigAssumption DEF DeviceWellFormed
  <2>2. v = r.vlan /\ l = r.prefix_length
    BY <2>1
  <2> HIDE DEF v, l
  <2> QED BY <1>1, <2>2 DEF DeviceRow
<1> QED BY <1>4, <1>5

\* The key of a device, when it has one, is of an address, a port and a unit.
LEMMA KeyTypes == ASSUME NEW r \in DeviceRow PROVE Keys(r) \subseteq SomeKey
BY DEF Keys, DeviceRow, SomeKey

\* A device in order, by itself, has no fault but a clash with what is in the
\* accumulators; and conversely.
LEMMA FaultFree ==
  ASSUME NEW r \in DeviceRow
  PROVE  DeviceFaults(r) = {} <=> /\ DeviceWellFormed(r) /\ r.id \notin seen_ids
                                  /\ Keys(r) \cap seen_ip_port_unit = {}
<1>0. DeviceFaults(r) \subseteq DeviceFields
  BY DEF DeviceFaults
<1>1. DeviceFaults(r) = {} <=> \A f \in DeviceFields : f \notin DeviceFaults(r)
  BY <1>0
<1>2. (\A f \in DeviceFields : f \notin DeviceFaults(r)) <=>
        /\ r.id # Empty /\ r.id \notin seen_ids /\ r.name # Empty
        /\ r.ip \notin {Empty, Bad} /\ r.port \in Port /\ r.unit_id \in UnitAccepted
        /\ r.signals_file # Empty /\ r.vlan # Bad /\ r.prefix_length \in 0 .. 32
        /\ Keys(r) \cap seen_ip_port_unit = {}
  BY DEF DeviceFaults, DeviceFields
<1> QED BY <1>1, <1>2 DEF DeviceWellFormed

\* A device in order can be built.
LEMMA WellFormedComplete ==
  ASSUME NEW r \in DeviceRow, DeviceWellFormed(r)
  PROVE  Complete(r) /\ Keys(r) = {<<r.ip, r.port, r.unit_id>>}
<1>0. Port \subseteq Int /\ UnitAccepted \subseteq Int
  BY DEF Port, UnitAccepted
<1>1. r.port \in Int /\ r.unit_id \in Int
  BY <1>0 DEF DeviceWellFormed
<1>2. Bad \notin Int
  BY ConfigAssumption
<1> QED BY <1>1, <1>2 DEF DeviceWellFormed, Complete, Keys

\* Two devices in order clash exactly if they have an id or a key in common.
LEMMA ClashIsSharing ==
  ASSUME NEW r \in DeviceRow, NEW s \in DeviceRow, DeviceWellFormed(r), DeviceWellFormed(s)
  PROVE  DeviceClash(r, s) <=> r.id = s.id \/ Keys(r) \cap Keys(s) # {}
<1>1. ASSUME NEW x, NEW y PROVE {x} \cap {y} # {} <=> x = y
  OBVIOUS
<1>2. Keys(r) \cap Keys(s) # {} <=>
        <<r.ip, r.port, r.unit_id>> = <<s.ip, s.port, s.unit_id>>
  BY <1>1, WellFormedComplete
<1>3. <<r.ip, r.port, r.unit_id>> = <<s.ip, s.port, s.unit_id>> <=>
        EndpointOf(r) = EndpointOf(s) /\ r.unit_id = s.unit_id
  BY DEF EndpointOf
<1> QED BY <1>2, <1>3 DEF DeviceClash

\* Among the devices of a legal config no two have one id or one unit.
LEMMA LegalDistinct ==
  ASSUME NEW rows \in Seq(DeviceConfig), LegalDevices(rows),
         NEW i \in DOMAIN rows, NEW j \in DOMAIN rows, i # j
  PROVE  ~DeviceClash(rows[i], rows[j])
<1>1. i \in 1 .. Len(rows) /\ j \in 1 .. Len(rows) /\ (i < j \/ j < i)
  OBVIOUS
<1>2. i < j => ~DeviceClash(rows[i], rows[j])
  BY <1>1 DEF LegalDevices, LegalDevicesUpTo
<1>3. j < i => ~DeviceClash(rows[j], rows[i])
  BY <1>1 DEF LegalDevices, LegalDevicesUpTo
<1> QED BY <1>1, <1>2, <1>3 DEF DeviceClash

\* device_by_id finds the device.
LEMMA FoundById ==
  ASSUME TypeOK, Locked, config # None, NEW d \in Range(config)
  PROVE  DeviceById(d.id) = d
<1>1. config \in Seq(DeviceConfig) /\ LegalDevices(config)
  BY DEF TypeOK, Locked
<1>2. \A i, j \in DOMAIN config : i # j => config[i].id # config[j].id
  BY <1>1, LegalDistinct DEF DeviceClash
<1>3. PICK i \in DOMAIN config : config[i] = d
  BY DEF Range
<1> DEFINE First(e) == \E k \in DOMAIN config :
             config[k] = e /\ e.id = d.id /\ \A j \in 1 .. k - 1 : config[j].id # d.id
<1>4. First(d)
  <2>1. \A j \in 1 .. i - 1 : j \in DOMAIN config /\ j # i
    BY <1>1
  <2> QED BY <1>2, <1>3, <2>1
<1>5. \A e \in Range(config) : First(e) => e = d
  BY <1>2, <1>3
<1>6. DeviceById(d.id) = CHOOSE e \in Range(config) : First(e)
  BY DEF DeviceById
<1> HIDE DEF First
<1> QED BY <1>4, <1>5, <1>6

-----------------------------------------------------------------------------
\* The variables keep their types.
LEMMA TypeInit == Init => TypeOK
<1> SUFFICES ASSUME Init PROVE TypeOK
  OBVIOUS
<1>1. NoConfig \in Config
  BY DEF NoConfig, Config
<1>2. <<>> \in Seq(DeviceConfig)
  OBVIOUS
<1>3. /\ seen_ids \subseteq Id
      /\ seen_ip_port_unit \subseteq (Ip \cup {Bad}) \X Int \X Int
      /\ errors \subseteq Nat \X (HeaderFields \cup DeviceFields \cup {"yaml", "devices"})
  BY DEF Init
<1> QED BY <1>1, <1>2, <1>3 DEF Init, TypeOK

LEMMA TypeStep == ASSUME TypeOK, Locked, [Next]_vars PROVE TypeOK'
<1> DEFINE Where == HeaderFields \cup DeviceFields \cup {"yaml", "devices"}
<1>1. ASSUME NEW c \in Configs, Upload(c) PROVE TypeOK'
  <2>1. c \in Config
    BY LoaderAssumption
  <2>2. errors' \subseteq Nat \X Where
    <3>1. CASE c.yaml
      <4>1. c.wrong \subseteq HeaderFields
        BY <2>1 DEF Config
      <4> QED BY <1>1, <3>1, <4>1 DEF Upload
    <3>2. CASE ~c.yaml
      BY <1>1, <3>2 DEF Upload
    <3> QED BY <3>1, <3>2
  <2>3. pc' \in {"idle", "scan", "done"}
    BY <1>1 DEF Upload
  <2> QED BY <1>1, <2>1, <2>2, <2>3 DEF Upload, TypeOK
<1>2. CASE SkipDevice
  <2>1. errors' \subseteq Nat \X Where
    BY <1>2 DEF SkipDevice, TypeOK, DeviceFields
  <2> QED BY <1>2, <2>1 DEF SkipDevice, TypeOK
<1>3. CASE ReadDevice
  <2> DEFINE r == file.devices[row]
  <2>1. r \in DeviceRow
    BY <1>3 DEF ReadDevice, TypeOK, Config
  <2>2. errors' \subseteq Nat \X Where
    <3>1. DeviceFaults(r) \subseteq DeviceFields
      BY DEF DeviceFaults
    <3>2. errors' = errors \cup ({row} \X DeviceFaults(r)) /\ row \in Nat
      BY <1>3 DEF ReadDevice, TypeOK
    <3> QED BY <3>1, <3>2 DEF TypeOK
  <2>3. seen_ids' \subseteq Id
    BY <1>3, <2>1 DEF ReadDevice, TypeOK, DeviceRow
  <2>4. seen_ip_port_unit' \subseteq (Ip \cup {Bad}) \X Int \X Int
    BY <1>3, <2>1, KeyTypes DEF ReadDevice, TypeOK, SomeKey
  <2>5. devices' \in Seq(DeviceConfig)
    BY <1>3, <2>1, BuiltType DEF ReadDevice, TypeOK
  <2> QED BY <1>3, <2>2, <2>3, <2>4, <2>5 DEF ReadDevice, TypeOK
<1>4. CASE Return
  BY <1>4 DEF Return, TypeOK
<1>5. CASE Answer
  <2>1. NoConfig \in Config
    BY DEF NoConfig, Config
  <2>2. <<>> \in Seq(DeviceConfig)
    OBVIOUS
  <2>3. config' \in Seq(DeviceConfig) \cup {None}
    BY <1>5 DEF Answer, TypeOK
  <2>4. /\ seen_ids' \subseteq Id
        /\ seen_ip_port_unit' \subseteq (Ip \cup {Bad}) \X Int \X Int
        /\ errors' \subseteq Nat \X Where
    BY <1>5 DEF Answer
  <2> QED BY <1>5, <2>1, <2>2, <2>3, <2>4 DEF Answer, TypeOK
<1>6. ASSUME NEW id \in TextId, NEW list \in Lists, UploadSignals(id, list) PROVE TypeOK'
  <2>1. id \in Id
    BY ConfigAssumption
  <2>2. signals' \in [Id -> Lists \cup {None}] /\ disk' \in [Path -> Lists \cup {None}]
    BY <1>6, <2>1 DEF UploadSignals, TypeOK
  <2> QED BY <1>6, <2>2 DEF UploadSignals, TypeOK, scan
<1>7. CASE Restart
  <2>1. ASSUME NEW i \in Id, NEW d \in Range(config), d.id = i
        PROVE  disk[DeviceById(i).signals_file] \in Lists \cup {None}
    <3>1. DeviceById(i) = d
      BY <1>7, <2>1, FoundById DEF Restart
    <3>2. d.signals_file \in Path
      <4>1. config \in Seq(DeviceConfig)
        BY <1>7 DEF TypeOK, Restart
      <4>2. d \in DeviceConfig
        BY <4>1 DEF Range
      <4> QED BY <4>2 DEF DeviceConfig
    <3> QED BY <3>1, <3>2 DEF TypeOK
  <2>2. signals' \in [Id -> Lists \cup {None}]
    BY <1>7, <2>1 DEF Restart
  <2> QED BY <1>7, <2>2 DEF Restart, TypeOK, scan
<1>8. CASE UNCHANGED vars
  BY <1>8 DEF vars, TypeOK
<1> QED BY <1>1, <1>2, <1>3, <1>4, <1>5, <1>6, <1>7, <1>8 DEF Next

-----------------------------------------------------------------------------
\* There is no error after a device exactly if there was none and it has no fault.
LEMMA FaultsReported ==
  ASSUME NEW r, errors' = errors \cup ({row} \X DeviceFaults(r))
  PROVE  errors' = {} <=> errors = {} /\ DeviceFaults(r) = {}
<1> DEFINE F == DeviceFaults(r)
           E == errors'
<1>1. E = errors \cup ({row} \X F)
  OBVIOUS
<1> HIDE DEF E, F
<1>2. ASSUME NEW f \in F PROVE <<row, f>> \in E
  BY <1>1
<1>3. ASSUME F = {} PROVE {row} \X F = {}
  BY <1>3
<1>4. E = {} <=> errors = {} /\ F = {}
  BY <1>1, <1>2, <1>3
<1> QED BY <1>4 DEF E, F

\* Reading a device adds exactly its id and key to the accumulators, and the device
\* itself as long as there is no error.
LEMMA ReadStep ==
  ASSUME TypeOK, Scanned, ReadDevice PROVE Scanned'
<1> DEFINE r == file.devices[row]
<1>1. /\ r \in DeviceRow /\ row \in 1 .. Len(file.devices) /\ row' = row + 1
      /\ file' = file /\ pc' = "scan" /\ pc = "scan" /\ Len(file.devices) \in Nat
      /\ r # Bad
  BY DEF ReadDevice, TypeOK, Config
<1>2. 1 .. row' - 1 = (1 .. row - 1) \cup {row} /\ row' - 1 = row
  BY <1>1
<1>3. row' \in 1 .. Len(file'.devices) + 1
  BY <1>1
<1>4. SeenIds'
  <2>1. seen_ids' = seen_ids \cup ({r.id} \ {Empty})
    BY DEF ReadDevice
  <2>2. ASSUME NEW n \in Id
        PROVE  n \in seen_ids' <=> n \in seen_ids \/ n = r.id
    BY <2>1, ConfigAssumption
  <2> QED BY <1>1, <1>2, <2>2 DEF Scanned, SeenIds
<1>5. SeenKeys'
  <2>1. seen_ip_port_unit' = seen_ip_port_unit \cup Keys(r)
    BY DEF ReadDevice
  <2> QED BY <1>1, <1>2, <2>1 DEF Scanned, SeenKeys
<1>6. ASSUME errors' = {}
      PROVE  Len(devices') = row /\ \A i \in 1 .. row : devices'[i] = file.devices[i]
  <2>0. errors' = errors \cup ({row} \X DeviceFaults(r))
    BY DEF ReadDevice
  <2>1. errors = {} /\ DeviceFaults(r) = {}
    BY <1>6, <2>0, FaultsReported
  <2>2. DeviceWellFormed(r)
    BY <1>1, <2>1, FaultFree
  <2>3. devices' = Append(devices, r)
    BY <1>1, <2>2, WellFormedComplete, BuiltType DEF ReadDevice
  <2>4. devices \in Seq(DeviceConfig) /\ Len(devices) = row - 1
        /\ \A i \in 1 .. row - 1 : devices[i] = file.devices[i]
    BY <1>1, <2>1 DEF TypeOK, Scanned
  <2> QED BY <1>1, <1>2, <2>3, <2>4
<1> QED BY <1>1, <1>2, <1>3, <1>4, <1>5, <1>6 DEF Scanned

\* While no error is found, a device has no fault exactly if it goes with those
\* before it.
LEMMA DeviceExact ==
  ASSUME TypeOK, Scanned, ReadDevice, LegalDevicesUpTo(file.devices, row - 1)
  PROVE  DeviceFaults(file.devices[row]) = {} <=> LegalDevicesUpTo(file.devices, row)
<1> DEFINE r == file.devices[row]
           before == 1 .. row - 1
<1>1. /\ r \in DeviceRow /\ row \in 1 .. Len(file.devices) /\ Len(file.devices) \in Nat
      /\ \A i \in before : file.devices[i] \in DeviceRow /\ DeviceWellFormed(file.devices[i])
      /\ \A i \in before : file.devices[i] # Bad
      /\ r # Bad /\ pc = "scan"
  BY LoaderAssumption DEF ReadDevice, TypeOK, Config, LegalDevicesUpTo
<1>2. 1 .. row = before \cup {row} /\ \A i \in before : i < row /\ i \in Nat
  BY <1>1
<1>3. LegalDevicesUpTo(file.devices, row) <=>
        DeviceWellFormed(r) /\ \A i \in before : ~DeviceClash(file.devices[i], r)
  BY <1>1, <1>2 DEF LegalDevicesUpTo
<1>4. ASSUME DeviceWellFormed(r)
      PROVE  (\A i \in before : ~DeviceClash(file.devices[i], r)) <=>
               r.id \notin seen_ids /\ Keys(r) \cap seen_ip_port_unit = {}
  <2>1. \A i \in before : DeviceClash(file.devices[i], r) <=>
          file.devices[i].id = r.id \/ Keys(file.devices[i]) \cap Keys(r) # {}
    BY <1>1, <1>4, ClashIsSharing
  <2>2. r.id \in Id
    BY <1>1, <1>4 DEF DeviceWellFormed, DeviceRow
  <2>3. r.id \notin seen_ids <=> \A i \in before : file.devices[i].id # r.id
    BY <1>1, <2>2 DEF Scanned, SeenIds
  <2>4. Keys(r) \cap seen_ip_port_unit = {} <=>
          \A i \in before : Keys(file.devices[i]) \cap Keys(r) = {}
    BY <1>1, KeyTypes DEF Scanned, SeenKeys
  <2> QED BY <2>1, <2>3, <2>4
<1> QED BY <1>1, <1>3, <1>4, FaultFree

\* With an error more, the config so far breaks a rule, and conversely.
LEMMA ExactStep ==
  ASSUME TypeOK, Scanned, DeviceScanExact, pc = "scan", SkipDevice \/ ReadDevice
  PROVE  DeviceScanExact'
<1>1. /\ row \in Nat \ {0} /\ row' = row + 1 /\ row' - 1 = row /\ file' = file
  BY DEF SkipDevice, ReadDevice, TypeOK
<1>2. LegalDevicesUpTo(file.devices, row) => LegalDevicesUpTo(file.devices, row - 1)
  BY <1>1 DEF LegalDevicesUpTo
<1>3. CASE SkipDevice
  <2>1. errors' # {} /\ file.devices[row] = Bad
    BY <1>3 DEF SkipDevice
  <2>2. ~LegalDevicesUpTo(file.devices, row)
    BY <1>1, <2>1 DEF LegalDevicesUpTo
  <2> QED BY <1>1, <2>1, <2>2 DEF DeviceScanExact
<1>4. CASE ReadDevice
  <2>0. errors' = errors \cup ({row} \X DeviceFaults(file.devices[row]))
    BY <1>4 DEF ReadDevice
  <2>1. errors' = {} <=> errors = {} /\ DeviceFaults(file.devices[row]) = {}
    BY <2>0, FaultsReported
  <2> QED BY <1>1, <1>2, <1>4, <2>1, DeviceExact DEF DeviceScanExact
<1> QED BY <1>3, <1>4

-----------------------------------------------------------------------------
\* What is kept from one call to the next when none is under way.
LEMMA KeptStep ==
  ASSUME TypeOK, TypeOK', Scanned, DeviceScanExact, Finished, Locked, Quiet, OwnFileKept,
         [Next]_vars
  PROVE  (Finished /\ Locked /\ Quiet /\ OwnFileKept)'
<1>1. ASSUME NEW c \in Configs, Upload(c) PROVE (Finished /\ Locked /\ Quiet /\ OwnFileKept)'
  BY <1>1 DEF Upload, Finished, Locked, Quiet, OwnFileKept
<1>2. CASE SkipDevice \/ ReadDevice
  BY <1>2 DEF SkipDevice, ReadDevice, Finished, Locked, Quiet, OwnFileKept
<1>3. CASE Return
  <2>1. ASSUME errors = {} PROVE devices = file.devices /\ LegalDevices(devices)
    <3>1. /\ row = Len(file.devices) + 1 /\ Len(devices) = row - 1
          /\ Len(file.devices) \in Nat
          /\ \A i \in 1 .. row - 1 : devices[i] = file.devices[i]
          /\ devices \in Seq(DeviceConfig) /\ file.devices \in Seq(DeviceRow \cup {Bad})
      BY <1>3, <2>1 DEF Return, Scanned, TypeOK, Config
    <3>2. row - 1 = Len(file.devices)
      BY <3>1
    <3>3. devices = file.devices
      BY <3>1, <3>2
    <3>4. file.devices # <<>> /\ LegalDevicesUpTo(file.devices, row - 1)
      BY <1>3, <2>1 DEF Return, DeviceScanExact
    <3> QED BY <3>2, <3>3, <3>4 DEF LegalDevices
  <2>2. Finished'
    BY <1>3, <2>1 DEF Return, Finished
  <2> QED BY <1>3, <2>2 DEF Return, Locked, Quiet, OwnFileKept
<1>4. CASE Answer
  <2>1. signals = [i \in Id |-> None] /\ disk = [p \in Path |-> None] /\ config = None
    BY <1>4 DEF Answer, Quiet
  <2>2. Locked'
    BY <1>4 DEF Answer, Finished, Locked
  <2>3. Finished' /\ Quiet'
    BY <1>4, <2>1 DEF Answer, Finished, Quiet
  <2>4. OwnFileKept'
    <3>1. ASSUME config' # None, NEW d \in Range(config')
          PROVE  signals'[d.id] = disk'[d.signals_file]
      <4>1. config' \in Seq(DeviceConfig) /\ LegalDevices(config')
        BY <2>2, <3>1 DEF TypeOK, Locked
      <4>2. PICK i \in 1 .. Len(config') : config'[i] = d
        BY <4>1 DEF Range
      <4>3. d \in DeviceConfig /\ d.id # Empty
        BY <4>1, <4>2 DEF LegalDevices, LegalDevicesUpTo, DeviceWellFormed
      <4>4. d.id \in Id /\ d.signals_file \in Path
        BY <4>3 DEF DeviceConfig
      <4> QED BY <1>4, <2>1, <4>4 DEF Answer
    <3> QED BY <3>1 DEF OwnFileKept
  <2> QED BY <2>2, <2>3, <2>4
<1>5. ASSUME NEW id \in TextId, NEW list \in Lists, UploadSignals(id, list)
      PROVE  (Finished /\ Locked /\ Quiet /\ OwnFileKept)'
  <2>1. PICK u \in Range(config) : u.id = id
    BY <1>5 DEF UploadSignals
  <2>2. DeviceById(id) = u
    BY <1>5, <2>1, FoundById DEF UploadSignals
  <2>3. /\ config' = config /\ config # None /\ pc = "idle" /\ UNCHANGED scan
        /\ disk' = [disk EXCEPT ![u.signals_file] = list]
        /\ signals' = [signals EXCEPT ![id] = list]
    BY <1>5, <2>2 DEF UploadSignals
  <2>4. ASSUME NEW d \in Range(config),
               \A e \in Range(config) : e.signals_file = d.signals_file => e = d
        PROVE  signals'[d.id] = disk'[d.signals_file]
    <3>1. signals[d.id] = disk[d.signals_file]
      BY <2>3, <2>4 DEF OwnFileKept
    <3>2. u.id \in Id /\ u.signals_file \in Path
      <4>1. config \in Seq(DeviceConfig)
        BY <2>3 DEF TypeOK
      <4>2. u \in DeviceConfig
        BY <4>1 DEF Range
      <4> QED BY <2>1, <4>2, ConfigAssumption DEF DeviceConfig
    <3>3. CASE d = u
      BY <2>1, <2>3, <3>2, <3>3 DEF TypeOK
    <3>4. CASE d # u
      <4>1. d.id # u.id
        BY <2>2, <2>1, <2>3, <3>4, FoundById
      <4>2. d.signals_file # u.signals_file
        BY <2>4, <3>4
      <4> QED BY <2>1, <2>3, <3>1, <4>1, <4>2 DEF TypeOK
    <3> QED BY <3>3, <3>4
  <2> QED BY <2>3, <2>4 DEF scan, Finished, Locked, Quiet, OwnFileKept
<1>6. CASE Restart
  <2>1. ASSUME NEW d \in Range(config) PROVE signals'[d.id] = disk'[d.signals_file]
    <3>1. config \in Seq(DeviceConfig) /\ LegalDevices(config) /\ config # None
      BY <1>6 DEF Restart, TypeOK, Locked
    <3>2. PICK i \in 1 .. Len(config) : config[i] = d
      BY <3>1 DEF Range
    <3>3. d \in DeviceConfig /\ d.id # Empty
      BY <3>1, <3>2 DEF LegalDevices, LegalDevicesUpTo, DeviceWellFormed
    <3>4. d.id \in Id /\ DeviceById(d.id) = d
      BY <3>1, <3>3, FoundById DEF DeviceConfig
    <3> QED BY <1>6, <3>4 DEF Restart
  <2> QED BY <1>6, <2>1 DEF Restart, scan, Finished, Locked, Quiet, OwnFileKept
<1>7. CASE UNCHANGED vars
  BY <1>7 DEF vars, Finished, Locked, Quiet, OwnFileKept
<1> QED BY <1>1, <1>2, <1>3, <1>4, <1>5, <1>6, <1>7 DEF Next

\* What holds of the scan of a config.
LEMMA ScanStep ==
  ASSUME TypeOK, TypeOK', Fresh, Scanned, DeviceScanExact, [Next]_vars
  PROVE  (Fresh /\ Scanned /\ DeviceScanExact)'
<1>1. ASSUME NEW c \in Configs, Upload(c) PROVE (Fresh /\ Scanned /\ DeviceScanExact)'
  <2>1. CASE c.yaml
    <3>1. /\ pc' = "scan" /\ file' = c /\ c \in Config /\ Len(c.devices) \in Nat
          /\ errors' = ({0} \X c.wrong) \cup
                       (IF c.devices = <<>> THEN {<<0, "devices">>} ELSE {})
      BY <1>1, <2>1, LoaderAssumption DEF Upload, Config
    <3>2. /\ row' = 1 /\ row' - 1 = 0 /\ seen_ids' = {} /\ seen_ip_port_unit' = {}
          /\ devices' = <<>>
      BY <1>1 DEF Upload, Fresh
    <3>3. Scanned'
      BY <3>1, <3>2 DEF Scanned, SeenIds, SeenKeys
    <3>4. LegalDevicesUpTo(c.devices, 0)
      BY DEF LegalDevicesUpTo
    <3>5. errors' = {} <=> c.wrong = {} /\ c.devices # <<>>
      <4>1. ASSUME NEW f \in c.wrong PROVE <<0, f>> \in errors'
        BY <3>1
      <4>2. ASSUME c.wrong = {} PROVE {0} \X c.wrong = {}
        BY <4>2
      <4> QED BY <3>1, <4>1, <4>2
    <3>6. DeviceScanExact'
      BY <3>1, <3>2, <3>4, <3>5 DEF DeviceScanExact
    <3> QED BY <3>1, <3>3, <3>6 DEF Fresh
  <2>2. CASE ~c.yaml
    BY <1>1, <2>2 DEF Upload, Fresh, Scanned, DeviceScanExact
  <2> QED BY <2>1, <2>2
<1>2. CASE SkipDevice
  <2>1. /\ pc = "scan" /\ pc' = "scan" /\ file' = file /\ row' = row + 1
        /\ seen_ids' = seen_ids /\ seen_ip_port_unit' = seen_ip_port_unit
        /\ row \in 1 .. Len(file.devices) /\ Len(file.devices) \in Nat
    BY <1>2 DEF SkipDevice, TypeOK, Config
  <2>2. errors' # {} /\ file.devices[row] = Bad
    BY <1>2 DEF SkipDevice
  <2>3. 1 .. row' - 1 = (1 .. row - 1) \cup {row}
    BY <2>1
  <2>4. row' \in 1 .. Len(file'.devices) + 1
    BY <2>1
  <2>5. SeenIds' /\ SeenKeys'
    BY <2>1, <2>2, <2>3 DEF Scanned, SeenIds, SeenKeys
  <2> QED BY <1>2, <2>1, <2>2, <2>4, <2>5, ExactStep DEF Fresh, Scanned
<1>3. CASE ReadDevice
  <2>1. pc = "scan" /\ pc' = "scan"
    BY <1>3 DEF ReadDevice
  <2> QED BY <1>3, <2>1, ReadStep, ExactStep DEF Fresh
<1>4. CASE Return
  BY <1>4 DEF Return, Fresh, Scanned, DeviceScanExact
<1>5. CASE Answer
  BY <1>5 DEF Answer, Fresh, Scanned, DeviceScanExact
<1>6. ASSUME NEW id \in TextId, NEW list \in Lists, UploadSignals(id, list)
      PROVE  (Fresh /\ Scanned /\ DeviceScanExact)'
  BY <1>6 DEF UploadSignals, scan, Fresh, Scanned, DeviceScanExact
<1>7. CASE Restart
  BY <1>7 DEF Restart, scan, Fresh, Scanned, DeviceScanExact
<1>8. CASE UNCHANGED vars
  BY <1>8 DEF vars, Fresh, Scanned, SeenIds, SeenKeys, DeviceScanExact
<1> QED BY <1>1, <1>2, <1>3, <1>4, <1>5, <1>6, <1>7, <1>8 DEF Next

-----------------------------------------------------------------------------
LEMMA IInvInit == Init => IInv
BY TypeInit DEF Init, IInv, Fresh, Scanned, DeviceScanExact, Finished, Locked, Quiet,
                OwnFileKept

LEMMA IInvStep == ASSUME IInv, [Next]_vars PROVE IInv'
<1>1. TypeOK'
  BY TypeStep DEF IInv
<1> QED BY <1>1, ScanStep, KeptStep DEF IInv

LEMMA IInvAlways == Spec => []IInv
BY IInvInit, IInvStep, PTL DEF Spec

\* For all configs and lists, what a call, the locked config and the disk hold keeps
\* its types: every DeviceConfig has the fields load_and_validate promises.
THEOREM TypeCorrect == Spec => []TypeOK
<1>1. IInv => TypeOK
  BY DEF IInv
<1> QED BY <1>1, IInvAlways, PTL

\* For all configs, the one pass of load_and_validate accepts exactly those whose
\* devices are each in order and pairwise share no id and no unit of an endpoint.
THEOREM ScanIsExact == Spec => []DeviceScanExact
<1>1. IInv => DeviceScanExact
  BY DEF IInv
<1> QED BY <1>1, IInvAlways, PTL

\* For all configs, one that is locked is the file, device by device, and every unit
\* of an endpoint is one device's.
THEOREM LockedIsBindable == Spec => []LockedBindable
<1>1. IInv => LockedBindable
  <2>1. ASSUME IInv, config # None, NEW i \in DOMAIN config, NEW j \in DOMAIN config, i # j
        PROVE  ~DeviceClash(config[i], config[j])
    BY <2>1, LegalDistinct DEF IInv, TypeOK, Locked
  <2> QED BY <2>1 DEF IInv, Finished, LockedBindable, DeviceClash
<1> QED BY <1>1, IInvAlways, PTL

\* For all configs and uploads, a device with a signals_file of its own is loaded,
\* before and after a restart, with what was uploaded for it last.
THEOREM OwnFilesKept == Spec => []OwnFileKept
<1>1. IInv => OwnFileKept
  BY DEF IInv
<1> QED BY <1>1, IInvAlways, PTL

-----------------------------------------------------------------------------
(***************************************************************************)
(* The loader and upload_config implement Acceptance.  The step that       *)
(* answers is Answer, and every other one but Upload stutters.             *)
(***************************************************************************)
Answered ==
  /\ pc = "idle" => file = NoConfig
  /\ pc = "scan" => file.yaml
  /\ pc = "done" => (errors = {} <=> AcceptsConfig(file))

LEMMA AnsweredStep == ASSUME IInv, Answered, [Next]_vars PROVE Answered'
<1>1. ASSUME NEW c \in Configs, Upload(c) PROVE Answered'
  BY <1>1 DEF Upload, Answered, AcceptsConfig
<1>2. CASE SkipDevice \/ ReadDevice
  BY <1>2 DEF SkipDevice, ReadDevice, Answered
<1>3. CASE Return
  <2>1. row - 1 = Len(file.devices)
    BY <1>3 DEF Return, IInv, TypeOK, Config, Scanned
  <2>2. errors = {} <=> file.wrong = {} /\ LegalDevices(file.devices)
    BY <1>3, <2>1 DEF Return, IInv, DeviceScanExact, LegalDevices
  <2> QED BY <1>3, <2>2 DEF Return, Answered, AcceptsConfig
<1>4. CASE Answer
  BY <1>4 DEF Answer, Answered
<1>5. CASE \/ Restart \/ UNCHANGED vars
            \/ \E id \in TextId, list \in Lists : UploadSignals(id, list)
  BY <1>5 DEF Restart, vars, UploadSignals, scan, Answered
<1> QED BY <1>1, <1>2, <1>3, <1>4, <1>5 DEF Next

LEMMA AnsweredAlways == Spec => []Answered
<1>1. Init => Answered
  BY DEF Init, Answered
<1>2. IInv /\ Answered /\ [Next]_vars => Answered'
  BY AnsweredStep
<1> QED BY <1>1, <1>2, IInvAlways, PTL DEF Spec

\* Each step of the pass is one of Acceptance's, or none.
LEMMA LockStep ==
  ASSUME IInv, Answered, [Next]_vars PROVE [Lock!Next]_<<file, config>>
<1>1. ASSUME NEW c \in Configs, Upload(c) PROVE Lock!Ask
  BY <1>1 DEF Upload, Answered, Lock!Ask
<1>2. CASE SkipDevice \/ ReadDevice \/ Return
  BY <1>2 DEF SkipDevice, ReadDevice, Return
<1>3. CASE Answer
  <2>1. /\ file' = NoConfig /\ config = None
        /\ config' = IF errors = {} THEN devices ELSE None
        /\ errors = {} <=> AcceptsConfig(file)
        /\ errors = {} => devices = file.devices
    BY <1>3 DEF Answer, Answered, IInv, Finished, Quiet
  <2>2. config' = IF AcceptsConfig(file) THEN DevicesOf(file) ELSE config
    BY <2>1 DEF DevicesOf
  <2>3. CASE file = NoConfig
    <3>1. ~AcceptsConfig(file)
      BY <2>3 DEF NoConfig, AcceptsConfig
    <3> QED BY <2>1, <2>2, <2>3, <3>1
  <2>4. CASE file # NoConfig
    <3>1. Lock!Answer
      BY <2>1, <2>2, <2>4 DEF Lock!Answer
    <3> QED BY <3>1 DEF Lock!Next
  <2> QED BY <2>3, <2>4
<1>4. CASE \/ Restart \/ UNCHANGED vars
            \/ \E id \in TextId, list \in Lists : UploadSignals(id, list)
  BY <1>4 DEF Restart, vars, UploadSignals, scan
<1> QED BY <1>1, <1>2, <1>3, <1>4 DEF Next, Lock!Next

\* For all configs, the pass as a whole is one answer: a config is locked if and only
\* if it is legal, entry by entry, and a refused one changes nothing.
THEOREM OneAnswer == Spec => LocksLegalConfigs
<1>1. Init => Lock!Init
  BY DEF Init, Lock!Init
<1>2. IInv /\ Answered /\ [Next]_vars => [Lock!Next]_<<file, config>>
  BY LockStep
<1> QED
  BY <1>1, <1>2, IInvAlways, AnsweredAlways, PTL DEF Spec, LocksLegalConfigs, Lock!Spec
=============================================================================
