----------------------------- MODULE ConfigRules -----------------------------
(***************************************************************************)
(* The devices of a sim_config.yaml, as rows, and the rules they obey:     *)
(* each by itself, and any two of them (REQUIREMENTS.md, section 6, as     *)
(* config_loader.py applies it).                                           *)
(***************************************************************************)
EXTENDS Integers, Sequences

CONSTANTS
  Id,      \* what YAML makes of an id: a text or, unquoted, a number
  TextId,  \* those that are texts; only these can stand in a URL
  Ip,      \* IPv4 addresses
  Path,    \* signals_file
  Empty, Bad

ASSUME ConfigAssumption ==
  /\ TextId \subseteq Id
  /\ Empty \notin Id \cup Ip \cup Path /\ Bad \notin Ip \cup Int

\* An entry of 'devices': a field is its value, Empty, or Bad for a text int() or
\* IPv4Address refuses.  Absent vlan and prefix_length are their defaults.
DeviceRow == [id : Id \cup {Empty}, name : {"name", Empty},
              ip : Ip \cup {Empty, Bad},
              port : Int \cup {Bad}, unit_id : Int \cup {Bad},
              signals_file : Path \cup {Empty},
              vlan : Int \cup {Bad}, prefix_length : Int \cup {Bad}]

Port == 1 .. 65535

\* The unit ids the loader takes.  The requirements stop at 247, after which Modbus
\* reserves them; the loader goes on, and legal below is what the loader takes.
UnitAccepted == 1 .. 255
UnitSpecified == 1 .. 247

DeviceWellFormed(r) ==
  /\ r.id # Empty /\ r.name # Empty /\ r.signals_file # Empty
  /\ r.ip \notin {Empty, Bad}
  /\ r.port \in Port /\ r.unit_id \in UnitAccepted
  /\ r.vlan # Bad /\ r.prefix_length \in 0 .. 32

\* Where a master finds a device.
EndpointOf(r) == <<r.ip, r.port>>
DeviceClash(r, s) ==
  \/ r.id = s.id
  \/ EndpointOf(r) = EndpointOf(s) /\ r.unit_id = s.unit_id

LegalDevicesUpTo(rows, n) ==
  /\ \A i \in 1 .. n : rows[i] # Bad /\ DeviceWellFormed(rows[i])
  /\ \A i, j \in 1 .. n : i < j => ~DeviceClash(rows[i], rows[j])

LegalDevices(rows) == rows # <<>> /\ LegalDevicesUpTo(rows, Len(rows))
=============================================================================
