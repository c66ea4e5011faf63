----------------------------- MODULE NetworkOps -----------------------------
(***************************************************************************)
(* What network_manager.py does to the kernel with `ip`: 802.1Q            *)
(* subinterfaces of the traffic NIC and the devices' addresses.  Both stay *)
(* in the kernel when the process that made them dies.  A NetworkManager   *)
(* remembers what it made, so that teardown can remove exactly that.       *)
(***************************************************************************)
EXTENDS Naturals, Sequences, FiniteSets

CONSTANTS
  Devices,  \* the configured devices, in order (a sequence)
  VlanOf,   \* VlanOf[d]: the device's VLAN, 0 for none
  Nic       \* network interfaces

Device == {Devices[i] : i \in DOMAIN Devices}
Vlans == {VlanOf[d] : d \in Device} \ {0}

ASSUME NetworkAssumption ==
  /\ \A d \in Device : VlanOf[d] \in Nat
  /\ Devices \in Seq(Device) /\ Devices # <<>>

\* What a validated config says of the network (vlan is is_vlan_mode), and what the
\* functions that rewrite its text make of that.  The vlan_mode line is found, or
\* there is a place for it; or both are missed (`network: {...}`); or it is put where
\* it breaks the block (whose keys stand further in).  The traffic_interface line is
\* found unless its value is in quotes.
Configs == [nic : Nic, vlan : BOOLEAN,
            vlanLine : {"found", "missed", "breaks"}, nicLine : BOOLEAN]

\* An interface is a NIC (VLAN 0) or a subinterface of it.
Interface == Nic \X (Vlans \cup {0})
Links == Nic \X Vlans
Addrs == Device \X Interface

Managers == [links : SUBSET Links, addrs : SUBSET Addrs]
NewManager == [links |-> {}, addrs |-> {}]

\* _unique_vlans, when the config is in VLAN mode.
VlansToMake(cfg) == IF cfg.vlan THEN Vlans ELSE {}

\* _target_interface
Target(cfg, d) == <<cfg.nic, IF cfg.vlan THEN VlanOf[d] ELSE 0>>

\* Deleting a subinterface deletes the addresses on it.
WithoutLinks(addrs, gone) == {a \in addrs : a[2] \notin gone}
=============================================================================
