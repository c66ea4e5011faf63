------------------------- MODULE MCEngineLifecycle -------------------------
(***************************************************************************)
(* Instances of EngineLifecycle for TLC: two devices, the first in a VLAN, *)
(* so that both kinds of interface are made and something is left to do    *)
(* after the first device when a step fails.                               *)
(***************************************************************************)
EXTENDS EngineLifecycle

CONSTANTS d1, d2, n1, n2, w1, w2, l1

TwoDevices == <<d1, d2>>
FirstInVlan == [d \in {d1, d2} |-> IF d = d1 THEN 1 ELSE 0]
NoVlan == [d \in {d1, d2} |-> 0]

Network(n, v, line) == [nic |-> n, vlan |-> v, vlanLine |-> line, nicLine |-> TRUE]
OnNic(n) == Network(n, TRUE, "found")
Flat(n) == Network(n, FALSE, "found")
Uploads == {Signals(d1, l1), Signals(d2, l1)}

\* A client that does everything but change the interface.
Session == [t \in {w1} |->
  Uploads \cup {Config(Network(n1, TRUE, line)) : line \in {"found", "missed", "breaks"}}
          \cup {VlanMode(FALSE), VlanMode(TRUE), Start, Reset, Stop}]

\* One that changes it, on a machine with two.
Moves == [t \in {w1} |->
  Uploads \cup {Config(OnNic(n1)), Start, Reset, ChangeNic(n2)}]

\* One that disables VLANs after a failed start.
Flattens == [t \in {w1} |->
  Uploads \cup {Config(OnNic(n1)), VlanMode(FALSE), Start, Reset}]

\* One whose config has its network in braces.
Rewrites == [t \in {w1} |-> Uploads \cup {Config(Network(n1, TRUE, "missed")), VlanMode(FALSE)}]

\* The shortest session that runs.
Runs == [t \in {w1} |-> Uploads \cup {Config(OnNic(n1)), Start}]

\* Two clients at the wizard.
BothStart == [t \in {w1, w2} |->
  IF t = w1 THEN Uploads \cup {Config(Flat(n1)), Start} ELSE {Start}]
BothUpload == [t \in {w1, w2} |->
  IF t = w1 THEN {Config(Flat(n1))} ELSE {Config(OnNic(n1))}]
UploadAndReset == [t \in {w1, w2} |->
  IF t = w1 THEN {Config(Flat(n1))} ELSE Uploads \cup {Config(Flat(n1)), Start, Reset}]
=============================================================================
