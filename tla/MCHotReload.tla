---------------------------- MODULE MCHotReload ----------------------------
(***************************************************************************)
(* Instances of HotReload for TLC: a device of two signals, three          *)
(* addresses, of which two suffice for a valid list and the third lets a   *)
(* signal move, and one that the server cannot be built with.              *)
(***************************************************************************)
EXTENDS HotReload

CONSTANTS d1, s1, s2, e1, e2

OneDevice == <<d1>>
TwoNames == <<s1, s2>>
Addresses == 1 .. 4
Far == {4}

List(a, ma, ra, b, mb, rb) ==
  [n \in {s1, s2} |-> IF n = s1 THEN [addr |-> a, mode |-> ma, range |-> ra]
                                ELSE [addr |-> b, mode |-> mb, range |-> rb]]
Moving == List(1, "", TRUE, 2, "static", TRUE)
Still == List(1, "triangle", FALSE, 3, "", FALSE)
OneFile == {Moving}

Off == [enabled |-> FALSE, mode |-> "oscillate"]
On == [enabled |-> TRUE, mode |-> "oscillate"]
StartOff == {Off}
StartOn == {On}

Mode(m) == [f \in {"mode"} |-> m]
Range(r) == [f \in {"range"} |-> r]
Both(m, r) == [mode |-> m, range |-> r]
Switch(b) == [f \in {"enabled"} |-> b]

\* Two clients of one device, every kind of request: the first edits signals in place,
\* the second replaces the list, edits several and changes the settings.  What an update
\* asks for is valid or not by what the list is then, or is refused by pymodbus.
Together == [e \in {e1, e2} |->
  IF e = e1 THEN {SignalSim(d1, s1, Range("bad")), SignalSim(d1, s2, Mode(""))}
            ELSE {Reload(d1, Still), Update(d1, s1, 3), Update(d1, s2, 4), DeviceSim(d1, ""),
                  BulkSim({s2}, Mode("")), SetSimulation(Switch(TRUE))}]

\* For each disagreement, the requests it takes.
TwoReloads == [e \in {e1, e2} |-> {Reload(d1, Still), Reload(d1, Moving)}]
TwoUpdates == [e \in {e1, e2} |-> {Update(d1, s1, 3), Update(d1, s2, 3)}]
ReloadAndSwitch == [e \in {e1, e2} |->
  IF e = e1 THEN {Reload(d1, Moving)} ELSE {SetSimulation(Switch(TRUE))}]
TwoSignalSims == [e \in {e1, e2} |->
  {SignalSim(d1, s1, Mode("triangle")), SignalSim(d1, s2, Mode("triangle"))}]
ReloadAndSignalSim == [e \in {e1, e2} |->
  IF e = e1 THEN {Reload(d1, Still)} ELSE {SignalSim(d1, s1, Mode("static"))}]
BadRange == [e \in {e1} |-> {SignalSim(d1, s1, Both("static", "bad"))}]
JustSwitch == [e \in {e1} |-> {SetSimulation(Switch(TRUE))}]
=============================================================================
