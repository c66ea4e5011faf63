-------------------------- MODULE LatecomerProofs --------------------------
(***************************************************************************)
(* Proofs about the three components in which somebody may act on what has *)
(* been replaced meanwhile: an answer that arrives when the page has       *)
(* selected another device (WebPage), a thread that reports the end of an  *)
(* engine when the supervisor has spawned another (EngineProcess), an      *)
(* upload or edit that goes on when a reset has cleared its project        *)
(* (ProjectReset).  Each notes in a history variable that this has         *)
(* happened; here it is proved, for any number of actors, that nothing     *)
(* else breaks the component, and TLC shows that this does.                *)
(***************************************************************************)
EXTENDS WebPage, EngineProcess, ProjectReset, TLAPS

(***************************************************************************)
(* The page: WebPage, for any devices and any number of requests on the    *)
(* wire.  That the table is that of the selected device is not inductive:  *)
(* as long as no answer with signals has overtaken another, the youngest   *)
(* request for signals is for the selected device, so that its answer,     *)
(* which comes last, puts the table right.                                 *)
(***************************************************************************)
\* WireOK, of any wire.
GoodWire(w) ==
  /\ w \in [Route -> Seq(Request)]
  /\ \A i \in DOMAIN w["signals"] : w["signals"][i].of \in Device
  /\ \A i \in DOMAIN w["values"] : w["values"][i].of \in Device \cup {All}

\* The table will be that of device d, rows being what it is now.
Due(w, table, d) ==
  IF w["signals"] = <<>> THEN table \in {d, None}
  ELSE w["signals"][Len(w["signals"])].of = d
YoungestSelected == ~overtaken /\ selected \in Device => Due(wire, rows, selected)
IInv == TypeOK /\ YoungestSelected

-----------------------------------------------------------------------------
LEMMA Routes ==
  "config" \in Route /\ "devices" \in Route /\ "signals" \in Route /\ "values" \in Route
BY DEF Route

\* Sending a request.
LEMMA SendOK ==
  ASSUME NEW w, GoodWire(w), NEW route \in Route, NEW target \in Device \cup {All, None},
         NEW entering \in BOOLEAN,
         route = "signals" => target \in Device,
         route = "values" => target \in Device \cup {All}
  PROVE  /\ GoodWire(With(w, route, target, entering))
         /\ route # "signals" => With(w, route, target, entering)["signals"] = w["signals"]
         /\ route = "signals" =>
              LET s == With(w, route, target, entering)["signals"]
              IN s # <<>> /\ s[Len(s)].of = target
<1> DEFINE r == [of |-> target, entering |-> entering]
           v == With(w, route, target, entering)
<1>1. r \in Request
  BY DEF Request
<1>2. v = [w EXCEPT ![route] = Append(w[route], r)]
  BY DEF With
<1>3. r.of = target
  OBVIOUS
<1> HIDE DEF r, v
<1>4. /\ w \in [Route -> Seq(Request)] /\ w[route] \in Seq(Request)
      /\ w["signals"] \in Seq(Request) /\ w["values"] \in Seq(Request)
  BY Routes DEF GoodWire
<1>5. /\ Append(w[route], r) \in Seq(Request)
      /\ Len(Append(w[route], r)) = Len(w[route]) + 1 /\ Len(w[route]) \in Nat
      /\ Append(w[route], r)[Len(w[route]) + 1] = r
      /\ \A i \in DOMAIN w[route] : Append(w[route], r)[i] = w[route][i]
      /\ \A i \in DOMAIN Append(w[route], r) : i \in DOMAIN w[route] \/ i = Len(w[route]) + 1
  BY <1>1, <1>4
<1>6. v \in [Route -> Seq(Request)]
  BY <1>2, <1>4, <1>5
<1>7. \A x \in Route : v[x] = IF x = route THEN Append(w[route], r) ELSE w[x]
  BY <1>2, <1>4
<1>8. \A i \in DOMAIN v["signals"] : v["signals"][i].of \in Device
  BY <1>3, <1>5, <1>7, Routes DEF GoodWire
<1>9. \A i \in DOMAIN v["values"] : v["values"][i].of \in Device \cup {All}
  BY <1>3, <1>5, <1>7, Routes DEF GoodWire
<1>10. GoodWire(v) /\ (route # "signals" => v["signals"] = w["signals"])
  BY <1>6, <1>7, <1>8, <1>9, Routes DEF GoodWire
<1>11. ASSUME route = "signals"
       PROVE  v["signals"] # <<>> /\ v["signals"][Len(v["signals"])].of = target
  <2> DEFINE s == v["signals"]
  <2>1. s = Append(w[route], r)
    BY <1>7, <1>11, Routes
  <2> HIDE DEF s
  <2>2. Len(s) \in Nat /\ Len(s) # 0 /\ s[Len(s)] = r
    BY <1>5, <2>1
  <2>3. s # <<>>
    BY <2>2
  <2> QED BY <1>3, <2>2, <2>3 DEF s
<1> QED BY <1>10, <1>11 DEF v

LEMMA SendSignals ==
  ASSUME NEW w, GoodWire(w), NEW d \in Device,
         NEW v, \E entering \in BOOLEAN : v = With(w, "signals", d, entering)
  PROVE  GoodWire(v) /\ v["signals"] # <<>> /\ v["signals"][Len(v["signals"])].of = d
<1>1. d \in Device \cup {All, None} /\ "signals" # "values"
  OBVIOUS
<1>2. PICK entering \in BOOLEAN : v = With(w, "signals", d, entering)
  OBVIOUS
<1> QED BY <1>1, <1>2, SendOK, Routes

LEMMA SendOther ==
  ASSUME NEW w, GoodWire(w), NEW route \in Route \ {"signals"},
         NEW target \in Device \cup {All, None}, NEW entering \in BOOLEAN,
         route = "values" => target \in Device \cup {All},
         NEW v, v = With(w, route, target, entering)
  PROVE  GoodWire(v) /\ v["signals"] = w["signals"]
<1>1. route \in Route /\ route # "signals"
  OBVIOUS
<1> QED BY <1>1, SendOK

LEMMA SendConfig ==
  ASSUME NEW w, GoodWire(w), NEW route \in {"config", "devices"},
         NEW v, v = With(w, route, None, TRUE)
  PROVE  GoodWire(v) /\ v["signals"] = w["signals"]
<1>1. route \in Route \ {"signals"} /\ route # "values"
  BY DEF Route
<1>2. TRUE \in BOOLEAN /\ None \in Device \cup {All, None}
  OBVIOUS
<1> QED BY <1>1, <1>2, SendOther

\* Taking a request off the wire.
LEMMA RemovedElements ==
  ASSUME NEW S, NEW s \in Seq(S), NEW i \in DOMAIN s
  PROVE  /\ RemoveAt(s, i) \in Seq(S) /\ Len(RemoveAt(s, i)) = Len(s) - 1
         /\ \A k \in 1 .. Len(s) - 1 : RemoveAt(s, i)[k] = IF k < i THEN s[k] ELSE s[k + 1]
<1>1. i \in 1 .. Len(s) /\ Len(s) \in Nat
  OBVIOUS
<1> DEFINE front == SubSeq(s, 1, i - 1)
           back == SubSeq(s, i + 1, Len(s))
<1>2. /\ front \in Seq(S) /\ Len(front) = i - 1
      /\ \A k \in 1 .. i - 1 : front[k] = s[k]
  BY <1>1
<1>3. /\ back \in Seq(S) /\ Len(back) = Len(s) - i
      /\ \A k \in 1 .. Len(s) - i : back[k] = s[i + k]
  BY <1>1
<1>4. RemoveAt(s, i) = front \o back
  BY DEF RemoveAt
<1> HIDE DEF front, back
<1> QED BY <1>1, <1>2, <1>3, <1>4

LEMMA ReceiveOK ==
  ASSUME NEW w, GoodWire(w), NEW route \in Route, NEW i \in DOMAIN w[route], NEW v,
         v = [w EXCEPT ![route] = RemoveAt(@, i)]
  PROVE  /\ GoodWire(v) /\ w[route][i] \in Request
         /\ route # "signals" => v["signals"] = w["signals"]
         /\ route = "signals" /\ i = 1 =>
              IF v["signals"] = <<>> THEN i = Len(w["signals"])
              ELSE v["signals"][Len(v["signals"])] = w["signals"][Len(w["signals"])]
<1>1. w \in [Route -> Seq(Request)] /\ w[route] \in Seq(Request)
  BY DEF GoodWire
<1>2. v[route] = RemoveAt(w[route], i) /\ \A x \in Route \ {route} : v[x] = w[x]
  BY <1>1
<1>3. /\ v[route] \in Seq(Request) /\ Len(v[route]) = Len(w[route]) - 1 /\ Len(w[route]) \in Nat
      /\ \A k \in 1 .. Len(w[route]) - 1 :
           v[route][k] = IF k < i THEN w[route][k] ELSE w[route][k + 1]
  BY <1>1, <1>2, RemovedElements
<1>4. v \in [Route -> Seq(Request)]
  BY <1>1, <1>2, <1>3
<1>5. \A k \in DOMAIN v[route] : \E l \in DOMAIN w[route] : v[route][k] = w[route][l]
  BY <1>1, <1>3
<1>6. /\ \A k \in DOMAIN v["signals"] : v["signals"][k].of \in Device
      /\ \A k \in DOMAIN v["values"] : v["values"][k].of \in Device \cup {All}
  BY <1>2, <1>5, Routes DEF GoodWire
<1>7. w[route][i] \in Request
  BY <1>1
<1>8. ASSUME route = "signals", i = 1
      PROVE  IF v["signals"] = <<>> THEN i = Len(w["signals"])
             ELSE v["signals"][Len(v["signals"])] = w["signals"][Len(w["signals"])]
  <2> DEFINE s == v[route]
             o == w[route]
  <2>1. /\ s \in Seq(Request) /\ Len(s) = Len(o) - 1 /\ Len(o) \in Nat
        /\ \A k \in 1 .. Len(o) - 1 : s[k] = o[k + 1]
    BY <1>3, <1>8
  <2> HIDE DEF s, o
  <2>2. s = <<>> => Len(o) = 1
    BY <2>1
  <2>3. s # <<>> => Len(s) \in 1 .. Len(o) - 1 /\ Len(s) + 1 = Len(o)
    BY <2>1
  <2>4. s # <<>> => s[Len(s)] = o[Len(o)]
    BY <2>1, <2>3
  <2> QED BY <1>8, <2>2, <2>4 DEF s, o
<1> QED BY <1>2, <1>4, <1>6, <1>7, <1>8, Routes DEF GoodWire

-----------------------------------------------------------------------------
(***************************************************************************)
(* Every step keeps the invariant.                                         *)
(***************************************************************************)
LEMMA PageInit == Init => IInv
<1> SUFFICES ASSUME Init PROVE IInv
  OBVIOUS
<1>1. <<>> \in Seq(Request)
  OBVIOUS
<1>2. wire \in [Route -> Seq(Request)]
  BY <1>1 DEF Init
<1>3. wire["signals"] = <<>> /\ wire["values"] = <<>>
  BY Routes DEF Init
<1>4. WireOK
  BY <1>2, <1>3 DEF WireOK
<1> QED BY <1>4, PageAssumption DEF Init, IInv, TypeOK, YoungestSelected

\* What leaves the requests for signals and the table alone, and selects no device.
LEMMA YoungestKept ==
  ASSUME YoungestSelected, wire'["signals"] = wire["signals"], rows' = rows,
         selected' \in {selected, All, None}, overtaken => overtaken'
  PROVE  YoungestSelected'
BY PageAssumption DEF YoungestSelected, Due

LEMMA TickStep ==
  ASSUME IInv, NEW now \in States, Tick(now) PROVE IInv'
<1>1. CASE UNCHANGED vars
  BY <1>1 DEF IInv, TypeOK, WireOK, YoungestSelected, Due, vars
<1>2. CASE /\ now # view /\ view' = NewView(now)
           /\ IF view = "RUNNING" THEN Leave
              ELSE UNCHANGED <<selected, rows, values, timer>>
           /\ IF now = "RUNNING"
              THEN RoomToEnter /\ wire' = With(wire, "config", None, TRUE)
                                   ELSE UNCHANGED wire
           /\ UNCHANGED <<calm, listed, overtaken>>
  <2>1. GoodWire(wire) /\ TypeOK /\ YoungestSelected
    BY DEF IInv, TypeOK, WireOK, GoodWire
  <2>2. GoodWire(wire') /\ wire'["signals"] = wire["signals"]
    <3>1. CASE now = "RUNNING"
      <4>1. wire' = With(wire, "config", None, TRUE)
        BY <1>2, <3>1
      <4> QED BY <2>1, <4>1, SendConfig
    <3>2. CASE now # "RUNNING"
      BY <1>2, <2>1, <3>2
    <3> QED BY <3>1, <3>2
  <2>3. WireOK'
    BY <2>2 DEF WireOK, GoodWire
  <2>4. selected' \in Device \cup {All, None} /\ rows' \in Device \cup {None}
        /\ values' \in Device \cup {None}
    BY <1>2, <2>1 DEF Leave, TypeOK
  <2>5. timer' \in BOOLEAN
    BY <1>2, <2>1 DEF Leave, TypeOK
  <2>6. TypeOK'
    BY <1>2, <2>1, <2>3, <2>4, <2>5 DEF TypeOK, NewView
  <2>7. YoungestSelected'
    <3>1. CASE view = "RUNNING"
      BY <1>2, <3>1, PageAssumption DEF Leave, YoungestSelected
    <3>2. CASE view # "RUNNING"
      BY <1>2, <2>1, <2>2, <3>2, YoungestKept
    <3> QED BY <3>1, <3>2
  <2> QED BY <2>6, <2>7 DEF IInv
<1> QED BY <1>1, <1>2 DEF Tick

\* _refreshValues changes no request for signals.
LEMMA RefreshOK ==
  ASSUME NEW w, GoodWire(w), TypeOK, NEW entering \in BOOLEAN, Refresh(entering, w)
  PROVE  GoodWire(wire') /\ wire'["signals"] = w["signals"] /\ timer' \in BOOLEAN
<1>1. CASE selected = None
  BY <1>1 DEF Refresh, EndOfChain, TypeOK
<1>2. CASE selected # None
  <2>1. /\ wire' = With(w, "values", selected, entering) /\ timer' = timer
        /\ selected \in Device \cup {All}
    BY <1>2 DEF Refresh, TypeOK
  <2>2. GoodWire(wire') /\ wire'["signals"] = w["signals"]
    BY <2>1, SendOther, Routes
  <2>3. timer' \in BOOLEAN
    BY <2>1 DEF TypeOK
  <2> QED BY <2>2, <2>3
<1> QED BY <1>1, <1>2

LEMMA PollStep ==
  ASSUME IInv, Poll PROVE IInv'
<1>1. GoodWire(wire) /\ TypeOK /\ YoungestSelected
  BY DEF IInv, TypeOK, WireOK, GoodWire
<1>2. GoodWire(wire') /\ wire'["signals"] = wire["signals"] /\ timer' \in BOOLEAN
  BY <1>1, RefreshOK DEF Poll
<1>3. WireOK'
  BY <1>2 DEF WireOK, GoodWire
<1>4. TypeOK'
  BY <1>1, <1>2, <1>3 DEF TypeOK, Poll
<1>5. YoungestSelected'
  BY <1>1, <1>2, YoungestKept DEF Poll
<1> QED BY <1>4, <1>5 DEF IInv

LEMMA AnswerStep ==
  ASSUME IInv, NEW route \in Route, NEW i \in DOMAIN wire[route], NEW ok \in BOOLEAN,
         Answer(route, i, ok)
  PROVE  IInv'
<1> DEFINE r == wire[route][i]
           w == [wire EXCEPT ![route] = RemoveAt(@, i)]
<1>1. GoodWire(wire) /\ TypeOK /\ YoungestSelected
  BY DEF IInv, TypeOK, WireOK, GoodWire
<1>2. /\ GoodWire(w) /\ r \in Request
      /\ route # "signals" => w["signals"] = wire["signals"]
      /\ route = "signals" /\ i = 1 =>
           IF w["signals"] = <<>> THEN i = Len(wire["signals"])
           ELSE w["signals"][Len(w["signals"])] = wire["signals"][Len(wire["signals"])]
  BY <1>1, ReceiveOK
<1>3. /\ overtaken' = (overtaken \/ (route = "signals" /\ i > 1))
      /\ \/ route = "config" /\ AnswerConfig(w)
         \/ route = "devices" /\ AnswerDevices(ok, w)
         \/ route = "signals" /\ AnswerSignals(r, ok, w)
         \/ route = "values" /\ AnswerValues(r, ok, w)
      /\ calm' = calm
  BY DEF Answer
<1>4. overtaken' \in BOOLEAN /\ (overtaken => overtaken') /\ r.entering \in BOOLEAN
      /\ (route = "signals" => r.of \in Device)
      /\ (route = "values" => r.of \in Device \cup {All})
  BY <1>1, <1>2, <1>3 DEF TypeOK, Request, GoodWire
<1> HIDE DEF r, w
<1>5. CASE route = "config" /\ AnswerConfig(w)
  <2>1. GoodWire(wire') /\ wire'["signals"] = wire["signals"]
    <3>1. wire' = With(w, "devices", None, TRUE) /\ w["signals"] = wire["signals"]
      BY <1>2, <1>5 DEF AnswerConfig
    <3> QED BY <1>2, <3>1, SendConfig
  <2>2. WireOK'
    BY <2>1 DEF WireOK, GoodWire
  <2>3. TypeOK'
    BY <1>1, <1>3, <1>4, <1>5, <2>2 DEF TypeOK, AnswerConfig
  <2>4. YoungestSelected'
    BY <1>1, <1>4, <1>5, <2>1, YoungestKept DEF AnswerConfig
  <2> QED BY <2>3, <2>4 DEF IInv
<1>6. CASE route = "devices" /\ AnswerDevices(ok, w)
  <2>1. CASE ok
    <3> DEFINE d == IF selected \in Device THEN selected ELSE First
    <3>1. d \in Device
      BY PageAssumption
    <3>2. selected' = d /\ wire' = With(w, "signals", d, TRUE) /\ timer' = timer
      BY <1>6, <2>1 DEF AnswerDevices, Select
    <3> HIDE DEF d
    <3>3. /\ GoodWire(wire') /\ wire'["signals"] # <<>>
          /\ wire'["signals"][Len(wire'["signals"])].of = selected'
      <4>1. \E entering \in BOOLEAN : wire' = With(w, "signals", d, entering)
        BY <3>2
      <4> QED BY <1>2, <3>1, <3>2, <4>1, SendSignals
    <3>4. WireOK'
      BY <3>3 DEF WireOK, GoodWire
    <3>5. TypeOK'
      BY <1>1, <1>3, <1>4, <1>6, <2>1, <3>1, <3>2, <3>4 DEF TypeOK, AnswerDevices
    <3>6. YoungestSelected'
      BY <3>3 DEF YoungestSelected, Due
    <3> QED BY <3>5, <3>6 DEF IInv
  <2>2. CASE ~ok
    <3>1. wire' = w /\ EndOfChain(TRUE) /\ selected' = selected /\ rows' = rows
      BY <1>6, <2>2 DEF AnswerDevices
    <3>2. GoodWire(wire') /\ wire'["signals"] = wire["signals"]
      BY <1>2, <1>6, <3>1
    <3>3. WireOK'
      BY <3>2 DEF WireOK, GoodWire
    <3>4. TypeOK'
      BY <1>1, <1>3, <1>4, <1>6, <3>1, <3>3 DEF TypeOK, AnswerDevices, EndOfChain
    <3>5. YoungestSelected'
      BY <1>1, <1>4, <3>1, <3>2, YoungestKept
    <3> QED BY <3>4, <3>5 DEF IInv
  <2> QED BY <2>1, <2>2
<1>7. CASE route = "signals" /\ AnswerSignals(r, ok, w)
  <2>1. /\ rows' \in {r.of, None} /\ Refresh(r.entering, w)
        /\ UNCHANGED <<view, listed, selected, values>>
    BY <1>7 DEF AnswerSignals, Rows
  <2>2. GoodWire(wire') /\ wire'["signals"] = w["signals"] /\ timer' \in BOOLEAN
    BY <1>1, <1>2, <1>4, <2>1, RefreshOK
  <2>3. WireOK'
    BY <2>2 DEF WireOK, GoodWire
  <2>4. TypeOK'
    BY <1>1, <1>3, <1>4, <1>7, <2>1, <2>2, <2>3 DEF TypeOK
  <2>5. YoungestSelected'
    <3> SUFFICES ASSUME ~overtaken', selected' \in Device
                 PROVE  Due(wire', rows', selected')
      BY DEF YoungestSelected
    <3>1. selected' = selected /\ Due(wire, rows, selected) /\ ~overtaken
      BY <1>1, <1>4, <2>1 DEF YoungestSelected
    <3>2. i = 1 /\ wire["signals"] # <<>>
      <4>1. wire["signals"] \in Seq(Request) /\ i \in DOMAIN wire["signals"] /\ ~(i > 1)
        BY <1>1, <1>3, <1>7, Routes DEF GoodWire
      <4> QED BY <4>1
    <3>3. wire["signals"][Len(wire["signals"])].of = selected
      BY <3>1, <3>2 DEF Due
    <3>4. CASE w["signals"] = <<>>
      <4>1. r = wire["signals"][Len(wire["signals"])]
        BY <1>2, <1>7, <3>2, <3>4 DEF r
      <4> QED BY <2>1, <2>2, <3>1, <3>3, <3>4, <4>1 DEF Due
    <3>5. CASE w["signals"] # <<>>
      BY <1>2, <1>7, <2>2, <3>1, <3>2, <3>3, <3>5 DEF Due
    <3> QED BY <3>4, <3>5
  <2> QED BY <2>4, <2>5 DEF IInv
<1>8. CASE route = "values" /\ AnswerValues(r, ok, w)
  <2>1. /\ wire' = w /\ EndOfChain(r.entering) /\ UNCHANGED <<view, listed, selected, rows>>
        /\ values' \in Device \cup {None}
    BY <1>1, <1>4, <1>8 DEF AnswerValues, TypeOK
  <2>2. GoodWire(wire') /\ wire'["signals"] = wire["signals"]
    BY <1>2, <1>8, <2>1
  <2>3. WireOK'
    BY <2>2 DEF WireOK, GoodWire
  <2>4. timer' \in BOOLEAN
    BY <1>1, <1>4, <2>1 DEF TypeOK, EndOfChain
  <2>5. TypeOK'
    BY <1>1, <1>3, <1>4, <2>1, <2>3, <2>4 DEF TypeOK
  <2>6. YoungestSelected'
    BY <1>1, <1>4, <2>1, <2>2, YoungestKept
  <2> QED BY <2>5, <2>6 DEF IInv
<1> QED BY <1>3, <1>5, <1>6, <1>7, <1>8

LEMMA UserStep ==
  ASSUME IInv, \/ \E d \in Device : SelectDevice(d)
               \/ SelectAllDevices \/ ChangeInterface
               \/ \E now \in States : CalmDown(now)
  PROVE  IInv'
<1>1. GoodWire(wire) /\ TypeOK /\ YoungestSelected
  BY DEF IInv, TypeOK, WireOK, GoodWire
<1>2. ASSUME NEW d \in Device, SelectDevice(d) PROVE IInv'
  <2>1. /\ GoodWire(wire') /\ wire'["signals"] # <<>> /\ selected' = d
        /\ wire'["signals"][Len(wire'["signals"])].of = d
    <3>1. selected' = d /\ wire' = With(wire, "signals", d, FALSE)
      BY <1>2 DEF SelectDevice, Select
    <3>2. \E entering \in BOOLEAN : wire' = With(wire, "signals", d, entering)
      BY <3>1
    <3> QED BY <1>1, <3>1, <3>2, SendSignals
  <2>2. WireOK'
    BY <2>1 DEF WireOK, GoodWire
  <2>3. TypeOK'
    BY <1>1, <1>2, <2>1, <2>2 DEF TypeOK, SelectDevice
  <2>4. YoungestSelected'
    BY <2>1 DEF YoungestSelected, Due
  <2> QED BY <2>3, <2>4 DEF IInv
<1>3. CASE SelectAllDevices
  <2>1. TypeOK'
    BY <1>1, <1>3 DEF TypeOK, WireOK, SelectAllDevices
  <2>2. YoungestSelected'
    BY <1>1, <1>3, YoungestKept DEF SelectAllDevices
  <2> QED BY <2>1, <2>2 DEF IInv
<1>4. CASE ChangeInterface
  <2>1. GoodWire(wire') /\ wire'["signals"] = wire["signals"]
    <3>1. wire' = With(wire, "config", None, TRUE)
      BY <1>4 DEF ChangeInterface
    <3> QED BY <1>1, <3>1, SendConfig
  <2>2. WireOK'
    BY <2>1 DEF WireOK, GoodWire
  <2>3. TypeOK'
    BY <1>1, <1>4, <2>2 DEF TypeOK, ChangeInterface
  <2>4. YoungestSelected'
    BY <1>1, <1>4, <2>1, YoungestKept DEF ChangeInterface
  <2> QED BY <2>3, <2>4 DEF IInv
<1>5. ASSUME NEW now \in States, CalmDown(now) PROVE IInv'
  <2>1. TypeOK'
    BY <1>1, <1>5 DEF TypeOK, WireOK, CalmDown
  <2>2. YoungestSelected'
    BY <1>1, <1>5, YoungestKept DEF CalmDown
  <2> QED BY <2>1, <2>2 DEF IInv
<1> QED BY <1>2, <1>3, <1>4, <1>5

\* From the first state on, through every step.
THEOREM PageInductive == Spec => []IInv
<1>1. IInv /\ [Next]_vars => IInv'
  <2> SUFFICES ASSUME IInv, [Next]_vars PROVE IInv'
    OBVIOUS
  <2>1. CASE \E now \in States : Tick(now)
    BY <2>1, TickStep
  <2>2. CASE Poll
    BY <2>2, PollStep
  <2>3. CASE \E route \in Route : \E i \in DOMAIN wire[route], ok \in BOOLEAN :
               Answer(route, i, ok)
    BY <2>3, AnswerStep
  <2>4. CASE \/ \E d \in Device : SelectDevice(d)
             \/ SelectAllDevices \/ ChangeInterface
             \/ \E now \in States : CalmDown(now)
    BY <2>4, UserStep
  <2>5. CASE UNCHANGED vars
    BY <2>5 DEF IInv, TypeOK, WireOK, YoungestSelected, Due, vars
  <2> QED BY <2>1, <2>2, <2>3, <2>4, <2>5 DEF Next
<1> QED BY <1>1, PageInit, PTL DEF Spec

-----------------------------------------------------------------------------
\* Whatever the answers and their order, the requests and what the page holds have
\* their types: a request for signals always names a device.
THEOREM TypeCorrect == Spec => []TypeOK
<1>1. IInv => TypeOK
  BY DEF IInv
<1> QED BY <1>1, PageInductive, PTL

\* Unless an answer overtook an older one, once none is missing the table is that of
\* the selected device or empty.
THEOREM TableOfSelected == Spec => []RowsOfSelected
<1>1. IInv => RowsOfSelected
  BY DEF IInv, YoungestSelected, Due, RowsOfSelected
<1> QED BY <1>1, PageInductive, PTL

-----------------------------------------------------------------------------
(***************************************************************************)
(* The supervisor of the engine: EngineProcess, for any number of engines, *)
(* clients and requests.                                                   *)
(***************************************************************************)
\* Every step keeps the types.
LEMMA SupervisorTypeStep ==
  SupervisorTypeOK /\ [SupervisorNext]_supervisorVars => SupervisorTypeOK'
<1> SUFFICES ASSUME SupervisorTypeOK, [SupervisorNext]_supervisorVars PROVE SupervisorTypeOK'
  OBVIOUS
<1> USE SupervisorAssumption DEF SupervisorAssumption, SupervisorTypeOK, SupervisorStates
<1>1. CASE UNCHANGED supervisorVars
  BY <1>1 DEF supervisorVars
<1>2. ASSUME NEW c \in Client, Start(c)
      PROVE  SupervisorTypeOK'
  BY <1>2 DEF Start, Spawn, supervisor
<1>3. ASSUME NEW c \in Client, Stop(c)
      PROVE  SupervisorTypeOK'
  BY <1>3 DEF Stop, Terminate, Running, supervisor
<1>4. ASSUME NEW c \in Client, Restart(c)
      PROVE  SupervisorTypeOK'
  BY <1>4 DEF Restart, Terminate, Running, supervisor
<1>5. ASSUME NEW c \in Client, Resume(c)
      PROVE  SupervisorTypeOK'
  BY <1>5 DEF Resume, Spawn, supervisor
<1>6. ASSUME NEW c \in Client, Status(c)
      PROVE  SupervisorTypeOK'
  BY <1>6 DEF Status, Outcome
<1>7. ASSUME NEW e \in Engine, ReaderBinds(e)
      PROVE  SupervisorTypeOK'
  BY <1>7 DEF ReaderBinds
<1>8. ASSUME NEW e \in Engine, ReaderReports(e)
      PROVE  SupervisorTypeOK'
  BY <1>8 DEF ReaderReports, Outcome
<1>9. ASSUME NEW e \in Engine, WaiterHears(e) \/ WaiterReports(e) \/ WaiterGivesUp(e)
      PROVE  SupervisorTypeOK'
  BY <1>9 DEF WaiterHears, WaiterReports, WaiterGivesUp
<1>10. ASSUME NEW e \in Engine, EngineServes(e) \/ EngineExits(e)
       PROVE  SupervisorTypeOK'
  BY <1>10 DEF EngineServes, EngineExits, Ends
<1> QED BY <1>1, <1>2, <1>3, <1>4, <1>5, <1>6, <1>7, <1>8, <1>9, <1>10 DEF SupervisorNext

\* The supervisor's variables keep their types.
THEOREM SupervisorTypeCorrect == SupervisorSpec => []SupervisorTypeOK
<1>1. SupervisorInit => SupervisorTypeOK
  <2> SUFFICES ASSUME SupervisorInit PROVE SupervisorTypeOK
    OBVIOUS
  <2>1. late \in BOOLEAN
    BY DEF SupervisorInit
  <2> QED BY <2>1 DEF SupervisorInit, SupervisorTypeOK, SupervisorStates
<1> QED BY <1>1, SupervisorTypeStep, PTL DEF SupervisorSpec

\* After an accepted stop only a start changes the state: readers, waiters and
\* status requests look at the state before they set it.
LEMMA SupervisorStopStep ==
  StopIsFinal /\ [SupervisorNext]_supervisorVars => StopIsFinal'
<1> SUFFICES ASSUME StopIsFinal, [SupervisorNext]_supervisorVars PROVE StopIsFinal'
  OBVIOUS
<1> USE DEF StopIsFinal
<1>1. CASE UNCHANGED supervisorVars
  BY <1>1 DEF supervisorVars
<1>2. ASSUME NEW c \in Client, Start(c) \/ Resume(c)
      PROVE  StopIsFinal'
  BY <1>2 DEF Start, Resume, Spawn, supervisor
<1>3. ASSUME NEW c \in Client, Stop(c) \/ Restart(c)
      PROVE  StopIsFinal'
  BY <1>3 DEF Stop, Restart, Terminate, supervisor
<1>4. ASSUME NEW c \in Client, Status(c)
      PROVE  StopIsFinal'
  BY <1>4 DEF Status
<1>5. ASSUME NEW e \in Engine, ReaderBinds(e) \/ ReaderReports(e)
      PROVE  StopIsFinal'
  BY <1>5 DEF ReaderBinds, ReaderReports
<1>6. ASSUME NEW e \in Engine, WaiterHears(e) \/ WaiterReports(e) \/ WaiterGivesUp(e)
      PROVE  StopIsFinal'
  BY <1>6 DEF WaiterHears, WaiterReports, WaiterGivesUp
<1>7. ASSUME NEW e \in Engine, EngineServes(e) \/ EngineExits(e)
      PROVE  StopIsFinal'
  BY <1>7 DEF EngineServes, EngineExits, Ends
<1> QED BY <1>1, <1>2, <1>3, <1>4, <1>5, <1>6, <1>7 DEF SupervisorNext

\* An exit that was asked for is never recorded as a crash (EngineProcess.stop
\* against _read_output, _wait_for_health and the state property).
THEOREM StopsAreFinal == SupervisorSpec => []StopIsFinal
<1>1. SupervisorInit => StopIsFinal
  BY DEF SupervisorInit, StopIsFinal
<1> QED BY <1>1, SupervisorStopStep, PTL DEF SupervisorSpec

\* An engine is spawned only when the one known is gone, and forgotten only when
\* it is gone, or by a late reader.
LEMMA OrphanStep ==
  SupervisorTypeOK /\ OrphanOnlyByLateReader /\ [SupervisorNext]_supervisorVars
           => OrphanOnlyByLateReader'
<1> SUFFICES ASSUME SupervisorTypeOK, OrphanOnlyByLateReader,
                    [SupervisorNext]_supervisorVars,
                    ~late', ~late => NoOrphan
             PROVE  NoOrphan'
  BY DEF OrphanOnlyByLateReader
<1> USE DEF NoOrphan, Alive
<1>1. CASE UNCHANGED supervisorVars
  BY <1>1 DEF supervisorVars
<1>2. ASSUME Spawn
      PROVE  NoOrphan'
  <2>1. PICK e \in Engine : /\ ~Running
                            /\ proc' = e
                            /\ engine' = [engine EXCEPT ![e] = "booting"]
                            /\ late' = late
    BY <1>2 DEF Spawn
  <2>2. \A f \in Engine : ~Alive(f)
    BY <2>1, SupervisorAssumption DEF SupervisorAssumption, Engine, Running, Exited
  <2> QED BY <2>1, <2>2 DEF SupervisorTypeOK
<1>3. ASSUME Terminate \/ UNCHANGED supervisor
      PROVE  NoOrphan'
  BY <1>3 DEF Terminate, Running, supervisor, SupervisorTypeOK
<1>4. ASSUME NEW c \in Client, Start(c) \/ Resume(c) \/ Stop(c) \/ Restart(c)
      PROVE  NoOrphan'
  BY <1>2, <1>3, <1>4 DEF Start, Resume, Stop, Restart
<1>5. ASSUME NEW c \in Client, Status(c)
      PROVE  NoOrphan'
  BY <1>5 DEF Status, Exited
<1>6. ASSUME NEW e \in Engine, ReaderBinds(e)
      PROVE  NoOrphan'
  BY <1>6 DEF ReaderBinds
<1>7. ASSUME NEW e \in Engine, ReaderReports(e)
      PROVE  NoOrphan'
  <2>1. ~late /\ engine' = engine
    BY <1>7 DEF ReaderReports
  <2>2. proc' = proc \/ proc = NoEngine \/ proc = reads[e]
    BY <1>7 DEF ReaderReports
  <2>3. reads[e] = proc => \A f \in Engine : ~Alive(f)
    BY <1>7, <2>1 DEF ReaderReports, Exited
  <2>4. proc = NoEngine => \A f \in Engine : ~Alive(f)
    BY <2>1, SupervisorAssumption DEF SupervisorAssumption, Engine
  <2> QED BY <2>1, <2>2, <2>3, <2>4
<1>8. ASSUME NEW e \in Engine, WaiterHears(e) \/ WaiterReports(e) \/ WaiterGivesUp(e)
      PROVE  NoOrphan'
  BY <1>8 DEF WaiterHears, WaiterReports, WaiterGivesUp
<1>9. ASSUME NEW e \in Engine, EngineServes(e) \/ EngineExits(e)
      PROVE  NoOrphan'
  BY <1>9 DEF EngineServes, EngineExits, Ends, SupervisorTypeOK
<1> QED BY <1>1, <1>4, <1>5, <1>6, <1>7, <1>8, <1>9 DEF SupervisorNext

\* However many engines are spawned and by however many clients: unless a reader
\* came late, no engine is alive that the supervisor does not know of.
THEOREM EnginesKnown == SupervisorSpec => []OrphanOnlyByLateReader
<1>1. SupervisorInit => OrphanOnlyByLateReader
  BY DEF SupervisorInit, OrphanOnlyByLateReader, NoOrphan, Alive
<1> QED BY <1>1, SupervisorTypeCorrect, OrphanStep, PTL DEF SupervisorSpec

-----------------------------------------------------------------------------
(***************************************************************************)
(* Uploads and edits against resets: ProjectReset, for any number of       *)
(* editors and projects and any projects with a signal file elsewhere.     *)
(* That nothing is left over is not inductive: a request under way must    *)
(* work on the present project, a reset must be alone, and it must have    *)
(* removed the files before the next project begins.                       *)
(***************************************************************************)
PresentMemory == {config, signals, regmap, server, defaults} \subseteq {NoProject, project}
PresentDisk == {csv, simFile} \subseteq {NoProject, project}
OwnProject == \A e \in Editor : edit[e] # "idle" => of[e] = project /\ resetting = "no"
Removed == /\ resetting \in {"rmtree", "rmdir", "clear"} => simFile = NoProject
           /\ resetting \in {"rmdir", "clear"} => csv = NoProject
PresentOnly == PresentMemory /\ PresentDisk /\ OwnProject /\ Removed
ResetInv == ResetTypeOK /\ (~overlapped => PresentOnly)

-----------------------------------------------------------------------------
LEMMA ResetTypeInit == ResetInit => ResetTypeOK
<1> SUFFICES ASSUME ResetInit PROVE ResetTypeOK
  OBVIOUS
<1>1. dir \in BOOLEAN /\ overlapped \in BOOLEAN
  BY DEF ResetInit
<1>2. /\ NoProject \in Of /\ 1 \in 1 .. MaxProjects
      /\ csv = NoProject /\ resetting = "no" /\ phase = "SETUP"
  BY ResetAssumption DEF ResetAssumption, ResetInit, Of
<1>3. /\ edit \in [Editor -> EditSteps \cup {"idle"}]
      /\ of \in [Editor -> Of]
      /\ \A e \in Editor : edit[e] = "idle" <=> of[e] = NoProject
  BY <1>2 DEF ResetInit
<1> QED
  BY <1>1, <1>2, <1>3 DEF ResetInit, ResetTypeOK

\* Every step keeps the types.
LEMMA ResetTypeStep ==
  ASSUME ResetTypeOK, [ResetNext]_resetVars PROVE ResetTypeOK'
<1> USE ResetAssumption DEF ResetAssumption
<1>1. CASE StartProject
  BY <1>1 DEF StartProject, ResetTypeOK, Of, EditSteps, memory, disk, Note
<1>2. CASE BeginReset
  BY <1>2 DEF BeginReset, ResetTypeOK, Of, EditSteps, memory, disk, Note
<1>3. CASE UnlinkFiles
  BY <1>3 DEF UnlinkFiles, ResetTypeOK, Of, EditSteps, memory, disk, Note
<1>4. CASE RemoveFiles
  BY <1>4 DEF RemoveFiles, ResetTypeOK, Of, EditSteps, memory, disk, Note
<1>5. CASE RemoveDevices
  BY <1>5 DEF RemoveDevices, ResetTypeOK, Of, EditSteps, memory, disk, Note
<1>6. CASE Clear
  BY <1>6 DEF Clear, ResetTypeOK, Of, EditSteps, memory, disk, Note
<1>7. ASSUME NEW e \in Editor, Upload(e) PROVE ResetTypeOK'
  BY <1>7 DEF Upload, At, Enter, ResetTypeOK, Of, EditSteps, memory, disk, Note
<1>8. ASSUME NEW e \in Editor, LockConfig(e) PROVE ResetTypeOK'
  BY <1>8 DEF LockConfig, At, Done, ResetTypeOK, Of, EditSteps, memory, disk, Note
<1>9. ASSUME NEW e \in Editor, MakeDir(e) PROVE ResetTypeOK'
  BY <1>9 DEF MakeDir, At, Go, ResetTypeOK, Of, EditSteps, memory, disk, Note
<1>10. ASSUME NEW e \in Editor, StoreSignals(e) PROVE ResetTypeOK'
  BY <1>10 DEF StoreSignals, At, Done, ResetTypeOK, Of, EditSteps, memory, disk, Note
<1>11. ASSUME NEW e \in Editor, Begin(e) PROVE ResetTypeOK'
  BY <1>11 DEF Begin, At, Enter, ResetTypeOK, Of, EditSteps, memory, disk, Note
<1>12. ASSUME NEW e \in Editor, Reload(e) PROVE ResetTypeOK'
  BY <1>12 DEF Reload, At, Go, Done, ResetTypeOK, Of, EditSteps, memory, disk, Note
<1>13. ASSUME NEW e \in Editor, WriteCsv(e) PROVE ResetTypeOK'
  BY <1>13 DEF WriteCsv, At, Go, Done, CanWrite, ResetTypeOK, Of, EditSteps, memory, disk, Note
<1>14. ASSUME NEW e \in Editor, SwapServer(e) PROVE ResetTypeOK'
  BY <1>14 DEF SwapServer, At, Go, Done, ResetTypeOK, Of, EditSteps, memory, disk, Note
<1>15. ASSUME NEW e \in Editor, SetRegmap(e) PROVE ResetTypeOK'
  BY <1>15 DEF SetRegmap, At, Go, ResetTypeOK, Of, EditSteps, memory, disk, Note
<1>16. ASSUME NEW e \in Editor, SetSignals(e) PROVE ResetTypeOK'
  BY <1>16 DEF SetSignals, At, Done, ResetTypeOK, Of, EditSteps, memory, disk, Note
<1>17. ASSUME NEW e \in Editor, Assign(e) PROVE ResetTypeOK'
  BY <1>17 DEF Assign, At, Go, ResetTypeOK, Of, EditSteps, memory, disk, Note
<1>18. ASSUME NEW e \in Editor, Save(e) PROVE ResetTypeOK'
  BY <1>18 DEF Save, At, Done, ResetTypeOK, Of, EditSteps, memory, disk, Note
<1>19. CASE UNCHANGED resetVars
  BY <1>19 DEF resetVars, ResetTypeOK, Of, EditSteps
<1> QED
  BY <1>1, <1>2, <1>3, <1>4, <1>5, <1>6, <1>7, <1>8, <1>9, <1>10,
     <1>11, <1>12, <1>13, <1>14, <1>15, <1>16, <1>17, <1>18, <1>19 DEF ResetNext

\* What an overlap is is remembered for good, so a step after which there has been
\* none was made before there was one, and with nobody editing if it is of a reset.
LEMMA NoOverlapYet ==
  ASSUME [ResetNext]_resetVars, ~overlapped' PROVE ~overlapped
BY DEF ResetNext, resetVars, Upload, LockConfig, MakeDir, StoreSignals, StartProject,
   BeginReset, UnlinkFiles, RemoveFiles, RemoveDevices, Clear, Begin, Reload, WriteCsv,
   SwapServer, SetRegmap, SetSignals, Assign, Save, Note

\* As long as no upload or edit has met a reset, everything is of the present project.
LEMMA LeftOverStep ==
  ASSUME ResetInv, [ResetNext]_resetVars, ~overlapped'
  PROVE  PresentOnly'
<1> USE ResetAssumption DEF ResetAssumption
<1>0. ResetTypeOK /\ PresentOnly
  BY NoOverlapYet DEF ResetInv
<1> USE <1>0 DEF PresentOnly, PresentMemory, PresentDisk, OwnProject, Removed
<1>1. CASE StartProject
  BY <1>1 DEF StartProject, ResetTypeOK, EditSteps, memory, disk, Note
<1>2. CASE BeginReset
  BY <1>2 DEF BeginReset, ResetTypeOK, EditSteps, memory, disk, Note
<1>3. CASE UnlinkFiles
  BY <1>3 DEF UnlinkFiles, ResetTypeOK, EditSteps, memory, disk, Note
<1>4. CASE RemoveFiles
  BY <1>4 DEF RemoveFiles, ResetTypeOK, EditSteps, memory, disk, Note
<1>5. CASE RemoveDevices
  BY <1>5 DEF RemoveDevices, ResetTypeOK, EditSteps, memory, disk, Note
<1>6. CASE Clear
  BY <1>6 DEF Clear, ResetTypeOK, EditSteps, memory, disk, Note
<1>7. ASSUME NEW e \in Editor, Upload(e) PROVE PresentOnly'
  BY <1>7 DEF Upload, At, Enter, ResetTypeOK, EditSteps, memory, disk, Note
<1>8. ASSUME NEW e \in Editor, LockConfig(e) PROVE PresentOnly'
  BY <1>8 DEF LockConfig, At, Done, ResetTypeOK, EditSteps, memory, disk, Note
<1>9. ASSUME NEW e \in Editor, MakeDir(e) PROVE PresentOnly'
  BY <1>9 DEF MakeDir, At, Go, ResetTypeOK, EditSteps, memory, disk, Note
<1>10. ASSUME NEW e \in Editor, StoreSignals(e) PROVE PresentOnly'
  BY <1>10 DEF StoreSignals, At, Done, ResetTypeOK, EditSteps, memory, disk, Note
<1>11. ASSUME NEW e \in Editor, Begin(e) PROVE PresentOnly'
  BY <1>11 DEF Begin, At, Enter, ResetTypeOK, EditSteps, memory, disk, Note
<1>12. ASSUME NEW e \in Editor, Reload(e) PROVE PresentOnly'
  BY <1>12 DEF Reload, At, Go, Done, ResetTypeOK, EditSteps, memory, disk, Note
<1>13. ASSUME NEW e \in Editor, WriteCsv(e) PROVE PresentOnly'
  BY <1>13 DEF WriteCsv, At, Go, Done, CanWrite, ResetTypeOK, EditSteps, memory, disk, Note
<1>14. ASSUME NEW e \in Editor, SwapServer(e) PROVE PresentOnly'
  BY <1>14 DEF SwapServer, At, Go, Done, ResetTypeOK, EditSteps, memory, disk, Note
<1>15. ASSUME NEW e \in Editor, SetRegmap(e) PROVE PresentOnly'
  BY <1>15 DEF SetRegmap, At, Go, ResetTypeOK, EditSteps, memory, disk, Note
<1>16. ASSUME NEW e \in Editor, SetSignals(e) PROVE PresentOnly'
  BY <1>16 DEF SetSignals, At, Done, ResetTypeOK, EditSteps, memory, disk, Note
<1>17. ASSUME NEW e \in Editor, Assign(e) PROVE PresentOnly'
  BY <1>17 DEF Assign, At, Go, ResetTypeOK, EditSteps, memory, disk, Note
<1>18. ASSUME NEW e \in Editor, Save(e) PROVE PresentOnly'
  BY <1>18 DEF Save, At, Done, ResetTypeOK, EditSteps, memory, disk, Note
<1>19. CASE UNCHANGED resetVars
  BY <1>19 DEF resetVars, ResetTypeOK, EditSteps
<1> QED
  BY <1>1, <1>2, <1>3, <1>4, <1>5, <1>6, <1>7, <1>8, <1>9, <1>10,
     <1>11, <1>12, <1>13, <1>14, <1>15, <1>16, <1>17, <1>18, <1>19 DEF ResetNext

-----------------------------------------------------------------------------
LEMMA ResetInitInv == ResetInit => ResetInv
BY ResetTypeInit DEF ResetInit, ResetInv, PresentOnly, PresentMemory, PresentDisk,
   OwnProject, Removed

LEMMA ResetStep == ResetInv /\ [ResetNext]_resetVars => ResetInv'
BY ResetTypeStep, LeftOverStep DEF ResetInv

LEMMA ResetAlways == ResetSpec => []ResetInv
BY ResetInitInv, ResetStep, PTL DEF ResetSpec

\* Whatever requests and resets do, the engine's memory and the project directory keep
\* their types; a signal file of devices/ is never there without its directory.
THEOREM ResetTypeCorrect == ResetSpec => []ResetTypeOK
<1>1. ResetInv => ResetTypeOK
  BY DEF ResetInv
<1> QED BY <1>1, ResetAlways, PTL

\* For any number of threads: uploads and edits that begin and end between two resets
\* leave nothing of their project to the next, in memory or in the directory reset knows.
THEOREM NothingLeftOver == ResetSpec => []LeftOverByOverlap
<1>1. ResetInv => LeftOverByOverlap
  BY DEF ResetInv, PresentOnly, PresentMemory, PresentDisk, LeftOverByOverlap
<1> QED BY <1>1, ResetAlways, PTL
=============================================================================
