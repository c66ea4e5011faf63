------------------------------ MODULE WebPage ------------------------------
(***************************************************************************)
(* The runtime page in the browser: the state poll that chooses the view   *)
(* (app.js) and the selected device with its signals and values            *)
(* (runtime.js).  The page is one thread, but every await lets the user,   *)
(* the timers and other answers in: a request is on the wire until its     *)
(* answer runs the rest of the function that sent it, and answers may      *)
(* overtake each other.                                                    *)
(***************************************************************************)
EXTENDS Naturals, Sequences, FiniteSets, SequencesExt

CONSTANTS
  Device,    \* what GET /api/devices lists
  First,     \* the first of them
  All,       \* the pinned entry "All Devices", ALL_ID
  None,      \* null; also the empty list of signals and of values
  MaxTable,  \* bound: requests for the table on the wire when the user selects
  MaxPoll,   \* bound: requests for values on the wire when the timer fires
  MaxEnter   \* bound: calls of enter() under way at a time

ASSUME PageAssumption ==
  /\ First \in Device /\ None \notin Device /\ All \notin Device
  /\ MaxTable \in Nat /\ MaxPoll \in Nat /\ MaxEnter \in Nat

States == {"SETUP", "RUNNING", "STOPPING"}
Route == {"config", "devices", "signals", "values"}

\* A request: what it asks for, and whether enter() waits for its answer.
Request == [of : Device \cup {All, None}, entering : BOOLEAN]

VARIABLES
  calm,      \* None while the user acts and the engine moves; at last the state in
             \* which the engine stays, and answers, while the user rests
  wire,      \* the requests not answered, by route, oldest first
  view,      \* App.view, None before the first answer
  listed,    \* the device list has been filled, and keeps its entries
  selected,  \* _selected
  rows,      \* whose signals _signals are
  values,    \* whose values _values are
  timer,     \* _valueTimer runs
  overtaken  \* an answer with signals overtook an older one

vars == <<calm, wire, view, listed, selected, rows, values, timer, overtaken>>

\* What each request may be for: values are asked for only when something is
\* selected.
WireOK ==
  /\ wire \in [Route -> Seq(Request)]
  /\ \A i \in DOMAIN wire["signals"] : wire["signals"][i].of \in Device
  /\ \A i \in DOMAIN wire["values"] : wire["values"][i].of \in Device \cup {All}

\* The types.
TypeOK ==
  /\ calm \in States \cup {None} /\ view \in States \cup {None} /\ WireOK
  /\ listed \in BOOLEAN /\ timer \in BOOLEAN /\ overtaken \in BOOLEAN
  /\ selected \in Device \cup {All, None}
  /\ rows \in Device \cup {None} /\ values \in Device \cup {None}

Init ==
  /\ calm = None /\ wire = [route \in Route |-> <<>>]
  /\ view = None /\ listed = FALSE /\ selected = None /\ rows = None /\ values = None
  /\ timer = FALSE /\ overtaken = FALSE

-----------------------------------------------------------------------------
(***************************************************************************)
(* What the page does between two awaits, w being the wire it finds.       *)
(***************************************************************************)
With(w, route, of, entering) ==
  [w EXCEPT ![route] = Append(@, [of |-> of, entering |-> entering])]

\* selectDevice up to its request.
Select(d, entering, w) ==
  selected' = d /\ wire' = With(w, "signals", d, entering)

\* Faulty variant: enter() gives up where one of its requests fails.
EndOfChainEarly(entering) == UNCHANGED timer

\* The last thing enter() does; in every other chain of requests nothing follows.
EndOfChain(entering) == timer' = (timer \/ entering)

\* _refreshValues up to its request.
Refresh(entering, w) ==
  IF selected = None THEN wire' = w /\ EndOfChain(entering)
  ELSE wire' = With(w, "values", selected, entering) /\ UNCHANGED timer

Leave == timer' = FALSE /\ selected' = None /\ rows' = None /\ values' = None

-----------------------------------------------------------------------------
(***************************************************************************)
(* The two timers.                                                         *)
(***************************************************************************)
Entering(route) == {i \in DOMAIN wire[route] : wire[route][i].entering}
RoomToEnter ==
  Len(wire["config"]) + Len(wire["devices"]) + Cardinality(Entering("signals"))
    + Cardinality(Entering("values")) < MaxEnter

\* Faulty variant: the view of an engine that stops is kept.
NewViewKept(state) == IF state = "STOPPING" THEN view ELSE state
NewView(state) == state

\* tick, from its request to the end: a state that is late when it arrives is one of
\* an engine that moves later, and a failed request does nothing.
Tick(state) ==
  /\ calm \in {None, state}
  /\ \/ state = view /\ UNCHANGED vars
     \/ /\ state # view /\ view' = NewView(state)
        /\ IF view = "RUNNING" THEN Leave
           ELSE UNCHANGED <<selected, rows, values, timer>>
        /\ IF state = "RUNNING" THEN RoomToEnter /\ wire' = With(wire, "config", None, TRUE)
                                ELSE UNCHANGED wire
        /\ UNCHANGED <<calm, listed, overtaken>>

\* The timer does not wait for the answer to an earlier request.
Poll ==
  /\ timer /\ Len(wire["values"]) < MaxPoll
  /\ selected # None
  /\ Refresh(FALSE, wire)
  /\ UNCHANGED <<calm, view, listed, selected, rows, values, overtaken>>

-----------------------------------------------------------------------------
(***************************************************************************)
(* Answers.  ok is what the fetch helper makes of the status and of a      *)
(* connection that fails; w is the wire without the request.               *)
(***************************************************************************)
\* enter() goes on whatever the answer is.
AnswerConfig(w) ==
  /\ wire' = With(w, "devices", None, TRUE)
  /\ UNCHANGED <<view, listed, selected, rows, values, timer>>

\* _loadDevices: the selection is kept if it is a device.
AnswerDevices(ok, w) ==
  /\ listed' = (listed \/ ok)
  /\ IF ok THEN /\ Select(IF selected \in Device THEN selected ELSE First, TRUE, w)
                /\ UNCHANGED timer
     ELSE wire' = w /\ EndOfChain(TRUE) /\ UNCHANGED selected
  /\ UNCHANGED <<view, rows, values>>

\* Faulty variant: a failed answer leaves the table as it was.
RowsKept(d, ok) == IF ok THEN d ELSE rows
Rows(d, ok) == IF ok THEN d ELSE None

AnswerSignals(r, ok, w) ==
  /\ rows' = Rows(r.of, ok)
  /\ Refresh(r.entering, w)
  /\ UNCHANGED <<view, listed, selected, values>>

\* The engine knows no device ALL_ID.
AnswerValues(r, ok, w) ==
  /\ values' = IF ok /\ r.of # All THEN r.of ELSE values
  /\ wire' = w /\ EndOfChain(r.entering)
  /\ UNCHANGED <<view, listed, selected, rows>>

\* Request i of a route is answered; older ones may still be waiting.
Answer(route, i, ok) ==
  /\ i \in DOMAIN wire[route]
  /\ ok \/ calm # "RUNNING"
  /\ overtaken' = (overtaken \/ (route = "signals" /\ i > 1))
  /\ LET r == wire[route][i]
         w == [wire EXCEPT ![route] = RemoveAt(@, i)]
     IN \/ route = "config" /\ AnswerConfig(w)
        \/ route = "devices" /\ AnswerDevices(ok, w)
        \/ route = "signals" /\ AnswerSignals(r, ok, w)
        \/ route = "values" /\ AnswerValues(r, ok, w)
  /\ UNCHANGED calm

-----------------------------------------------------------------------------
(***************************************************************************)
(* The user, who sees the page while the view is RUNNING, and the engine.  *)
(***************************************************************************)
RoomToSelect == Len(wire["signals"]) + Len(wire["values"]) < MaxTable

SelectDevice(d) ==
  /\ calm = None /\ view = "RUNNING" /\ listed /\ RoomToSelect
  /\ Select(d, FALSE, wire)
  /\ UNCHANGED <<calm, view, listed, rows, values, timer, overtaken>>

SelectAllDevices ==
  /\ calm = None /\ view = "RUNNING" /\ listed
  /\ selected' = All
  /\ UNCHANGED <<calm, wire, view, listed, rows, values, timer, overtaken>>

\* The answer to Change Traffic Interface enters the page once more; its modal and
\* its request may have outlived the view.
ChangeInterface ==
  /\ calm = None /\ view # None /\ RoomToEnter
  /\ wire' = With(wire, "config", None, TRUE)
  /\ UNCHANGED <<calm, view, listed, selected, rows, values, timer, overtaken>>

CalmDown(state) ==
  /\ calm = None /\ calm' = state
  /\ UNCHANGED <<wire, view, listed, selected, rows, values, timer, overtaken>>

Next ==
  \/ \E state \in States : Tick(state) \/ CalmDown(state)
  \/ Poll
  \/ \E route \in Route : \E i \in DOMAIN wire[route], ok \in BOOLEAN : Answer(route, i, ok)
  \/ \E d \in Device : SelectDevice(d)
  \/ SelectAllDevices \/ ChangeInterface

Spec == Init /\ [][Next]_vars

\* The timers fire, and the oldest request of a route is answered.
FairSpec ==
  /\ Spec
  /\ WF_vars(\E state \in States : Tick(state)) /\ WF_vars(Poll)
  /\ \A route \in Route : WF_vars(\E ok \in BOOLEAN : Answer(route, 1, ok))

-----------------------------------------------------------------------------
(***************************************************************************)
(* Properties.                                                             *)
(***************************************************************************)
\* Once no answer is missing, the table has the signals of the selected device, or
\* none, unless an answer overtook an older one: a selection is not undone by the
\* rest of an enter(), of an earlier page or of a second one, and a failed answer
\* does not leave the table of another device, whose edits would go to this one.
RowsOfSelected ==
  /\ wire["signals"] = <<>> /\ wire["devices"] = <<>> /\ ~overtaken
  /\ selected \in Device
  => rows \in {selected, None}

\* "signals of selected device", however the answers come.
SignalsOfSelected ==
  /\ wire["signals"] = <<>> /\ wire["devices"] = <<>>
  /\ view = "RUNNING" /\ selected \in Device
  => rows \in {selected, None}

\* When the user rests and the engine answers, the view comes to follow the engine,
\* whatever late answers were on the wire.
ViewFollows == <>[](calm # None => view = calm)

\* And the values shown come to be those of the selected device, whatever answers
\* were lost or overtook each other before: each page that is entered ends up with
\* the timer on, even when it was left while another enter() was under way.
ValuesSettle ==
  <>[](calm = "RUNNING" /\ selected \in Device => timer /\ values = selected)
=============================================================================
