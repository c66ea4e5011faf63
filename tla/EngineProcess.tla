---------------------------- MODULE EngineProcess ----------------------------
(***************************************************************************)
(* The GUI's supervisor of the engine (gui_server.py, EngineProcess): it   *)
(* spawns the engine, stops and restarts it for the browser, and has two   *)
(* threads per engine it spawned, one that reads the engine's output until *)
(* it ends and one that polls its health page.  Whatever holds the         *)
(* supervisor's lock throughout is one step here.  What the engine does    *)
(* inside is the subject of EngineLifecycle.                               *)
(***************************************************************************)
EXTENDS Naturals

CONSTANTS
  MaxEngines,  \* bound on the engines ever spawned
  Client,      \* threads serving /control requests, the autostart thread included
  Requests,    \* the requests they are asked to serve
  NoEngine

Engine == 1 .. MaxEngines

ASSUME SupervisorAssumption ==
  /\ MaxEngines \in Nat /\ NoEngine \notin Engine
  /\ Requests \subseteq {"start", "stop", "restart", "status"}

VARIABLES
  proc,     \* _proc: the engine it knows of
  state,    \* _state
  engine,   \* each engine: where its process is
  code,     \* each engine: its exit code, when it is gone
  reader,   \* _read_output, the thread started with each engine
  reads,    \* ... and the engine whose output it reads
  waiter,   \* _wait_for_health, the thread started with each engine
  pc,       \* each client: "pause" is the sleep inside restart
  wanted,   \* history: what the last accepted start or stop asked for
  late      \* history: a reader has reported an engine already replaced

supervisorVars == <<proc, state, engine, code, reader, reads, waiter, pc, wanted, late>>

SupervisorStates == {"stopped", "starting", "running", "crashed"}
Alive(e) == engine[e] \in {"booting", "serving", "stopping"}

SupervisorTypeOK ==
  /\ proc \in Engine \cup {NoEngine}
  /\ state \in SupervisorStates
  /\ engine \in [Engine -> {"unborn", "booting", "serving", "stopping", "gone"}]
  /\ code \in [Engine -> {0, 1}]
  /\ reader \in [Engine -> {"none", "new", "drain", "done"}]
  /\ reads \in [Engine -> Engine \cup {NoEngine}]
  /\ waiter \in [Engine -> {"none", "poll", "heard", "done"}]
  /\ pc \in [Client -> {"idle", "pause"}]
  /\ wanted \in {"up", "down"} /\ late \in BOOLEAN

SupervisorInit ==
  /\ proc = NoEngine /\ state = "stopped"
  /\ engine = [e \in Engine |-> "unborn"]
  /\ code = [e \in Engine |-> 0]
  /\ reader = [e \in Engine |-> "none"]
  /\ reads = [e \in Engine |-> NoEngine]
  /\ waiter = [e \in Engine |-> "none"]
  /\ pc = [c \in Client |-> "idle"]
  /\ wanted = "down" /\ late = FALSE

\* poll() is not None
Exited(e) == engine[e] = "gone"
Outcome(e) == IF code[e] = 0 THEN "stopped" ELSE "crashed"
New(e) == engine[e] = "unborn" /\ \A f \in Engine : f < e => engine[f] # "unborn"

supervisor == <<proc, state, engine, code, reader, reads, waiter, wanted, late>>

-----------------------------------------------------------------------------
(***************************************************************************)
(* Requests.                                                               *)
(***************************************************************************)
Running == proc # NoEngine /\ ~Exited(proc)

\* Faulty variant: start does not look whether an engine is running.
SpawnAlways ==
  \E e \in Engine :
    /\ New(e)
    /\ proc' = e /\ state' = "starting" /\ wanted' = "up"
    /\ engine' = [engine EXCEPT ![e] = "booting"]
    /\ reader' = [reader EXCEPT ![e] = "new"]
    /\ waiter' = [waiter EXCEPT ![e] = "poll"]
    /\ UNCHANGED <<code, reads, late>>

\* start: a new engine, spawned with its two threads.  Nothing changes when it is
\* refused, the engine it knows of not having exited, or when Popen raises.
Spawn ==
  \E e \in Engine :
    /\ ~Running /\ New(e)
    /\ proc' = e /\ state' = "starting" /\ wanted' = "up"
    /\ engine' = [engine EXCEPT ![e] = "booting"]
    /\ reader' = [reader EXCEPT ![e] = "new"]
    /\ waiter' = [waiter EXCEPT ![e] = "poll"]
    /\ UNCHANGED <<code, reads, late>>

Start(c) ==
  /\ "start" \in Requests /\ pc[c] = "idle"
  /\ Spawn \/ UNCHANGED supervisor
  /\ UNCHANGED pc

\* stop: SIGTERM, and the state says stopped from now on.
Terminate ==
  /\ Running
  /\ engine' = [engine EXCEPT ![proc] = "stopping"]
  /\ state' = "stopped" /\ wanted' = "down"
  /\ UNCHANGED <<proc, code, reader, reads, waiter, late>>

Stop(c) ==
  /\ "stop" \in Requests /\ pc[c] = "idle"
  /\ Terminate \/ (~Running /\ UNCHANGED supervisor)
  /\ UNCHANGED pc

\* restart: stop, a pause of 1.5 s, start; the answer is that of start.
Restart(c) ==
  /\ "restart" \in Requests /\ pc[c] = "idle"
  /\ pc' = [pc EXCEPT ![c] = "pause"]
  /\ Terminate \/ (~Running /\ UNCHANGED supervisor)

Resume(c) ==
  /\ pc[c] = "pause"
  /\ pc' = [pc EXCEPT ![c] = "idle"]
  /\ Spawn \/ UNCHANGED supervisor

\* status, and every proxied request: the state property notices an exit.
Status(c) ==
  /\ "status" \in Requests /\ pc[c] = "idle"
  /\ IF proc # NoEngine /\ Exited(proc) /\ state # "stopped"
     THEN state' = Outcome(proc) /\ proc' = NoEngine
     ELSE UNCHANGED <<proc, state>>
  /\ UNCHANGED <<engine, code, reader, reads, waiter, pc, wanted, late>>

-----------------------------------------------------------------------------
(***************************************************************************)
(* The threads of the engines.                                             *)
(***************************************************************************)
\* proc = self._proc, without the lock: whatever it is by now.
ReaderBinds(e) ==
  /\ reader[e] = "new"
  /\ reads' = [reads EXCEPT ![e] = proc]
  /\ reader' = [reader EXCEPT ![e] = IF proc = NoEngine THEN "done" ELSE "drain"]
  /\ UNCHANGED <<proc, state, engine, code, waiter, pc, wanted, late>>

\* Faulty variant: the exit is only logged.
ReaderOnlyReads(e) ==
  /\ reader[e] = "drain" /\ Exited(reads[e])
  /\ reader' = [reader EXCEPT ![e] = "done"]
  /\ UNCHANGED <<proc, state, engine, code, reads, waiter, pc, wanted, late>>

\* The output has ended; if the state is still that of a running engine, this is
\* taken for its end, whichever engine _proc is by now.
ReaderReports(e) ==
  /\ reader[e] = "drain" /\ Exited(reads[e])
  /\ reader' = [reader EXCEPT ![e] = "done"]
  /\ IF state \in {"starting", "running"}
     THEN /\ state' = Outcome(reads[e])
          /\ proc' = NoEngine
          /\ late' = (late \/ (proc # NoEngine /\ proc # reads[e]))
     ELSE UNCHANGED <<state, proc, late>>
  /\ UNCHANGED <<engine, code, reads, waiter, pc, wanted>>

\* urlopen: whoever serves the internal port answers.
WaiterHears(e) ==
  /\ waiter[e] = "poll"
  /\ \E f \in Engine : engine[f] = "serving"
  /\ waiter' = [waiter EXCEPT ![e] = "heard"]
  /\ UNCHANGED <<proc, state, engine, code, reader, reads, pc, wanted, late>>

\* Faulty variant: the state is set whatever it was.
WaiterInsists(e) ==
  /\ waiter[e] = "heard"
  /\ waiter' = [waiter EXCEPT ![e] = "done"]
  /\ state' = "running"
  /\ UNCHANGED <<proc, engine, code, reader, reads, pc, wanted, late>>

WaiterReports(e) ==
  /\ waiter[e] = "heard"
  /\ waiter' = [waiter EXCEPT ![e] = "done"]
  /\ state' = IF state = "starting" THEN "running" ELSE state
  /\ UNCHANGED <<proc, engine, code, reader, reads, pc, wanted, late>>

\* The time allowed for a start is over.
WaiterGivesUp(e) ==
  /\ waiter[e] = "poll"
  /\ waiter' = [waiter EXCEPT ![e] = "done"]
  /\ UNCHANGED <<proc, state, engine, code, reader, reads, pc, wanted, late>>

-----------------------------------------------------------------------------
(***************************************************************************)
(* The engines.                                                            *)
(***************************************************************************)
Ends(e, rc) ==
  /\ engine' = [engine EXCEPT ![e] = "gone"]
  /\ code' = [code EXCEPT ![e] = rc]
  /\ UNCHANGED <<proc, state, reader, reads, waiter, pc, wanted, late>>

\* Flask listens on the internal port, if no other engine still does.
EngineServes(e) ==
  /\ engine[e] = "booting"
  /\ \A f \in Engine : engine[f] # "serving"
  /\ engine' = [engine EXCEPT ![e] = "serving"]
  /\ UNCHANGED <<proc, state, code, reader, reads, waiter, pc, wanted, late>>

\* It ends: by an error, or with 0 after POST /api/stop or SIGTERM.
EngineExits(e) ==
  \/ engine[e] = "booting" /\ Ends(e, 1)
  \/ engine[e] \in {"serving", "stopping"} /\ \E rc \in {0, 1} : Ends(e, rc)

SupervisorNext ==
  \/ \E c \in Client : Start(c) \/ Stop(c) \/ Restart(c) \/ Resume(c) \/ Status(c)
  \/ \E e \in Engine : \/ ReaderBinds(e) \/ ReaderReports(e)
                       \/ WaiterHears(e) \/ WaiterReports(e) \/ WaiterGivesUp(e)
                       \/ EngineServes(e) \/ EngineExits(e)

\* The reader threads run.
SupervisorFairness ==
  \A e \in Engine :
    WF_supervisorVars(ReaderBinds(e)) /\ WF_supervisorVars(ReaderReports(e))

SupervisorSpec == SupervisorInit /\ [][SupervisorNext]_supervisorVars
SupervisorFairSpec == SupervisorSpec /\ SupervisorFairness

-----------------------------------------------------------------------------
(***************************************************************************)
(* Properties.                                                             *)
(***************************************************************************)
\* The GUI manages the engine: no engine is alive that it does not know of, and
\* so can neither stop nor restart.
NoOrphan == \A e \in Engine : Alive(e) => e = proc

\* Of all the orders in which clients, readers, waiters and exits come, only a
\* reader that reports an engine after it has been replaced loses an engine.
OrphanOnlyByLateReader == ~late => NoOrphan

\* An exit the user asked for is not recorded as a crash, nor is a late answer of
\* a health page taken for a start: after a stop the state stays stopped, however
\* readers, waiters and the exit come, until somebody starts an engine.
StopIsFinal == wanted = "down" => state = "stopped"

\* The pause of a restart is long enough: its start does not find the engine it is
\* to replace still stopping, which is a refusal, and no engine after that.
\* TLC refutes it: README, "Disagreements".
RestartStarts ==
  [][\A c \in Client : pc[c] = "pause" /\ pc'[c] = "idle" =>
       ~(proc # NoEngine /\ engine[proc] = "stopping")]_supervisorVars

\* That an engine has ended does not stay unnoticed, even if no client asks: the
\* GUI does not go on saying it is starting or running.
ExitNoticed ==
  \A e \in Engine :
    engine[e] = "gone" ~> ~(proc = e /\ state \in {"starting", "running"})
=============================================================================
