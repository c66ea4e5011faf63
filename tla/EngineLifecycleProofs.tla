----------------------- MODULE EngineLifecycleProofs -----------------------
(***************************************************************************)
(* Proofs about EngineLifecycle, for any devices, VLANs, interfaces, lists *)
(* and failures, and for one client: two of them can interleave an upload  *)
(* with a reset, and then a lock file does stand without a config file.    *)
(* With one, the requests and the restore of thread "main" never overlap,  *)
(* so that what a thread found on disk is still there at its next step.    *)
(*                                                                         *)
(* Four inductive invariants, each with the ones before it: IInv (the      *)
(* project directory), TInv (types), QInv (what is served and saved        *)
(* between requests, while the interface is never changed) and NInv (what  *)
(* is in the kernel, while nothing else than this process changes it).     *)
(***************************************************************************)
EXTENDS EngineLifecycle, TLAPS, SequenceTheorems, WellFoundedInduction

OneClient == \A t, u \in Worker : t = u

Texts == Configs \cup {Torn}

\* What a thread that reads the config file to edit it was asked for.
Editing(j) == (j.op = "vlan" /\ j.vlan \in BOOLEAN) \/ (j.op # "vlan" /\ j.nic \in Nic)

\* The steps of a request before which nothing needs to be known of its locals or
\* of the lock and the config file.
Quiet == {"idle", "next", "setConfig", "signals", "writeSignals", "setSignals", "maps",
          "verify", "links", "linkUp", "addrs", "servers", "bind", "unlinkLock",
          "rmtree", "clear", "exit"}

\* Those of a boot with --reset.
Wiping == {"wipe", "wipeDevices"}

\* What is known before the others.
Prepared(t) ==
  /\ pc[t] \in {"config", "writeConfig"} => cfg[t] # None
  /\ pc[t] = "lock" => configFile # None
  /\ pc[t] = "unlinkConfig" => ~lockFile
  /\ pc[t] = "read" => Editing(job[t])
  /\ pc[t] \in {"stopServers", "teardown"} /\ job[t].op = "change" => job[t].nic \in Nic
  /\ pc[t] = "rename" => job[t].nic \in Nic
  /\ pc[t] \in Wiping => wiping

Alone == \A t, u \in Thread : pc[t] # "idle" /\ pc[u] # "idle" => t = u
Types ==
  /\ pc \in [Thread -> Steps] /\ DOMAIN job = Thread
  /\ cfg \in [Thread -> Texts \cup {None}] /\ configFile \in Texts \cup {None}
IInv ==
  /\ Types /\ Alone /\ LockMeansProject
  /\ ~alive => Idle
  /\ \A t \in Thread : Prepared(t)

-----------------------------------------------------------------------------
(***************************************************************************)
(* What a thread's step leaves of the others.                              *)
(***************************************************************************)
Moved(t, step) ==
  /\ Alone' /\ pc' \in [Thread -> Steps] /\ pc'[t] = step
  /\ \A u \in Thread \ {t} : pc'[u] = "idle"

\* A thread in a request is the only one.
LEMMA MovesAlone ==
  ASSUME Types, Alone, NEW t \in Thread, pc[t] # "idle",
         NEW step \in Steps, pc' = [pc EXCEPT ![t] = step]
  PROVE  Moved(t, step)
<1>1. pc' \in [Thread -> Steps] /\ pc'[t] = step
  BY DEF Types
<1>2. \A u \in Thread \ {t} : pc'[u] = "idle"
  BY DEF Types, Alone
<1>3. Alone'
  BY <1>2 DEF Alone
<1> QED BY <1>1, <1>2, <1>3 DEF Moved

\* So is one that takes a request on.
LEMMA TakesAlone ==
  ASSUME OneClient, Types, NEW t \in Thread, NEW j, NEW step \in Steps, Take(t, j, step)
  PROVE  Moved(t, step)
<1>1. \A u \in Thread : pc[u] = "idle"
  <2>1. \A u \in Worker : u = t
    BY DEF Take, OneClient
  <2> QED BY <2>1 DEF Take, Thread
<1>2. pc' = [pc EXCEPT ![t] = step]
  BY DEF Take, Go
<1>3. pc' \in [Thread -> Steps] /\ pc'[t] = step
  BY <1>2 DEF Types
<1>4. \A u \in Thread \ {t} : pc'[u] = "idle"
  BY <1>1, <1>2 DEF Types
<1>5. Alone'
  BY <1>4 DEF Alone
<1> QED BY <1>3, <1>4, <1>5 DEF Moved

\* What is left to show after a step.
LEMMA Advance ==
  ASSUME NEW t \in Thread, NEW step \in Steps, Moved(t, step), alive',
         DOMAIN job' = Thread, cfg' \in [Thread -> Texts \cup {None}],
         configFile' \in Texts \cup {None},
         LockMeansProject', Prepared(t)'
  PROVE  IInv'
<1>1. ASSUME NEW u \in Thread PROVE Prepared(u)'
  <2>1. CASE u = t
    BY <2>1
  <2>2. CASE u # t
    <3>1. pc'[u] = "idle"
      BY <2>2 DEF Moved
    <3> QED BY <3>1 DEF Prepared, Wiping
  <2> QED BY <2>1, <2>2
<1>2. Types' /\ Alone'
  BY DEF Moved, Types
<1> QED BY <1>1, <1>2 DEF IInv

\* A step to one of the quiet ones that leaves lock and config file alone.
LEMMA Quietly ==
  ASSUME IInv, NEW t \in Thread, NEW step \in Quiet, pc[t] # "idle",
         pc' = [pc EXCEPT ![t] = step], alive, alive' = alive,
         UNCHANGED <<configFile, lockFile, wiping>>,
         DOMAIN job' = Thread, cfg' \in [Thread -> Texts \cup {None}]
  PROVE  IInv'
<1>1. step \in Steps
  BY DEF Quiet, Steps
<1>2. Moved(t, step)
  BY <1>1, MovesAlone DEF IInv
<1>3. Prepared(t)'
  <2>1. pc'[t] \in Quiet
    BY <1>2 DEF Moved
  <2> QED BY <2>1 DEF Prepared, Quiet, Wiping
<1>4. configFile' \in Texts \cup {None} /\ LockMeansProject'
  BY DEF IInv, Types, LockMeansProject
<1> QED BY <1>1, <1>2, <1>3, <1>4, Advance

LEMMA Locals ==
  ASSUME Types
  PROVE  DOMAIN job = Thread /\ cfg \in [Thread -> Texts \cup {None}]
BY DEF Types

\* A request ends.
LEMMA Ends ==
  ASSUME IInv, NEW t \in Thread, pc[t] # "idle", Done(t), alive, alive' = alive,
         configFile' \in Texts \cup {None}, LockMeansProject'
  PROVE  IInv'
<1>1. "idle" \in Steps
  BY DEF Steps
<1>2. pc' = [pc EXCEPT ![t] = "idle"]
  BY DEF Done, Go
<1>3. Moved(t, "idle")
  BY <1>1, <1>2, MovesAlone DEF IInv
<1>4. DOMAIN job' = Thread
  BY DEF Done, IInv, Types
<1>5. cfg' \in [Thread -> Texts \cup {None}]
  BY DEF Done, IInv, Types
<1>6. Prepared(t)'
  BY <1>3 DEF Moved, Prepared, Wiping
<1> QED BY <1>1, <1>3, <1>4, <1>5, <1>6, Advance

\* Nothing is under way and nothing begins.
LEMMA Rests ==
  ASSUME IInv, UNCHANGED <<pc, job, cfg, configFile, lockFile, wiping>>, alive' \/ Idle
  PROVE  IInv'
<1>1. Types' /\ Alone' /\ LockMeansProject'
  BY DEF IInv, Types, Alone, LockMeansProject
<1>2. ~alive' => Idle'
  BY DEF Idle
<1>3. \A u \in Thread : Prepared(u)'
  BY DEF IInv, Prepared, Wiping
<1> QED BY <1>1, <1>2, <1>3 DEF IInv

LEMMA Dies ==
  ASSUME IInv, Died PROVE IInv'
<1>1. \A t \in Thread : pc'[t] = "idle"
  BY DEF Died
<1>2. pc' \in [Thread -> Steps] /\ DOMAIN job' = Thread
  BY DEF Died, Steps
<1>3. cfg' \in [Thread -> Texts \cup {None}]
  BY DEF Died
<1>4. UNCHANGED <<configFile, lockFile, wiping>>
  BY DEF Died, disk
<1>5. Types' /\ LockMeansProject'
  BY <1>2, <1>3, <1>4 DEF IInv, Types, LockMeansProject
<1>6. Alone' /\ Idle'
  BY <1>1 DEF Alone, Idle
<1>7. \A t \in Thread : Prepared(t)'
  BY <1>1 DEF Prepared, Wiping
<1> QED BY <1>5, <1>6, <1>7 DEF IInv

-----------------------------------------------------------------------------
(***************************************************************************)
(* Each step keeps the invariant.                                          *)
(***************************************************************************)
LEMMA LifecycleInit == Init => IInv
<1> SUFFICES ASSUME Init PROVE IInv
  OBVIOUS
<1>1. \A t \in Thread : pc[t] = "idle"
  BY DEF Init
<1>2. pc \in [Thread -> Steps] /\ DOMAIN job = Thread
  BY DEF Init, Steps
<1>3. cfg \in [Thread -> Texts \cup {None}] /\ configFile \in Texts \cup {None}
  BY DEF Init
<1>4. Types /\ LockMeansProject
  BY <1>2, <1>3 DEF Init, Types, LockMeansProject
<1>5. Alone /\ Idle
  BY <1>1 DEF Alone, Idle
<1>6. \A t \in Thread : Prepared(t)
  BY <1>1 DEF Prepared, Wiping
<1> QED BY <1>4, <1>5, <1>6 DEF IInv

\* Requests that begin.
LEMMA BeginStep ==
  ASSUME OneClient, IInv, NEW t \in Worker, NEW j \in Jobs[t], Begin(t, j)
  PROVE  IInv'
<1>1. t \in Thread /\ Types /\ LockMeansProject
  BY DEF Thread, IInv
<1>2. CASE StartRefused(t, j)
  BY <1>2, Rests DEF StartRefused, thread, disk
<1>3. ASSUME NEW step \in Steps, Take(t, j, step), UNCHANGED <<alive, configFile, lockFile, wiping>>,
             cfg' \in [Thread -> Texts \cup {None}], Prepared(t)'
      PROVE  IInv'
  <2>1. Moved(t, step)
    BY <1>1, <1>3, TakesAlone
  <2>2. DOMAIN job' = Thread
    BY <1>1, <1>3 DEF Take, Types
  <2>3. configFile' \in Texts \cup {None} /\ LockMeansProject' /\ alive'
    BY <1>1, <1>3 DEF Types, LockMeansProject, Take
  <2> QED BY <1>1, <1>3, <2>1, <2>2, <2>3, Advance
<1>4. ASSUME NEW step \in Steps, Take(t, j, step)
      PROVE  pc'[t] = step /\ job'[t] = j
  BY <1>1, <1>4 DEF Take, Go, Types
<1>5. /\ "config" \in Steps /\ "signals" \in Steps /\ "read" \in Steps
      /\ "maps" \in Steps /\ "stopServers" \in Steps
  BY DEF Steps
<1>6. CASE BeginConfig(t, j)
  <2>1. /\ Take(t, j, "config") /\ cfg' = [cfg EXCEPT ![t] = j.cfg]
        /\ UNCHANGED <<alive, configFile, lockFile, wiping>> /\ j.cfg \in Configs
    BY <1>6, JobsAssumption DEF BeginConfig, disk
  <2>2. cfg' \in [Thread -> Texts \cup {None}] /\ cfg'[t] # None
    BY <1>1, <2>1, LifecycleAssumption DEF Types, Texts
  <2>3. Prepared(t)'
    BY <1>4, <1>5, <2>1, <2>2 DEF Prepared, Wiping
  <2> QED BY <1>3, <1>5, <2>1, <2>2, <2>3
<1>7. CASE BeginSignals(t, j)
  <2>1. Take(t, j, "signals") /\ UNCHANGED <<alive, configFile, lockFile, wiping, cfg>>
    BY <1>7 DEF BeginSignals, disk
  <2>2. Prepared(t)'
    BY <1>4, <1>5, <2>1 DEF Prepared, Wiping
  <2> QED BY <1>1, <1>3, <1>5, <2>1, <2>2 DEF Types
<1>8. CASE BeginVlanMode(t, j)
  <2>1. /\ Take(t, j, "read") /\ UNCHANGED <<alive, configFile, lockFile, wiping, cfg>>
        /\ j.op = "vlan" /\ j.vlan \in BOOLEAN
    BY <1>8, JobsAssumption DEF BeginVlanMode, disk
  <2>2. Prepared(t)'
    BY <1>4, <1>5, <2>1 DEF Prepared, Wiping, Editing
  <2> QED BY <1>1, <1>3, <1>5, <2>1, <2>2 DEF Types
<1>9. CASE BeginStart(t, j)
  <2>1. Take(t, j, "maps") /\ UNCHANGED <<alive, configFile, lockFile, wiping, cfg>>
    BY <1>9 DEF BeginStart, disk
  <2>2. Prepared(t)'
    BY <1>4, <1>5, <2>1 DEF Prepared, Wiping
  <2> QED BY <1>1, <1>3, <1>5, <2>1, <2>2 DEF Types
<1>10. CASE BeginReset(t, j) \/ BeginChange(t, j) \/ BeginStop(t, j)
  <2>1. /\ Take(t, j, "stopServers") /\ UNCHANGED <<alive, configFile, lockFile, wiping, cfg>>
        /\ j.op = "change" => j.nic \in Nic
    BY <1>10, JobsAssumption DEF BeginReset, BeginChange, BeginStop, disk
  <2>2. Prepared(t)'
    BY <1>4, <1>5, <2>1 DEF Prepared, Wiping
  <2> QED BY <1>1, <1>3, <1>5, <2>1, <2>2 DEF Types
<1> QED BY <1>2, <1>6, <1>7, <1>8, <1>9, <1>10 DEF Begin

\* Editing the text of a config file gives the text of one, or a torn one again.
LEMMA EditedText ==
  ASSUME NEW text \in Texts, NEW j, Editing(j)
  PROVE  Edited(text, j) \in Texts /\ Edited(text, j) # None
<1>1. CASE text = Torn
  <2>1. Edited(text, j) = Torn
    BY <1>1, Zenon DEF Edited
  <2> QED BY <2>1, LifecycleAssumption DEF Texts
<1>2. CASE text # Torn /\ j.op = "vlan"
  <2>1. text \in Configs /\ j.vlan \in BOOLEAN
    BY <1>2 DEF Texts, Editing
  <2>2. [text EXCEPT !.vlan = j.vlan] \in Configs
    BY <2>1 DEF Configs
  <2>3. Edited(text, j) \in {[text EXCEPT !.vlan = j.vlan], text, Torn}
    <3>1. CASE text.vlanLine = "found"
      BY <1>2, <3>1, Zenon DEF Edited
    <3>2. CASE text.vlanLine = "missed"
      BY <1>2, <3>2 DEF Edited
    <3>3. CASE text.vlanLine \notin {"found", "missed"}
      BY <1>2, <3>3 DEF Edited
    <3> QED BY <3>1, <3>2, <3>3
  <2> QED BY <2>1, <2>2, <2>3, LifecycleAssumption DEF Texts
<1>3. CASE text # Torn /\ j.op # "vlan"
  <2>1. text \in Configs /\ j.nic \in Nic
    BY <1>3 DEF Texts, Editing
  <2>2. [text EXCEPT !.nic = j.nic] \in Configs
    BY <2>1 DEF Configs
  <2>3. Edited(text, j) \in {[text EXCEPT !.nic = j.nic], text}
    BY <1>3, Zenon DEF Edited
  <2> QED BY <2>1, <2>2, <2>3, LifecycleAssumption DEF Texts
<1> QED BY <1>1, <1>2, <1>3

\* A step that only moves a thread on, keeping its job and its text.
LEMMA GoesQuietly ==
  ASSUME IInv, NEW t \in Thread, NEW step \in Quiet, pc[t] # "idle", alive,
         Goes(t, step), UNCHANGED <<alive, configFile, lockFile, wiping>>
  PROVE  IInv'
BY Quietly DEF Goes, Go, IInv, Types

\* setup raised.
LEMMA SetupFailsStep ==
  ASSUME IInv, NEW t \in Thread, pc[t] # "idle", alive, SetupFails(t)
  PROVE  IInv'
<1>1. Done(t) /\ UNCHANGED <<alive, configFile, lockFile, wiping>>
  BY DEF SetupFails, disk
<1>2. configFile' \in Texts \cup {None} /\ LockMeansProject'
  BY <1>1 DEF IInv, Types, LockMeansProject
<1> QED BY <1>1, <1>2, Ends

\* Writing the config, the lock and the signals.
LEMMA WriteStep ==
  ASSUME IInv, NEW t \in Thread,
         \/ EmptyConfig(t) \/ WriteConfig(t) \/ WriteLock(t) \/ SetConfig(t)
         \/ EmptySignals(t) \/ WriteSignals(t) \/ SetSignals(t) \/ ReadConfig(t)
  PROVE  IInv'
<1>1. /\ Types /\ Alone /\ LockMeansProject /\ Prepared(t)
      /\ DOMAIN job = Thread /\ cfg \in [Thread -> Texts \cup {None}]
  BY DEF IInv, Types
<1>2. alive /\ pc[t] # "idle"
  BY DEF EmptyConfig, WriteConfig, WriteLock, SetConfig, EmptySignals, WriteSignals,
         SetSignals, ReadConfig, At
<1>3. CASE EmptyConfig(t)
  <2>1. /\ pc' = [pc EXCEPT ![t] = "writeConfig"] /\ pc[t] = "config"
        /\ configFile' = Torn /\ UNCHANGED <<alive, job, cfg, lockFile>>
    BY <1>3 DEF EmptyConfig, At, Goes, Go
  <2>2. "writeConfig" \in Steps
    BY DEF Steps
  <2>3. Moved(t, "writeConfig")
    BY <1>1, <1>2, <2>1, <2>2, MovesAlone
  <2>4. cfg'[t] # None
    BY <1>1, <2>1 DEF Prepared, Wiping
  <2>5. Prepared(t)'
    BY <2>3, <2>4 DEF Moved, Prepared, Wiping
  <2>6. configFile' \in Texts \cup {None} /\ LockMeansProject'
    BY <2>1, LifecycleAssumption DEF Texts, LockMeansProject
  <2> QED BY <1>1, <1>2, <2>1, <2>2, <2>3, <2>5, <2>6, Advance
<1>4. CASE WriteConfig(t)
  <2>1. /\ pc[t] = "writeConfig" /\ configFile' = cfg[t] /\ UNCHANGED <<alive, lockFile>>
        /\ AfterWrite(t)
    BY <1>4 DEF WriteConfig, At
  <2>2. configFile' \in Texts \cup {None} /\ configFile' # None
    BY <1>1, <2>1 DEF Prepared, Wiping
  <2>3. LockMeansProject'
    BY <2>2 DEF LockMeansProject
  <2>4. CASE Done(t)
    BY <1>2, <2>1, <2>2, <2>3, <2>4, Ends
  <2>5. CASE Goes(t, IF job[t].op = "change" THEN "maps" ELSE "lock")
    <3> DEFINE step == IF job[t].op = "change" THEN "maps" ELSE "lock"
    <3>1. step \in {"maps", "lock"}
      OBVIOUS
    <3>2. pc' = [pc EXCEPT ![t] = step] /\ UNCHANGED <<job, cfg>>
      BY <2>5 DEF Goes, Go
    <3> HIDE DEF step
    <3>3. step \in Steps
      BY <3>1 DEF Steps
    <3>4. Moved(t, step)
      BY <1>1, <1>2, <3>2, <3>3, MovesAlone
    <3>5. Prepared(t)'
      BY <2>2, <3>1, <3>4 DEF Moved, Prepared, Wiping
    <3> QED BY <1>1, <1>2, <2>1, <2>2, <2>3, <3>2, <3>3, <3>4, <3>5, Advance
  <2> QED BY <2>1, <2>4, <2>5 DEF AfterWrite
<1>5. CASE WriteLock(t)
  <2>1. /\ pc[t] = "lock" /\ lockFile' = TRUE /\ UNCHANGED <<alive, configFile, job, cfg>>
        /\ pc' = [pc EXCEPT ![t] = "setConfig"]
    BY <1>5 DEF WriteLock, At, Goes, Go
  <2>2. "setConfig" \in Steps
    BY DEF Steps
  <2>3. Moved(t, "setConfig")
    BY <1>1, <1>2, <2>1, <2>2, MovesAlone
  <2>4. configFile' # None
    BY <1>1, <2>1 DEF Prepared, Wiping
  <2>5. Prepared(t)' /\ LockMeansProject'
    BY <2>3, <2>4 DEF Moved, Prepared, Wiping, LockMeansProject
  <2>6. configFile' \in Texts \cup {None}
    BY <1>1, <2>1 DEF Types
  <2> QED BY <1>1, <1>2, <2>1, <2>2, <2>3, <2>5, <2>6, Advance
<1>6. CASE SetConfig(t) \/ SetSignals(t)
  <2>1. UNCHANGED <<alive, configFile, lockFile, wiping>>
    BY <1>6 DEF SetConfig, SetSignals, disk
  <2>2. CASE Go(t, "next") /\ UNCHANGED <<job, cfg>>
    <3>1. pc' = [pc EXCEPT ![t] = "next"] /\ "next" \in Quiet
      BY <2>2 DEF Go, Quiet
    <3> QED BY <1>1, <1>2, <2>1, <2>2, <3>1, Quietly
  <2>3. CASE Done(t)
    <3>1. configFile' \in Texts \cup {None} /\ LockMeansProject'
      BY <1>1, <2>1 DEF Types, LockMeansProject
    <3> QED BY <1>2, <2>1, <2>3, <3>1, Ends
  <2> QED BY <1>6, <2>2, <2>3 DEF SetConfig, SetSignals
<1>7. CASE EmptySignals(t)
  <2>1. "writeSignals" \in Quiet
    BY DEF Quiet
  <2>2. Goes(t, "writeSignals") /\ UNCHANGED <<alive, configFile, lockFile, wiping>>
    BY <1>7 DEF EmptySignals
  <2> QED BY <1>2, <2>1, <2>2, GoesQuietly
<1>8. CASE WriteSignals(t)
  <2>1. "setSignals" \in Quiet
    BY DEF Quiet
  <2>2. Goes(t, "setSignals") /\ UNCHANGED <<alive, configFile, lockFile, wiping>>
    BY <1>8 DEF WriteSignals
  <2> QED BY <1>2, <2>1, <2>2, GoesQuietly
<1>9. CASE ReadConfig(t)
  <2>1. UNCHANGED <<alive, configFile, lockFile, wiping>> /\ pc[t] = "read"
    BY <1>9 DEF ReadConfig, At, disk
  <2>2. configFile' \in Texts \cup {None} /\ LockMeansProject'
    BY <1>1, <2>1 DEF Types, LockMeansProject
  <2>3. CASE Done(t)
    BY <1>2, <2>1, <2>2, <2>3, Ends
  <2>4. CASE /\ configFile # None /\ Go(t, "config")
             /\ cfg' = [cfg EXCEPT ![t] = Edited(configFile, job[t])]
             /\ UNCHANGED <<job, left, vlansLeft, mine>>
    <3>1. Edited(configFile, job[t]) \in Texts /\ Edited(configFile, job[t]) # None
      BY <1>1, <2>1, <2>4, EditedText DEF Types, Prepared, Wiping
    <3>2. cfg' \in [Thread -> Texts \cup {None}] /\ cfg'[t] # None
      BY <1>1, <2>4, <3>1
    <3>3. pc' = [pc EXCEPT ![t] = "config"] /\ "config" \in Steps
      BY <2>4 DEF Go, Steps
    <3>4. Moved(t, "config")
      BY <1>1, <1>2, <3>3, MovesAlone
    <3>5. Prepared(t)'
      BY <3>2, <3>4 DEF Moved, Prepared, Wiping
    <3> QED BY <1>1, <1>2, <2>1, <2>2, <2>4, <3>2, <3>3, <3>4, <3>5, Advance
  <2> QED BY <1>9, <2>3, <2>4 DEF ReadConfig
<1> QED BY <1>3, <1>4, <1>5, <1>6, <1>7, <1>8, <1>9

\* start: maps, network, sockets.  Disk is not touched.
LEMMA StartStep ==
  ASSUME IInv, NEW t \in Thread,
         \/ BuildMaps(t) \/ Verify(t) \/ AddLink(t) \/ LinkUp(t)
         \/ AssignIp(t) \/ ChooseServers(t)
         \/ Listen(t) \/ BindFails(t) \/ Serve(t)
  PROVE  IInv'
<1>1. /\ Types /\ LockMeansProject
      /\ DOMAIN job = Thread /\ cfg \in [Thread -> Texts \cup {None}]
  BY DEF IInv, Types
<1>2. alive /\ pc[t] # "idle" /\ UNCHANGED <<alive, configFile, lockFile, wiping>>
  BY DEF BuildMaps, Verify, AddLink, LinkUp, AssignIp, ChooseServers, Listen, BindFails,
         Serve, SetupFails, At, disk
<1>3. configFile' \in Texts \cup {None} /\ LockMeansProject'
  BY <1>1, <1>2 DEF Types, LockMeansProject
<1>4. CASE Done(t)
  BY <1>2, <1>3, <1>4, Ends
<1>5. CASE UNCHANGED <<pc, job, cfg>>
  BY <1>2, <1>5, Rests
<1>6. ASSUME NEW step \in Quiet, Go(t, step), UNCHANGED <<job, cfg>> PROVE IInv'
  BY <1>1, <1>2, <1>6, Quietly DEF Go
<1>7. /\ "verify" \in Quiet /\ "servers" \in Quiet /\ "addrs" \in Quiet
      /\ "links" \in Quiet /\ "linkUp" \in Quiet /\ "bind" \in Quiet
  BY DEF Quiet
<1>8. CASE BuildMaps(t)
  BY <1>6, <1>7, <1>8 DEF BuildMaps, Goes
<1>9. CASE Verify(t)
  BY <1>4, <1>6, <1>7, <1>9 DEF Verify, SetupFails
<1>10. CASE AddLink(t)
  BY <1>4, <1>6, <1>7, <1>10 DEF AddLink, SetupFails, Goes
<1>11. CASE LinkUp(t)
  BY <1>4, <1>6, <1>7, <1>11 DEF LinkUp, SetupFails
<1>12. CASE AssignIp(t)
  BY <1>4, <1>6, <1>7, <1>12 DEF AssignIp, SetupFails
<1>13. CASE ChooseServers(t)
  BY <1>6, <1>7, <1>13 DEF ChooseServers
<1>14. CASE Listen(t)
  BY <1>5, <1>14 DEF Listen
<1>15. CASE BindFails(t) \/ Serve(t)
  BY <1>4, <1>15 DEF BindFails, Serve
<1> QED BY <1>8, <1>9, <1>10, <1>11, <1>12, <1>13, <1>14, <1>15

\* stop, reset and change of interface, up to where their ways part.
LEMMA StopStep ==
  ASSUME IInv, NEW t \in Thread, StopServers(t) \/ Teardown(t) \/ Rename(t)
  PROVE  IInv'
<1>1. /\ Types /\ Alone /\ LockMeansProject /\ Prepared(t)
      /\ DOMAIN job = Thread /\ cfg \in [Thread -> Texts \cup {None}]
  BY DEF IInv, Types
<1>2. alive /\ pc[t] # "idle" /\ UNCHANGED <<alive, configFile, lockFile, wiping, cfg>>
  BY DEF StopServers, Teardown, Rename, Goes, At, disk
<1>3. configFile' \in Texts \cup {None} /\ LockMeansProject'
  BY <1>1, <1>2 DEF Types, LockMeansProject
<1>4. ASSUME NEW step \in Steps, pc' = [pc EXCEPT ![t] = step], DOMAIN job' = Thread,
             Moved(t, step) => Prepared(t)'
      PROVE  IInv'
  <2>1. Moved(t, step)
    BY <1>1, <1>2, <1>4, MovesAlone
  <2> QED BY <1>1, <1>2, <1>3, <1>4, <2>1, Advance
<1>5. CASE StopServers(t)
  <2>1. pc[t] = "stopServers" /\ pc' = [pc EXCEPT ![t] = "teardown"] /\ job' = job
    BY <1>5 DEF StopServers, At, Goes, Go
  <2>2. "teardown" \in Steps
    BY DEF Steps
  <2>3. ASSUME Moved(t, "teardown") PROVE Prepared(t)'
    BY <1>1, <2>1, <2>3 DEF Moved, Prepared, Wiping
  <2> QED BY <1>1, <1>4, <2>1, <2>2, <2>3
<1>6. CASE Teardown(t)
  <2> DEFINE step == CASE job[t].op = "reset" -> "unlinkLock"
                       [] job[t].op = "change" -> "rename"
                       [] OTHER -> "exit"
  <2>1. pc[t] = "teardown" /\ pc' = [pc EXCEPT ![t] = step] /\ job' = job
    BY <1>6 DEF Teardown, At, Goes, Go
  <2>2. \/ job[t].op = "reset" /\ step = "unlinkLock"
        \/ job[t].op = "change" /\ step = "rename"
        \/ step = "exit"
    <3>1. CASE job[t].op = "reset"
      BY <3>1, Zenon
    <3>2. CASE job[t].op = "change"
      BY <3>2, Zenon
    <3>3. CASE job[t].op # "reset" /\ job[t].op # "change"
      BY <3>3, Zenon
    <3> QED BY <3>1, <3>2, <3>3
  <2> HIDE DEF step
  <2>3. step \in Steps
    BY <2>2 DEF Steps
  <2>4. ASSUME Moved(t, step) PROVE Prepared(t)'
    BY <1>1, <2>1, <2>2, <2>4 DEF Moved, Prepared, Wiping
  <2> QED BY <1>1, <1>4, <2>1, <2>3, <2>4
<1>7. CASE Rename(t)
  <2>1. /\ pc[t] = "rename" /\ pc' = [pc EXCEPT ![t] = "read"]
        /\ job' = [job EXCEPT ![t] = [op |-> "change", nic |-> job[t].nic, old |-> config.nic]]
    BY <1>7 DEF Rename, At, Go
  <2>2. "read" \in Steps
    BY DEF Steps
  <2>3. job'[t].op = "change" /\ job'[t].nic \in Nic
    BY <1>1, <2>1 DEF Prepared, Wiping
  <2>4. ASSUME Moved(t, "read") PROVE Prepared(t)'
    BY <2>3, <2>4 DEF Moved, Prepared, Wiping, Editing
  <2> QED BY <1>1, <1>4, <2>1, <2>2, <2>4
<1> QED BY <1>5, <1>6, <1>7

\* The rest of a reset: the lock file goes first, the config file next.
LEMMA ResetStep ==
  ASSUME IInv, NEW t \in Thread,
         UnlinkLock(t) \/ UnlinkConfig(t) \/ RemoveDevices(t) \/ Clear(t)
  PROVE  IInv'
<1>1. /\ Types /\ Alone /\ LockMeansProject /\ Prepared(t)
      /\ DOMAIN job = Thread /\ cfg \in [Thread -> Texts \cup {None}]
  BY DEF IInv, Types
<1>2. alive /\ pc[t] # "idle" /\ alive' = alive
  BY DEF UnlinkLock, UnlinkConfig, RemoveDevices, Clear, At
<1>3. CASE UnlinkLock(t)
  <2>1. /\ pc' = [pc EXCEPT ![t] = "unlinkConfig"] /\ ~lockFile'
        /\ UNCHANGED <<job, cfg, configFile>>
    BY <1>3 DEF UnlinkLock, Goes, Go
  <2>2. "unlinkConfig" \in Steps
    BY DEF Steps
  <2>3. Moved(t, "unlinkConfig")
    BY <1>1, <1>2, <2>1, <2>2, MovesAlone
  <2>4. Prepared(t)' /\ LockMeansProject'
    BY <2>1, <2>3 DEF Moved, Prepared, Wiping, LockMeansProject
  <2>5. configFile' \in Texts \cup {None}
    BY <1>1, <2>1 DEF Types
  <2> QED BY <1>1, <1>2, <2>1, <2>2, <2>3, <2>4, <2>5, Advance
<1>4. CASE UnlinkConfig(t)
  <2>1. /\ pc[t] = "unlinkConfig" /\ pc' = [pc EXCEPT ![t] = "rmtree"]
        /\ configFile' = None /\ UNCHANGED <<job, cfg, lockFile>>
    BY <1>4 DEF UnlinkConfig, At, Goes, Go
  <2>2. "rmtree" \in Steps
    BY DEF Steps
  <2>3. Moved(t, "rmtree")
    BY <1>1, <1>2, <2>1, <2>2, MovesAlone
  <2>4. Prepared(t)'
    BY <2>3 DEF Moved, Prepared, Wiping
  <2>5. LockMeansProject'
    BY <1>1, <2>1 DEF Prepared, Wiping, LockMeansProject
  <2> QED BY <1>1, <1>2, <2>1, <2>2, <2>3, <2>4, <2>5, Advance
<1>5. CASE RemoveDevices(t)
  <2>1. "clear" \in Quiet
    BY DEF Quiet
  <2>2. Goes(t, "clear") /\ UNCHANGED <<alive, configFile, lockFile, wiping>>
    BY <1>5 DEF RemoveDevices
  <2> QED BY <1>2, <2>1, <2>2, GoesQuietly
<1>6. CASE Clear(t)
  <2>1. Done(t) /\ UNCHANGED <<configFile, lockFile, wiping>>
    BY <1>6 DEF Clear, disk
  <2>2. configFile' \in Texts \cup {None} /\ LockMeansProject'
    BY <1>1, <2>1 DEF Types, LockMeansProject
  <2> QED BY <1>2, <2>1, <2>2, Ends
<1> QED BY <1>3, <1>4, <1>5, <1>6

\* The restore of thread "main".
LEMMA RestoreStep ==
  ASSUME IInv, NEW t \in Thread, RestoreFile(t) \/ RestoreStart(t)
  PROVE  IInv'
<1>1. /\ Types /\ LockMeansProject
      /\ DOMAIN job = Thread /\ cfg \in [Thread -> Texts \cup {None}]
  BY DEF IInv, Types
<1>2. alive /\ pc[t] # "idle" /\ UNCHANGED <<alive, configFile, lockFile, wiping>>
  BY DEF RestoreFile, RestoreStart, At, disk
<1>3. configFile' \in Texts \cup {None} /\ LockMeansProject'
  BY <1>1, <1>2 DEF Types, LockMeansProject
<1>4. CASE Done(t)
  BY <1>2, <1>3, <1>4, Ends
<1>5. CASE UNCHANGED <<pc, job, cfg>>
  BY <1>2, <1>5, Rests
<1>6. CASE Goes(t, "maps")
  <2>1. "maps" \in Quiet
    BY DEF Quiet
  <2> QED BY <1>2, <1>6, <2>1, GoesQuietly
<1>7. CASE Go(t, "signals") /\ DOMAIN job' = Thread /\ cfg' = cfg
  <2>1. "signals" \in Quiet
    BY DEF Quiet
  <2> QED BY <1>1, <1>2, <1>7, <2>1, Quietly DEF Go
<1>8. CASE RestoreFile(t)
  <2> DEFINE list == [op |-> "restore", dev |-> Head(left[t]), list |-> sigFile[Head(left[t])]]
  <2>1. ASSUME job' = [job EXCEPT ![t] = list] PROVE DOMAIN job' = Thread
    BY <1>1, <2>1
  <2> QED BY <1>4, <1>5, <1>7, <1>8, <2>1 DEF RestoreFile
<1>9. CASE RestoreStart(t)
  BY <1>4, <1>6, <1>9 DEF RestoreStart
<1> QED BY <1>8, <1>9

\* A boot with --reset removes one file after the other.
LEMMA WipeStep ==
  ASSUME IInv, NEW t \in Thread,
         WipeConfig(t) \/ WipeLock(t) \/ WipeSignals(t) \/ Wiped(t)
  PROVE  IInv'
<1>1. /\ Types /\ Alone /\ LockMeansProject
      /\ DOMAIN job = Thread /\ cfg \in [Thread -> Texts \cup {None}]
  BY DEF IInv, Types
<1>2. alive /\ alive' = alive /\ pc[t] \in Wiping /\ pc[t] # "idle"
  BY DEF WipeConfig, WipeLock, WipeSignals, Wiped, At, Wiping
<1>3. wiping
  BY <1>2 DEF IInv, Prepared, Wiping
<1>4. CASE WipeConfig(t) \/ WipeLock(t)
  <2>1. /\ UNCHANGED <<pc, job, cfg, wiping>>
        /\ \/ configFile' = None /\ lockFile' = lockFile
           \/ lockFile' = FALSE /\ configFile' = configFile
    BY <1>4 DEF WipeConfig, WipeLock, thread
  <2>2. Types' /\ Alone' /\ LockMeansProject'
    BY <1>1, <1>3, <2>1 DEF Types, Alone, LockMeansProject
  <2>3. ASSUME NEW u \in Thread PROVE Prepared(u)'
    <3>1. CASE u = t
      <4>1. pc'[t] \in Wiping /\ wiping'
        BY <1>2, <1>3, <2>1
      <4> QED BY <3>1, <4>1 DEF Prepared, Wiping
    <3>2. CASE u # t
      <4>1. pc'[u] = "idle"
        BY <1>1, <1>2, <2>1, <3>2 DEF Alone
      <4> QED BY <4>1 DEF Prepared, Wiping
    <3> QED BY <3>1, <3>2
  <2> QED BY <1>2, <2>2, <2>3 DEF IInv
<1>5. CASE WipeSignals(t) \/ Wiped(t)
  <2>1. PICK step \in Wiping \cup {"idle"} :
          /\ pc' = [pc EXCEPT ![t] = step] /\ UNCHANGED <<job, cfg, configFile, lockFile>>
          /\ IF step = "idle" THEN ~lockFile ELSE wiping'
    <3>1. CASE WipeSignals(t)
      <4> DEFINE step == IF sigFile' = Nothing THEN "wipe" ELSE "wipeDevices"
      <4>1. step \in Wiping /\ step # "idle"
        BY DEF Wiping
      <4>2. /\ pc' = [pc EXCEPT ![t] = step]
            /\ UNCHANGED <<job, cfg, configFile, lockFile, wiping>>
        BY <3>1 DEF WipeSignals, Goes, Go
      <4> HIDE DEF step
      <4> QED BY <1>3, <4>1, <4>2
    <3>2. CASE Wiped(t)
      BY <3>2 DEF Wiped, Goes, Go
    <3> QED BY <1>5, <3>1, <3>2
  <2>2. step \in Steps
    BY <2>1 DEF Steps, Wiping
  <2>3. Moved(t, step)
    BY <1>1, <1>2, <2>1, <2>2, MovesAlone
  <2>4. Prepared(t)'
    BY <2>1, <2>3 DEF Moved, Prepared, Wiping
  <2>5. LockMeansProject' /\ configFile' \in Texts \cup {None}
    BY <1>1, <1>3, <2>1 DEF Types, LockMeansProject
  <2> QED BY <1>1, <1>2, <2>1, <2>2, <2>3, <2>4, <2>5, Advance
<1> QED BY <1>4, <1>5

\* Boots, crashes and the machine.
LEMMA MachineStep ==
  ASSUME IInv, Machine PROVE IInv'
<1>1. Types /\ LockMeansProject /\ (~alive => Idle) /\ \A t \in Thread : Prepared(t)
  BY DEF IInv
<1>2. CASE Crash
  BY <1>2, Dies DEF Crash
<1>3. CASE BootPlain
  BY <1>3, Rests DEF BootPlain, thread, disk
<1>4. CASE BootReset
  <2>1. CASE lockFile
    <3>1. "main" \in Thread /\ "wipe" \in Steps
      BY DEF Thread, Steps
    <3>2. /\ Idle /\ alive' /\ UNCHANGED <<configFile, lockFile, job, cfg>> /\ wiping'
          /\ pc' = [pc EXCEPT !["main"] = "wipe"]
      BY <1>1, <1>4, <2>1 DEF BootReset
    <3>3. pc' \in [Thread -> Steps] /\ pc'["main"] = "wipe"
      BY <1>1, <3>1, <3>2 DEF Types
    <3>4. \A u \in Thread \ {"main"} : pc'[u] = "idle"
      BY <1>1, <3>2 DEF Types, Idle
    <3>5. Moved("main", "wipe")
      BY <3>3, <3>4 DEF Moved, Alone
    <3>6. /\ DOMAIN job' = Thread /\ cfg' \in [Thread -> Texts \cup {None}]
          /\ configFile' \in Texts \cup {None}
      BY <1>1, <3>2 DEF Types
    <3>7. Prepared("main")' /\ LockMeansProject'
      BY <3>2, <3>3 DEF Prepared, Wiping, LockMeansProject
    <3> QED BY <3>1, <3>2, <3>5, <3>6, <3>7, Advance
  <2>2. CASE ~lockFile
    BY <1>4, <2>2, Rests DEF BootReset
  <2> QED BY <2>1, <2>2
<1>5. CASE BootRestore
  <2>1. CASE UNCHANGED thread
    BY <1>5, <2>1, Rests DEF BootRestore, thread, disk
  <2>2. CASE /\ configFile \notin {None, Torn}
             /\ job' = [job EXCEPT !["main"] = Restoring]
             /\ cfg' = [cfg EXCEPT !["main"] = configFile]
             /\ pc' = [pc EXCEPT !["main"] = "config"]
             /\ UNCHANGED <<left, vlansLeft, mine>>
    <3>1. "main" \in Thread /\ "config" \in Steps
      BY DEF Thread, Steps
    <3>2. Idle /\ alive' /\ UNCHANGED <<configFile, lockFile, wiping>>
      BY <1>1, <1>5 DEF BootRestore, disk
    <3>3. pc' \in [Thread -> Steps] /\ pc'["main"] = "config"
      BY <1>1, <2>2, <3>1 DEF Types
    <3>4. \A u \in Thread \ {"main"} : pc'[u] = "idle"
      BY <1>1, <2>2, <3>1, <3>2 DEF Types, Idle
    <3>5. Moved("main", "config")
      BY <3>3, <3>4 DEF Moved, Alone
    <3>6. DOMAIN job' = Thread
      BY <1>1, <2>2 DEF Types
    <3>7. cfg' \in [Thread -> Texts \cup {None}] /\ cfg'["main"] # None
      BY <1>1, <2>2, <3>1 DEF Types
    <3>8. Prepared("main")'
      BY <3>3, <3>7 DEF Prepared, Wiping
    <3>9. configFile' \in Texts \cup {None} /\ LockMeansProject'
      BY <1>1, <3>2 DEF Types, LockMeansProject
    <3> QED BY <3>1, <3>2, <3>5, <3>6, <3>7, <3>8, <3>9, Advance
  <2> QED BY <1>5, <2>1, <2>2 DEF BootRestore
<1>6. CASE \/ \E n \in Nic : Unplug(n) \/ Plug(n)
          \/ \E d \in Device : TakePort(d) \/ FreePort(d)
  <2>1. UNCHANGED <<alive, pc, job, cfg, configFile, lockFile, wiping>>
    BY <1>6 DEF Unplug, Plug, TakePort, FreePort, thread, disk
  <2> QED BY <1>1, <2>1, Rests
<1> QED BY <1>2, <1>3, <1>4, <1>5, <1>6 DEF Machine

\* With one client the invariant holds throughout.
LEMMA LifecycleStep ==
  ASSUME OneClient, IInv, [Next]_vars PROVE IInv'
<1>1. CASE \E t \in Worker : \E j \in Jobs[t] : Begin(t, j)
  BY <1>1, BeginStep
<1>2. ASSUME NEW t \in Thread, Step(t) PROVE IInv'
  <2>1. CASE Exit(t)
    BY <2>1, Dies DEF Exit
  <2> QED BY <1>2, <2>1, WriteStep, StartStep, StopStep, ResetStep, RestoreStep, WipeStep DEF Step
<1>3. CASE Machine
  BY <1>3, MachineStep
<1>4. CASE UNCHANGED vars
  <2>1. UNCHANGED <<alive, pc, job, cfg, configFile, lockFile, wiping>> /\ (alive \/ Idle)
    BY <1>4 DEF vars, IInv
  <2> QED BY <2>1, Rests
<1> QED BY <1>1, <1>2, <1>3, <1>4 DEF Next

\* IInv is inductive.
THEOREM LifecycleInductive ==
  ASSUME OneClient PROVE Spec => []IInv
<1>1. IInv /\ [Next]_vars => IInv'
  BY LifecycleStep
<1> QED BY <1>1, LifecycleInit, PTL DEF Spec

-----------------------------------------------------------------------------
\* Whatever fails, and wherever the process dies, one client never makes it leave a
\* lock file, which refuses a plain start, without a config file to restore: only a
\* boot with --reset does, cut short while it wipes both.
THEOREM LockIsOfProject ==
  ASSUME OneClient PROVE Spec => []LockMeansProject
<1>1. IInv => LockMeansProject
  BY DEF IInv
<1> QED BY <1>1, LifecycleInductive, PTL

-----------------------------------------------------------------------------
(***************************************************************************)
(* Types.                                                                  *)
(***************************************************************************)
\* The steps of a start, or of a change of interface, once the maps are built.
Making == {"verify", "links", "linkUp", "addrs", "servers", "bind"}
Saving == {"config", "writeConfig", "lock", "setConfig"}
Sending == {"signals", "writeSignals", "setSignals"}

\* What the locals of a thread and the config are known to be before a step.
Fits(t) ==
  /\ pc[t] \in {"lock", "setConfig"} => job[t].op \notin {"vlan", "change"}
  /\ pc[t] \in Saving /\ job[t].op \notin {"vlan", "change"} => cfg[t] \in Configs
  /\ pc[t] \in Sending => job[t].dev \in Device /\ job[t].list \in Lists
  /\ pc[t] \in Sending /\ job[t].op = "restore" => left[t] # <<>>
  /\ pc[t] \in {"maps", "rename"} \cup Making => config # None
  /\ pc[t] \in {"stopServers", "teardown", "read", "config", "writeConfig"} /\ job[t].op = "change"
       => config # None
  /\ pc[t] \in {"read", "config", "writeConfig", "maps"} \cup Making /\ job[t].op = "change"
       => job[t].old \in Nic
  /\ pc[t] = "read" => job[t].op \in {"vlan", "change"}
  /\ pc[t] = "next" => job[t].op = "restore"
  /\ pc[t] \in {"links", "linkUp"} => vlansLeft[t] # {}
  /\ pc[t] \in {"links", "linkUp", "addrs"} => left[t] # <<>>

ProcessTypes ==
  /\ alive \in BOOLEAN /\ root \in BOOLEAN /\ state \in {"SETUP", "RUNNING", "STOPPING"}
  /\ config \in Configs \cup {None} /\ locked \in BOOLEAN /\ startError \in BOOLEAN
  /\ loaded \in [Device -> Lists \cup {None}]
  /\ live \in [Device -> Lists \cup {None}]
  /\ network \in Thread \cup {None} /\ current \in Thread \cup {"first"}
ObjectTypes ==
  /\ managers \in [Thread -> Managers]
  /\ servers \in [Thread \cup {"first"} -> SUBSET Device]
  /\ listening \subseteq Device
DiskTypes ==
  lockFile \in BOOLEAN /\ wiping \in BOOLEAN /\ sigFile \in [Device -> Lists \cup {None, Torn}]
MachineTypes ==
  nics \subseteq Nic /\ links \subseteq Links /\ addrs \subseteq Addrs /\ taken \subseteq Busy
LocalTypes ==
  /\ left \in [Thread -> Seq(Device)]
  /\ vlansLeft \in [Thread -> SUBSET Vlans]
  /\ mine \in [Thread -> Thread \cup {"first"}]

TInv ==
  /\ IInv
  /\ ProcessTypes /\ ObjectTypes /\ DiskTypes /\ MachineTypes /\ LocalTypes
  /\ state = "RUNNING" => config # None
  /\ \A t \in Thread : Fits(t)

LEMMA TypesTogether == TInv => TypeOK
BY DEF TInv, IInv, Types, Texts, ProcessTypes, ObjectTypes, DiskTypes, MachineTypes,
       LocalTypes, TypeOK

\* ---- facts about the data
LEMMA DevicesSeq == Devices \in Seq(Device) /\ Devices # <<>> /\ Device # {}
BY NetworkAssumption DEF Device

LEMMA HeadTail ==
  ASSUME NEW S, NEW s \in Seq(S), s # <<>>
  PROVE  /\ Head(s) \in S /\ Tail(s) \in Seq(S)
         /\ Len(s) \in Nat /\ Len(Tail(s)) = Len(s) - 1
BY HeadTailProperties

\* A set of VLANs that is not empty has a first one.
LEMMA FirstVlan ==
  ASSUME NEW V, V \subseteq Vlans, V # {}
  PROVE  \E v \in V : \A w \in V : v <= w
<1>1. V \subseteq Nat
  BY NetworkAssumption DEF Vlans
<1>2. IsWellFoundedOn(OpToRel(<, Nat), Nat)
  BY NatLessThanWellFounded
<1>3. PICK v \in V : \A w \in V : <<w, v>> \notin OpToRel(<, Nat)
  BY <1>1, <1>2, WFMin
<1>4. ASSUME NEW w \in V, w < v PROVE FALSE
  <2>1. <<w, v>> \in {ss \in Nat \X Nat : ss[1] < ss[2]}
    BY <1>1, <1>4
  <2>2. <<w, v>> \in OpToRel(<, Nat)
    BY <2>1, Zenon DEF OpToRel
  <2> QED BY <1>3, <2>2
<1>5. \A w \in V : v <= w
  BY <1>1, <1>4
<1> QED BY <1>5

LEMMA NextVlanLeft ==
  ASSUME NEW t \in Thread, vlansLeft[t] \subseteq Vlans, vlansLeft[t] # {}
  PROVE  NextVlan(t) \in vlansLeft[t]
BY FirstVlan DEF NextVlan

LEMMA NicInConfig ==
  ASSUME config \in Configs
  PROVE  config.nic \in Nic /\ config.vlan \in BOOLEAN
BY DEF Configs

LEMMA NextLinkIn ==
  ASSUME NEW t \in Thread, vlansLeft[t] \subseteq Vlans, vlansLeft[t] # {}, config \in Configs
  PROVE  NextLink(t) \in Links
BY NextVlanLeft, NicInConfig DEF NextLink, Links

LEMMA TargetIn ==
  ASSUME NEW c \in Configs, NEW d \in Device
  PROVE  <<d, Target(c, d)>> \in Addrs
<1>1. c.nic \in Nic /\ c.vlan \in BOOLEAN
  BY DEF Configs
<1>2. VlanOf[d] \in Vlans \cup {0}
  BY DEF Vlans
<1> QED BY <1>1, <1>2 DEF Target, Addrs, Interface

LEMMA RenamedConfig ==
  ASSUME NEW n \in Nic, config \in Configs
  PROVE  [config EXCEPT !.nic = n] \in Configs
BY DEF Configs

LEMMA NothingTyped == Nothing \in [Device -> Lists \cup {None}]
BY DEF Nothing

-----------------------------------------------------------------------------
\* What is left to show after a step of t.
LEMMA FitsAlone ==
  ASSUME NEW t \in Thread, NEW step \in Steps, Moved(t, step), Fits(t)'
  PROVE  \A u \in Thread : Fits(u)'
<1> SUFFICES ASSUME NEW u \in Thread, u # t PROVE Fits(u)'
  OBVIOUS
<1>1. pc'[u] = "idle"
  BY DEF Moved
<1> QED BY <1>1 DEF Fits, Saving, Sending, Making

\* Nothing this invariant speaks of has changed for the threads.
LEMMA FitsKept ==
  ASSUME TInv, UNCHANGED <<pc, job, cfg, left, vlansLeft, config>>
  PROVE  \A u \in Thread : Fits(u)'
BY DEF TInv, Fits

LEMMA DoneLocals ==
  ASSUME TInv, NEW t \in Thread, Done(t)
  PROVE  LocalTypes'
<1>1. <<>> \in Seq(Device) /\ {} \in SUBSET Vlans
  OBVIOUS
<1>2. left' = [left EXCEPT ![t] = <<>>] /\ vlansLeft' = [vlansLeft EXCEPT ![t] = {}]
      /\ mine' = [mine EXCEPT ![t] = "first"]
  BY DEF Done
<1> QED BY <1>1, <1>2 DEF TInv, LocalTypes

LEMMA DoneFits ==
  ASSUME IInv, NEW t \in Thread, pc[t] # "idle", Done(t)
  PROVE  \A u \in Thread : Fits(u)'
<1>1. "idle" \in Steps /\ pc' = [pc EXCEPT ![t] = "idle"]
  BY DEF Done, Go, Steps
<1>2. Moved(t, "idle")
  BY <1>1, MovesAlone DEF IInv
<1>3. Fits(t)'
  BY <1>2 DEF Moved, Fits, Saving, Sending, Making
<1> QED BY <1>1, <1>2, <1>3, FitsAlone

LEMMA GoesFits ==
  ASSUME IInv, NEW t \in Thread, pc[t] # "idle", NEW step \in Steps,
         Go(t, step), Moved(t, step) => Fits(t)'
  PROVE  \A u \in Thread : Fits(u)'
<1>1. Moved(t, step)
  BY MovesAlone DEF IInv, Go
<1> QED BY <1>1, FitsAlone

\* What a step leaves alone keeps its type.
LEMMA Untouched ==
  ASSUME TInv
  PROVE  /\ UNCHANGED <<alive, root, process>> => ProcessTypes' /\ (state' = "RUNNING" => config' # None)
         /\ UNCHANGED objects => ObjectTypes'
         /\ UNCHANGED disk => DiskTypes'
         /\ UNCHANGED machine => MachineTypes'
         /\ UNCHANGED <<left, vlansLeft, mine>> => LocalTypes'
BY DEF TInv, process, objects, disk, machine, ProcessTypes, ObjectTypes, DiskTypes,
       MachineTypes, LocalTypes

LEMMA TInvInit == Init => TInv
<1> SUFFICES ASSUME Init PROVE TInv
  OBVIOUS
<1>1. \A t \in Thread : pc[t] = "idle"
  BY DEF Init
<1>2. \A t \in Thread : Fits(t)
  BY <1>1 DEF Fits, Saving, Sending, Making
<1>3. ProcessTypes /\ (state = "RUNNING" => config # None)
  BY NothingTyped DEF Init, ProcessTypes
<1>4. NewManager \in Managers
  BY DEF NewManager, Managers
<1>5. ObjectTypes
  BY <1>4 DEF Init, ObjectTypes
<1>6. DiskTypes
  BY NothingTyped DEF Init, DiskTypes, Nothing
<1>7. MachineTypes
  BY DEF Init, MachineTypes
<1>8. <<>> \in Seq(Device) /\ {} \in SUBSET Vlans
  OBVIOUS
<1>9. LocalTypes
  BY <1>8 DEF Init, LocalTypes
<1> QED BY <1>2, <1>3, <1>5, <1>6, <1>7, <1>9, LifecycleInit DEF TInv

\* Requests that begin.
LEMMA BeginTypes ==
  ASSUME OneClient, TInv, IInv', NEW t \in Worker, NEW j \in Jobs[t], Begin(t, j)
  PROVE  TInv'
<1>1. /\ t \in Thread /\ IInv /\ Types /\ ProcessTypes
      /\ (state = "RUNNING" => config # None)
  BY DEF Thread, IInv, TInv
<1>2. /\ UNCHANGED <<objects, disk, machine, left, vlansLeft, mine>>
      /\ UNCHANGED <<alive, root, locked, loaded, live, network, current>>
  BY DEF Begin, BeginConfig, BeginSignals, BeginVlanMode, StartRefused, BeginStart,
         BeginReset, BeginChange, BeginStop, process, thread
<1>3. ObjectTypes' /\ DiskTypes' /\ MachineTypes' /\ LocalTypes'
  BY <1>2, Untouched
<1>4. ASSUME NEW step \in Steps, Take(t, j, step), Moved(t, step) /\ job'[t] = j => Fits(t)'
      PROVE  \A u \in Thread : Fits(u)'
  <2>1. Moved(t, step)
    BY <1>1, <1>4, TakesAlone
  <2>2. job'[t] = j
    BY <1>1, <1>4 DEF Take, Types
  <2> QED BY <1>1, <1>4, <2>1, <2>2, FitsAlone
<1>5. /\ "config" \in Steps /\ "signals" \in Steps /\ "read" \in Steps
      /\ "maps" \in Steps /\ "stopServers" \in Steps
  BY DEF Steps
<1>6. CASE StartRefused(t, j)
  <2>1. UNCHANGED <<pc, job, cfg, left, vlansLeft, config>>
    BY <1>6 DEF StartRefused, thread
  <2>2. ProcessTypes' /\ (state' = "RUNNING" => config' # None)
    BY <1>1, <1>6 DEF StartRefused, ProcessTypes
  <2> QED BY <1>3, <2>1, <2>2, FitsKept DEF TInv
<1>7. CASE BeginConfig(t, j)
  <2>1. Take(t, j, "config") /\ cfg' = [cfg EXCEPT ![t] = j.cfg] /\ j.cfg \in Configs
    BY <1>7, JobsAssumption DEF BeginConfig
  <2>2. cfg'[t] \in Configs /\ j.op = "config"
    BY <1>1, <1>7, <2>1 DEF Types, BeginConfig
  <2>3. ASSUME Moved(t, "config"), job'[t] = j PROVE Fits(t)'
    BY <2>2, <2>3 DEF Moved, Fits, Saving, Sending, Making
  <2>4. \A u \in Thread : Fits(u)'
    BY <1>4, <1>5, <2>1, <2>3
  <2>5. UNCHANGED <<alive, root, process>>
    BY <1>7 DEF BeginConfig
  <2> QED BY <1>3, <2>4, <2>5, Untouched DEF TInv
<1>8. CASE BeginSignals(t, j)
  <2>1. /\ Take(t, j, "signals") /\ j.op = "signals"
        /\ j.dev \in Device /\ j.list \in Lists
    BY <1>8, JobsAssumption DEF BeginSignals
  <2>2. ASSUME Moved(t, "signals"), job'[t] = j PROVE Fits(t)'
    BY <2>1, <2>2 DEF Moved, Fits, Saving, Sending, Making
  <2>3. \A u \in Thread : Fits(u)'
    BY <1>4, <1>5, <2>1, <2>2
  <2>4. UNCHANGED <<alive, root, process>>
    BY <1>8 DEF BeginSignals
  <2> QED BY <1>3, <2>3, <2>4, Untouched DEF TInv
<1>9. CASE BeginVlanMode(t, j)
  <2>1. Take(t, j, "read") /\ j.op = "vlan" /\ j.vlan \in BOOLEAN /\ config # None
    BY <1>9, JobsAssumption DEF BeginVlanMode
  <2>2. ASSUME Moved(t, "read"), job'[t] = j PROVE Fits(t)'
    BY <2>1, <2>2 DEF Moved, Fits, Saving, Sending, Making
  <2>3. \A u \in Thread : Fits(u)'
    BY <1>4, <1>5, <2>1, <2>2
  <2>4. config' \in Configs
    BY <1>1, <1>9, <2>1 DEF BeginVlanMode, ProcessTypes, Configs
  <2>5. ProcessTypes' /\ (state' = "RUNNING" => config' # None)
    BY <1>1, <1>9, <2>4, LifecycleAssumption DEF BeginVlanMode, ProcessTypes
  <2> QED BY <1>3, <2>3, <2>5 DEF TInv
<1>10. CASE BeginStart(t, j)
  <2>1. Take(t, j, "maps") /\ j.op = "start" /\ config' # None
    BY <1>10 DEF BeginStart, Ready
  <2>2. ASSUME Moved(t, "maps"), job'[t] = j PROVE Fits(t)'
    BY <2>1, <2>2 DEF Moved, Fits, Saving, Sending, Making
  <2>3. \A u \in Thread : Fits(u)'
    BY <1>4, <1>5, <2>1, <2>2
  <2>4. ProcessTypes' /\ (state' = "RUNNING" => config' # None)
    BY <1>1, <1>10 DEF BeginStart, ProcessTypes
  <2> QED BY <1>3, <2>3, <2>4 DEF TInv
<1>11. CASE BeginReset(t, j) \/ BeginChange(t, j) \/ BeginStop(t, j)
  <2>1. Take(t, j, "stopServers") /\ (j.op = "change" => config' # None)
    BY <1>1, <1>11 DEF BeginReset, BeginChange, BeginStop, process
  <2>2. ASSUME Moved(t, "stopServers"), job'[t] = j PROVE Fits(t)'
    BY <2>1, <2>2 DEF Moved, Fits, Saving, Sending, Making
  <2>3. \A u \in Thread : Fits(u)'
    BY <1>4, <1>5, <2>1, <2>2
  <2>4. ProcessTypes' /\ (state' = "RUNNING" => config' # None)
    BY <1>1, <1>11 DEF BeginReset, BeginChange, BeginStop, ProcessTypes, process
  <2> QED BY <1>3, <2>3, <2>4 DEF TInv
<1> QED BY <1>6, <1>7, <1>8, <1>9, <1>10, <1>11 DEF Begin

-----------------------------------------------------------------------------
\* Writing the config, the lock and the signals.
LEMMA WriteTypes ==
  ASSUME TInv, IInv', NEW t \in Thread,
         \/ EmptyConfig(t) \/ WriteConfig(t) \/ WriteLock(t) \/ SetConfig(t)
         \/ EmptySignals(t) \/ WriteSignals(t) \/ SetSignals(t) \/ ReadConfig(t)
  PROVE  TInv'
<1>1. /\ IInv /\ Types /\ ProcessTypes /\ DiskTypes /\ LocalTypes /\ Fits(t)
      /\ (state = "RUNNING" => config # None)
  BY DEF IInv, TInv
<1>2. alive /\ pc[t] # "idle" /\ UNCHANGED <<objects, machine, alive, root, state>>
  BY DEF EmptyConfig, WriteConfig, WriteLock, SetConfig, EmptySignals, WriteSignals,
         SetSignals, ReadConfig, At, process
<1>3. ObjectTypes' /\ MachineTypes'
  BY <1>2, Untouched
<1>4. ASSUME NEW step \in Steps, Go(t, step), Moved(t, step) => Fits(t)'
      PROVE  \A u \in Thread : Fits(u)'
  BY <1>1, <1>2, <1>4, GoesFits
<1>5. ASSUME Done(t) PROVE LocalTypes' /\ \A u \in Thread : Fits(u)'
  BY <1>1, <1>2, <1>5, DoneLocals, DoneFits
<1>6. /\ "writeConfig" \in Steps /\ "maps" \in Steps /\ "lock" \in Steps
      /\ "setConfig" \in Steps /\ "writeSignals" \in Steps /\ "setSignals" \in Steps
      /\ "next" \in Steps /\ "config" \in Steps
  BY DEF Steps
<1>7. CASE EmptyConfig(t)
  <2>1. /\ Go(t, "writeConfig") /\ UNCHANGED <<job, cfg, left, vlansLeft, mine>>
        /\ UNCHANGED <<alive, root, process, lockFile, sigFile>> /\ pc[t] = "config" /\ wiping' = FALSE
    BY <1>7 DEF EmptyConfig, Goes, At
  <2>2. UNCHANGED config
    BY <2>1 DEF process
  <2>3. ASSUME Moved(t, "writeConfig") PROVE Fits(t)'
    BY <1>1, <2>1, <2>2, <2>3 DEF Moved, Fits, Saving, Sending, Making
  <2>4. \A u \in Thread : Fits(u)'
    BY <1>4, <1>6, <2>1, <2>3
  <2>5. DiskTypes'
    BY <1>1, <2>1 DEF DiskTypes
  <2> QED BY <1>3, <2>1, <2>4, <2>5, Untouched DEF TInv
<1>8. CASE WriteConfig(t)
  <2>1. /\ UNCHANGED <<alive, root, process, lockFile, sigFile, wiping>> /\ pc[t] = "writeConfig"
        /\ AfterWrite(t)
    BY <1>8 DEF WriteConfig, At
  <2>2. UNCHANGED config /\ DiskTypes'
    BY <1>1, <2>1 DEF process, DiskTypes
  <2>3. LocalTypes' /\ \A u \in Thread : Fits(u)'
    <3>1. CASE Done(t)
      BY <1>5, <3>1
    <3>2. CASE job[t].op # "vlan" /\ Goes(t, IF job[t].op = "change" THEN "maps" ELSE "lock")
      <4> DEFINE step == IF job[t].op = "change" THEN "maps" ELSE "lock"
      <4>1. Go(t, step) /\ UNCHANGED <<job, cfg, left, vlansLeft, mine>>
        BY <3>2 DEF Goes
      <4>2. step \in Steps
        BY <1>6
      <4>3. \/ job[t].op = "change" /\ step = "maps"
            \/ job[t].op # "change" /\ step = "lock"
        OBVIOUS
      <4> HIDE DEF step
      <4>4. ASSUME Moved(t, step) PROVE Fits(t)'
        BY <1>1, <2>1, <2>2, <3>2, <4>1, <4>3, <4>4 DEF Moved, Fits, Saving, Sending, Making
      <4>5. \A u \in Thread : Fits(u)'
        BY <1>4, <4>1, <4>2, <4>4
      <4> QED BY <4>1, <4>5, Untouched
    <3> QED BY <2>1, <3>1, <3>2 DEF AfterWrite
  <2> QED BY <1>3, <2>1, <2>2, <2>3, Untouched DEF TInv
<1>9. CASE WriteLock(t)
  <2>1. /\ Go(t, "setConfig") /\ UNCHANGED <<job, cfg, left, vlansLeft, mine>>
        /\ UNCHANGED <<alive, root, process, sigFile, wiping>> /\ pc[t] = "lock" /\ lockFile' = TRUE
    BY <1>9 DEF WriteLock, Goes, At
  <2>2. UNCHANGED config
    BY <2>1 DEF process
  <2>3. ASSUME Moved(t, "setConfig") PROVE Fits(t)'
    BY <1>1, <2>1, <2>2, <2>3 DEF Moved, Fits, Saving, Sending, Making
  <2>4. \A u \in Thread : Fits(u)'
    BY <1>4, <1>6, <2>1, <2>3
  <2>5. DiskTypes'
    BY <1>1, <2>1 DEF DiskTypes
  <2> QED BY <1>3, <2>1, <2>4, <2>5, Untouched DEF TInv
<1>10. CASE SetConfig(t)
  <2>1. /\ pc[t] = "setConfig" /\ config' = cfg[t] /\ locked' = TRUE /\ UNCHANGED disk
        /\ UNCHANGED <<alive, root, state, loaded, live, startError, network, current>>
    BY <1>10 DEF SetConfig, At
  <2>2. cfg[t] \in Configs
    BY <1>1, <2>1 DEF Fits, Saving
  <2>3. ProcessTypes' /\ (state' = "RUNNING" => config' # None)
    BY <1>1, <2>1, <2>2, LifecycleAssumption DEF ProcessTypes
  <2>4. LocalTypes' /\ \A u \in Thread : Fits(u)'
    <3>1. CASE Done(t)
      BY <1>5, <3>1
    <3>2. CASE /\ Restores(t) /\ Go(t, "next") /\ left' = [left EXCEPT ![t] = Devices]
               /\ UNCHANGED <<job, cfg, vlansLeft, mine>>
      <4>1. ASSUME Moved(t, "next") PROVE Fits(t)'
        BY <3>2, <4>1 DEF Restores, Moved, Fits, Saving, Sending, Making
      <4>2. LocalTypes'
        BY <1>1, <3>2, DevicesSeq DEF LocalTypes
      <4> QED BY <1>4, <1>6, <3>2, <4>1, <4>2
    <3> QED BY <1>10, <3>1, <3>2 DEF SetConfig
  <2> QED BY <1>3, <2>1, <2>3, <2>4, Untouched DEF TInv
<1>11. CASE EmptySignals(t)
  <2>1. /\ Go(t, "writeSignals") /\ UNCHANGED <<job, cfg, left, vlansLeft, mine>>
        /\ UNCHANGED <<alive, root, process, lockFile, wiping>> /\ pc[t] = "signals"
        /\ sigFile' = [sigFile EXCEPT ![job[t].dev] = Torn]
    BY <1>11 DEF EmptySignals, Goes, At
  <2>2. UNCHANGED config
    BY <2>1 DEF process
  <2>3. ASSUME Moved(t, "writeSignals") PROVE Fits(t)'
    BY <1>1, <2>1, <2>2, <2>3 DEF Moved, Fits, Saving, Sending, Making
  <2>4. \A u \in Thread : Fits(u)'
    BY <1>4, <1>6, <2>1, <2>3
  <2>5. DiskTypes'
    BY <1>1, <2>1 DEF DiskTypes
  <2> QED BY <1>3, <2>1, <2>4, <2>5, Untouched DEF TInv
<1>12. CASE WriteSignals(t)
  <2>1. /\ Go(t, "setSignals") /\ UNCHANGED <<job, cfg, left, vlansLeft, mine>>
        /\ UNCHANGED <<alive, root, process, lockFile, wiping>> /\ pc[t] = "writeSignals"
        /\ sigFile' = [sigFile EXCEPT ![job[t].dev] = job[t].list]
    BY <1>12 DEF WriteSignals, Goes, At
  <2>2. UNCHANGED config /\ job[t].list \in Lists
    BY <1>1, <2>1 DEF process, Fits, Sending
  <2>3. ASSUME Moved(t, "setSignals") PROVE Fits(t)'
    BY <1>1, <2>1, <2>2, <2>3 DEF Moved, Fits, Saving, Sending, Making
  <2>4. \A u \in Thread : Fits(u)'
    BY <1>4, <1>6, <2>1, <2>3
  <2>5. DiskTypes'
    BY <1>1, <2>1, <2>2 DEF DiskTypes
  <2> QED BY <1>3, <2>1, <2>4, <2>5, Untouched DEF TInv
<1>13. CASE SetSignals(t)
  <2>1. /\ pc[t] = "setSignals" /\ loaded' = [loaded EXCEPT ![job[t].dev] = job[t].list]
        /\ UNCHANGED <<alive, root, state, config, locked, live, startError, network, current>>
        /\ UNCHANGED disk
    BY <1>13 DEF SetSignals, At
  <2>2. /\ job[t].dev \in Device /\ job[t].list \in Lists
        /\ (job[t].op = "restore" => left[t] # <<>>)
    BY <1>1, <2>1 DEF Fits, Sending
  <2>3. ProcessTypes' /\ (state' = "RUNNING" => config' # None)
    BY <1>1, <2>1, <2>2 DEF ProcessTypes
  <2>4. LocalTypes' /\ \A u \in Thread : Fits(u)'
    <3>1. CASE Done(t)
      BY <1>5, <3>1
    <3>2. CASE /\ Restores(t) /\ Go(t, "next") /\ left' = [left EXCEPT ![t] = Tail(@)]
               /\ UNCHANGED <<job, cfg, vlansLeft, mine>>
      <4>1. ASSUME Moved(t, "next") PROVE Fits(t)'
        BY <3>2, <4>1 DEF Restores, Moved, Fits, Saving, Sending, Making
      <4>2. left[t] \in Seq(Device) /\ left[t] # <<>>
        BY <1>1, <2>2, <3>2 DEF LocalTypes, Restores
      <4>3. Tail(left[t]) \in Seq(Device)
        BY <4>2, HeadTail
      <4>4. LocalTypes'
        BY <1>1, <3>2, <4>3 DEF LocalTypes
      <4> QED BY <1>4, <1>6, <3>2, <4>1, <4>4
    <3> QED BY <1>13, <3>1, <3>2 DEF SetSignals
  <2> QED BY <1>3, <2>1, <2>3, <2>4, Untouched DEF TInv
<1>14. CASE ReadConfig(t)
  <2>1. pc[t] = "read" /\ UNCHANGED <<alive, root, process, disk>>
    BY <1>14 DEF ReadConfig, At
  <2>2. LocalTypes' /\ \A u \in Thread : Fits(u)'
    <3>1. CASE Done(t)
      BY <1>5, <3>1
    <3>2. CASE /\ Go(t, "config") /\ UNCHANGED <<job, left, vlansLeft, mine>>
      <4>1. UNCHANGED config
        BY <2>1 DEF process
      <4>2. ASSUME Moved(t, "config") PROVE Fits(t)'
        BY <1>1, <2>1, <3>2, <4>1, <4>2 DEF Moved, Fits, Saving, Sending, Making
      <4> QED BY <1>4, <1>6, <3>2, <4>2, Untouched
    <3> QED BY <1>14, <3>1, <3>2 DEF ReadConfig
  <2> QED BY <1>3, <2>1, <2>2, Untouched DEF TInv
<1> QED BY <1>7, <1>8, <1>9, <1>10, <1>11, <1>12, <1>13, <1>14

-----------------------------------------------------------------------------
\* setup raised.
LEMMA SetupFailsTypes ==
  ASSUME TInv, IInv', NEW t \in Thread, pc[t] \in Making, SetupFails(t)
  PROVE  TInv'
<1>1. IInv /\ ProcessTypes /\ Fits(t) /\ (state = "RUNNING" => config # None)
  BY DEF TInv
<1>2. pc[t] # "idle" /\ Done(t) /\ UNCHANGED <<objects, disk, machine>>
  BY DEF Making, SetupFails
<1>3. LocalTypes' /\ \A u \in Thread : Fits(u)'
  BY <1>1, <1>2, DoneLocals, DoneFits
<1>4. config \in Configs
  BY <1>1 DEF Fits, ProcessTypes
<1>5. CASE job[t].op = "change"
  <2>1. job[t].old \in Nic
    BY <1>1, <1>5 DEF Fits
  <2>2. /\ config' = [config EXCEPT !.nic = job[t].old]
        /\ UNCHANGED <<alive, root, state, locked, loaded, network, current, live, startError>>
    BY <1>5 DEF SetupFails
  <2>3. config' \in Configs
    BY <1>4, <2>1, <2>2, RenamedConfig
  <2>4. ProcessTypes' /\ (state' = "RUNNING" => config' # None)
    BY <1>1, <2>2, <2>3, LifecycleAssumption DEF ProcessTypes
  <2> QED BY <1>2, <1>3, <2>4, Untouched DEF TInv
<1>6. CASE job[t].op # "change"
  <2>1. /\ live' = Nothing /\ startError' = TRUE
        /\ UNCHANGED <<alive, root, state, locked, loaded, network, current, config>>
    BY <1>6 DEF SetupFails
  <2>2. ProcessTypes' /\ (state' = "RUNNING" => config' # None)
    BY <1>1, <2>1, NothingTyped DEF ProcessTypes
  <2> QED BY <1>2, <1>3, <2>2, Untouched DEF TInv
<1> QED BY <1>5, <1>6

\* start: maps and network.
LEMMA SetupTypes ==
  ASSUME TInv, IInv', NEW t \in Thread,
         BuildMaps(t) \/ Verify(t) \/ AddLink(t) \/ LinkUp(t) \/ AssignIp(t)
  PROVE  TInv'
<1>1. /\ IInv /\ Types /\ ProcessTypes /\ ObjectTypes /\ MachineTypes /\ LocalTypes /\ Fits(t)
      /\ (state = "RUNNING" => config # None)
  BY DEF IInv, TInv
<1>2. alive /\ pc[t] # "idle" /\ UNCHANGED disk /\ pc[t] \in {"maps"} \cup Making
  BY DEF BuildMaps, Verify, AddLink, LinkUp, AssignIp, SetupFails, At, Making
<1>3. DiskTypes' /\ config \in Configs
  BY <1>1, <1>2, Untouched DEF Fits, ProcessTypes
<1>4. ASSUME NEW step \in Steps, Go(t, step), Moved(t, step) => Fits(t)'
      PROVE  \A u \in Thread : Fits(u)'
  BY <1>1, <1>2, <1>4, GoesFits
<1>5. /\ "verify" \in Steps /\ "servers" \in Steps /\ "links" \in Steps
      /\ "addrs" \in Steps /\ "linkUp" \in Steps
  BY DEF Steps
<1>6. CASE SetupFails(t) /\ pc[t] \in Making
  BY <1>6, SetupFailsTypes
<1>7. CASE BuildMaps(t)
  <2>1. /\ pc[t] = "maps" /\ live' = (IF job[t].op = "change" THEN live ELSE loaded)
        /\ UNCHANGED <<alive, root, state, config, locked, loaded, startError, current>>
        /\ UNCHANGED <<servers, listening, machine>>
    BY <1>7 DEF BuildMaps, At
  <2>2. NewManager \in Managers
    BY DEF NewManager, Managers
  <2>3. /\ network' \in Thread \cup {None} /\ managers' \in [Thread -> Managers]
    BY <1>1, <1>7, <2>2 DEF BuildMaps, ProcessTypes, ObjectTypes
  <2>4. ObjectTypes'
    BY <1>1, <2>1, <2>3 DEF ObjectTypes
  <2>5. ProcessTypes' /\ (state' = "RUNNING" => config' # None)
    BY <1>1, <2>1, <2>3 DEF ProcessTypes
  <2>6. PICK step \in {"verify", "servers"} : Goes(t, step)
    BY <1>7 DEF BuildMaps
  <2>7. Go(t, step) /\ UNCHANGED <<job, cfg, left, vlansLeft, mine>>
    BY <2>6 DEF Goes
  <2>8. ASSUME Moved(t, step) PROVE Fits(t)'
    BY <1>1, <2>1, <2>6, <2>7, <2>8 DEF Moved, Fits, Saving, Sending, Making
  <2>9. \A u \in Thread : Fits(u)'
    BY <1>4, <1>5, <2>6, <2>7, <2>8
  <2> QED BY <1>3, <2>1, <2>4, <2>5, <2>7, <2>9, Untouched DEF TInv
<1>8. CASE /\ Verify(t) /\ ~SetupFails(t)
  <2> DEFINE step == IF vlansLeft'[t] = {} THEN "addrs" ELSE "links"
  <2>1. /\ pc[t] = "verify" /\ Go(t, step)
        /\ vlansLeft' = [vlansLeft EXCEPT ![t] = VlansToMake(config)]
        /\ left' = [left EXCEPT ![t] = Devices]
        /\ UNCHANGED <<alive, root, process, objects, machine, job, cfg, mine>>
    BY <1>8 DEF Verify, At
  <2>2. VlansToMake(config) \in SUBSET Vlans
    BY DEF VlansToMake
  <2>3. LocalTypes' /\ left'[t] # <<>>
    BY <1>1, <2>1, <2>2, DevicesSeq DEF LocalTypes
  <2>4. step = "addrs" \/ (step = "links" /\ vlansLeft'[t] # {})
    OBVIOUS
  <2>5. UNCHANGED config
    BY <2>1 DEF process
  <2> HIDE DEF step
  <2>6. ASSUME Moved(t, step) PROVE Fits(t)'
    BY <1>1, <2>1, <2>3, <2>4, <2>5, <2>6 DEF Moved, Fits, Saving, Sending, Making
  <2>7. \A u \in Thread : Fits(u)'
    BY <1>4, <1>5, <2>1, <2>4, <2>6
  <2> QED BY <1>3, <2>1, <2>3, <2>7, Untouched DEF TInv
<1>9. CASE /\ AddLink(t) /\ ~SetupFails(t)
  <2>1. /\ pc[t] = "links" /\ links' = links \cup {NextLink(t)} /\ Go(t, "linkUp")
        /\ UNCHANGED <<alive, root, process, objects, nics, addrs, taken>>
        /\ UNCHANGED <<job, cfg, left, vlansLeft, mine>>
    BY <1>9 DEF AddLink, At, Goes
  <2>2. vlansLeft[t] \subseteq Vlans /\ vlansLeft[t] # {} /\ left[t] # <<>>
    BY <1>1, <2>1 DEF LocalTypes, Fits
  <2>3. NextLink(t) \in Links
    BY <1>3, <2>2, NextLinkIn
  <2>4. MachineTypes'
    BY <1>1, <2>1, <2>3 DEF MachineTypes
  <2>5. UNCHANGED config
    BY <2>1 DEF process
  <2>6. ASSUME Moved(t, "linkUp") PROVE Fits(t)'
    BY <1>1, <2>1, <2>2, <2>5, <2>6 DEF Moved, Fits, Saving, Sending, Making
  <2>7. \A u \in Thread : Fits(u)'
    BY <1>4, <1>5, <2>1, <2>6
  <2> QED BY <1>3, <2>1, <2>4, <2>7, Untouched DEF TInv
<1>10. CASE LinkUp(t) /\ ~SetupFails(t)
  <2> DEFINE step == IF vlansLeft'[t] = {} THEN "addrs" ELSE "links"
  <2> DEFINE kept == [managers[t] EXCEPT !.links = @ \cup {NextLink(t)}]
  <2>1. /\ pc[t] = "linkUp" /\ Go(t, step)
        /\ managers' = [managers EXCEPT ![t].links = @ \cup {NextLink(t)}]
        /\ vlansLeft' = [vlansLeft EXCEPT ![t] = @ \ {NextVlan(t)}]
        /\ UNCHANGED <<alive, root, process, servers, listening, machine, job, cfg, left, mine>>
    BY <1>10 DEF LinkUp, At
  <2>2. vlansLeft[t] \subseteq Vlans /\ vlansLeft[t] # {} /\ left[t] # <<>>
    BY <1>1, <2>1 DEF LocalTypes, Fits
  <2>3. NextLink(t) \in Links
    BY <1>3, <2>2, NextLinkIn
  <2>4. managers' = [managers EXCEPT ![t] = kept]
    BY <1>1, <2>1 DEF ObjectTypes
  <2>5. kept \in Managers
    BY <1>1, <2>3 DEF ObjectTypes, Managers
  <2>6. step = "addrs" \/ (step = "links" /\ vlansLeft'[t] # {})
    OBVIOUS
  <2> HIDE DEF step, kept
  <2>7. ObjectTypes'
    BY <1>1, <2>1, <2>4, <2>5 DEF ObjectTypes
  <2>8. LocalTypes'
    BY <1>1, <2>1 DEF LocalTypes
  <2>9. UNCHANGED config
    BY <2>1 DEF process
  <2>10. ASSUME Moved(t, step) PROVE Fits(t)'
    BY <1>1, <2>1, <2>2, <2>6, <2>9, <2>10 DEF Moved, Fits, Saving, Sending, Making
  <2>11. \A u \in Thread : Fits(u)'
    BY <1>4, <1>5, <2>1, <2>6, <2>10
  <2> QED BY <1>3, <2>1, <2>7, <2>8, <2>11, Untouched DEF TInv
<1>11. CASE AssignIp(t) /\ ~SetupFails(t)
  <2> DEFINE a == <<Head(left[t]), Target(config, Head(left[t]))>>
             step == IF Len(left[t]) > 1 THEN "addrs" ELSE "servers"
             kept == [managers[t] EXCEPT !.addrs = @ \cup {a}]
  <2>1. /\ pc[t] = "addrs" /\ Go(t, step) /\ addrs' = addrs \cup {a}
        /\ managers' = [managers EXCEPT ![t].addrs = @ \cup {a}]
        /\ left' = [left EXCEPT ![t] = Tail(@)]
        /\ UNCHANGED <<alive, root, process, servers, listening, nics, links, taken>>
        /\ UNCHANGED <<job, cfg, vlansLeft, mine>>
    BY <1>11 DEF AssignIp, At
  <2>2. left[t] \in Seq(Device) /\ left[t] # <<>>
    BY <1>1, <2>1 DEF LocalTypes, Fits
  <2>3. Head(left[t]) \in Device /\ Tail(left[t]) \in Seq(Device)
    BY <2>2, HeadTail
  <2>4. a \in Addrs
    BY <1>3, <2>3, TargetIn
  <2>5. managers' = [managers EXCEPT ![t] = kept]
    BY <1>1, <2>1 DEF ObjectTypes
  <2>6. kept \in Managers
    BY <1>1, <2>4 DEF ObjectTypes, Managers
  <2>7. step = "servers" \/ (step = "addrs" /\ Tail(left[t]) # <<>>)
    <3> DEFINE n == Len(left[t])
               rest == Tail(left[t])
    <3>1. n \in Nat /\ Len(rest) = n - 1
      BY <2>2, HeadTail
    <3>2. rest = <<>> => Len(rest) = 0
      BY <2>3, EmptySeq
    <3>3. CASE n > 1
      <4> HIDE DEF n, rest
      <4>1. rest # <<>>
        BY <3>1, <3>2, <3>3
      <4> USE DEF n, rest
      <4> QED BY <3>3, <4>1
    <3>4. CASE ~(Len(left[t]) > 1)
      BY <3>4
    <3> QED BY <3>3, <3>4
  <2> HIDE DEF step, kept, a
  <2>8. ObjectTypes'
    BY <1>1, <2>1, <2>5, <2>6 DEF ObjectTypes
  <2>9. LocalTypes' /\ left'[t] = Tail(left[t])
    BY <1>1, <2>1, <2>3 DEF LocalTypes
  <2>10. UNCHANGED config
    BY <2>1 DEF process
  <2>11. MachineTypes'
    BY <1>1, <2>1, <2>4 DEF MachineTypes
  <2>12. ASSUME Moved(t, step) PROVE Fits(t)'
    BY <1>1, <2>1, <2>7, <2>9, <2>10, <2>12 DEF Moved, Fits, Saving, Sending, Making
  <2>13. \A u \in Thread : Fits(u)'
    BY <1>4, <1>5, <2>1, <2>7, <2>12
  <2> QED BY <1>3, <2>1, <2>8, <2>9, <2>11, <2>13, Untouched DEF TInv
<1> QED
  <2>1. Verify(t) \/ AddLink(t) \/ LinkUp(t) \/ AssignIp(t) => pc[t] \in Making
    BY DEF Verify, AddLink, LinkUp, AssignIp, At, Making
  <2> QED BY <1>6, <1>7, <1>8, <1>9, <1>10, <1>11, <2>1

\* start: sockets.
LEMMA BindTypes ==
  ASSUME TInv, IInv', NEW t \in Thread,
         ChooseServers(t) \/ Listen(t) \/ BindFails(t) \/ Serve(t)
  PROVE  TInv'
<1>1. /\ IInv /\ Types /\ ProcessTypes /\ ObjectTypes /\ LocalTypes /\ Fits(t)
      /\ (state = "RUNNING" => config # None)
  BY DEF IInv, TInv
<1>2. alive /\ pc[t] # "idle" /\ UNCHANGED <<disk, machine>> /\ pc[t] \in Making
  BY DEF ChooseServers, Listen, BindFails, Serve, At, Making
<1>3. DiskTypes' /\ MachineTypes' /\ config # None
  BY <1>1, <1>2, Untouched DEF Fits
<1>4. CASE ChooseServers(t)
  <2>1. /\ pc[t] = "servers" /\ Go(t, "bind") /\ left' = [left EXCEPT ![t] = Devices]
        /\ UNCHANGED <<alive, root, state, config, locked, loaded, live, startError, network>>
        /\ UNCHANGED <<managers, listening, job, cfg, vlansLeft>>
    BY <1>4 DEF ChooseServers, At
  <2>2. /\ current' \in Thread \cup {"first"} /\ servers' \in [Thread \cup {"first"} -> SUBSET Device]
        /\ mine' \in [Thread -> Thread \cup {"first"}]
    <3>1. t \in Thread \cup {"first"} /\ current \in Thread \cup {"first"}
      BY <1>1 DEF ProcessTypes
    <3>2. CASE /\ current' = t /\ servers' = [servers EXCEPT ![t] = {}]
               /\ mine' = [mine EXCEPT ![t] = t]
      BY <1>1, <3>1, <3>2 DEF ObjectTypes, LocalTypes
    <3>3. CASE mine' = [mine EXCEPT ![t] = current] /\ UNCHANGED <<current, servers>>
      BY <1>1, <3>1, <3>3 DEF ObjectTypes, LocalTypes
    <3> QED BY <1>4, <3>2, <3>3 DEF ChooseServers
  <2>3. ObjectTypes' /\ ProcessTypes' /\ (state' = "RUNNING" => config' # None)
    BY <1>1, <2>1, <2>2 DEF ObjectTypes, ProcessTypes
  <2>4. LocalTypes'
    BY <1>1, <2>1, <2>2, DevicesSeq DEF LocalTypes
  <2>5. "bind" \in Steps
    BY DEF Steps
  <2>6. ASSUME Moved(t, "bind") PROVE Fits(t)'
    BY <1>1, <2>1, <2>6 DEF Moved, Fits, Saving, Sending, Making
  <2>7. \A u \in Thread : Fits(u)'
    BY <1>1, <1>2, <2>1, <2>5, <2>6, GoesFits
  <2> QED BY <1>3, <2>3, <2>4, <2>7 DEF TInv
<1>5. CASE Listen(t)
  <2>1. /\ pc[t] = "bind" /\ left[t] # <<>>
        /\ listening' = listening \cup {Head(left[t])}
        /\ servers' = [servers EXCEPT ![mine[t]] = @ \cup {Head(left[t])}]
        /\ left' = [left EXCEPT ![t] = Tail(@)]
        /\ UNCHANGED <<alive, root, process, managers, pc, job, cfg, vlansLeft, mine>>
    BY <1>5 DEF Listen, At
  <2>2. left[t] \in Seq(Device)
    BY <1>1 DEF LocalTypes
  <2>3. Head(left[t]) \in Device /\ Tail(left[t]) \in Seq(Device)
    BY <2>1, <2>2, HeadTail
  <2>4. LocalTypes'
    BY <1>1, <2>1, <2>3 DEF LocalTypes
  <2>5. ObjectTypes'
    BY <1>1, <2>1, <2>3 DEF ObjectTypes, LocalTypes
  <2>6. UNCHANGED config
    BY <2>1 DEF process
  <2>7. \A u \in Thread : Fits(u)'
    <3> SUFFICES ASSUME NEW u \in Thread PROVE Fits(u)'
      OBVIOUS
    <3>1. CASE u = t
      BY <1>1, <2>1, <2>6, <3>1 DEF Fits, Saving, Sending, Making
    <3>2. CASE u # t
      <4>1. left'[u] = left[u]
        BY <1>1, <2>1, <3>2 DEF LocalTypes
      <4> QED BY <2>1, <2>6, <4>1 DEF TInv, Fits
    <3> QED BY <3>1, <3>2
  <2> QED BY <1>3, <2>1, <2>4, <2>5, <2>7, Untouched DEF TInv
<1>6. CASE BindFails(t) \/ Serve(t)
  <2>1. /\ Done(t) /\ UNCHANGED objects
        /\ UNCHANGED <<alive, root, config, locked, loaded, network, current>>
    BY <1>6 DEF BindFails, Serve
  <2>2. /\ live' \in [Device -> Lists \cup {None}] /\ startError' \in BOOLEAN
        /\ state' \in {"SETUP", "RUNNING", "STOPPING"}
    BY <1>1, <1>6, NothingTyped DEF BindFails, Serve, ProcessTypes
  <2>3. ProcessTypes' /\ (state' = "RUNNING" => config' # None)
    BY <1>1, <1>3, <2>1, <2>2 DEF ProcessTypes
  <2>4. LocalTypes' /\ \A u \in Thread : Fits(u)'
    BY <1>1, <1>2, <2>1, DoneLocals, DoneFits
  <2> QED BY <1>3, <2>1, <2>3, <2>4, Untouched DEF TInv
<1> QED BY <1>4, <1>5, <1>6

-----------------------------------------------------------------------------
\* stop, reset, change of interface, and the restore of thread "main".
LEMMA StopTypes ==
  ASSUME TInv, IInv', NEW t \in Thread,
         \/ StopServers(t) \/ Teardown(t) \/ Rename(t)
         \/ UnlinkLock(t) \/ UnlinkConfig(t) \/ RemoveDevices(t) \/ Clear(t)
  PROVE  TInv'
<1>1. /\ IInv /\ Types /\ ProcessTypes /\ ObjectTypes /\ DiskTypes /\ MachineTypes
      /\ Fits(t) /\ Prepared(t) /\ (state = "RUNNING" => config # None)
  BY DEF IInv, TInv
<1>2. alive /\ pc[t] # "idle"
  BY DEF StopServers, Teardown, Rename, UnlinkLock, UnlinkConfig, RemoveDevices, Clear, At
<1>3. ASSUME NEW step \in Steps, Go(t, step), Moved(t, step) => Fits(t)'
      PROVE  \A u \in Thread : Fits(u)'
  BY <1>1, <1>2, <1>3, GoesFits
<1>4. /\ "teardown" \in Steps /\ "unlinkLock" \in Steps /\ "rename" \in Steps
      /\ "exit" \in Steps /\ "read" \in Steps /\ "unlinkConfig" \in Steps
      /\ "rmtree" \in Steps /\ "clear" \in Steps
  BY DEF Steps
<1>5. CASE StopServers(t)
  <2>1. /\ pc[t] = "stopServers" /\ Go(t, "teardown")
        /\ UNCHANGED <<job, cfg, left, vlansLeft, mine>>
        /\ listening' = listening \ servers[current]
        /\ UNCHANGED <<alive, root, process, managers, servers, disk, machine>>
    BY <1>5 DEF StopServers, At, Goes
  <2>2. UNCHANGED config /\ ObjectTypes'
    BY <1>1, <2>1 DEF process, ObjectTypes
  <2>3. ASSUME Moved(t, "teardown") PROVE Fits(t)'
    BY <1>1, <2>1, <2>2, <2>3 DEF Moved, Fits, Saving, Sending, Making
  <2>4. \A u \in Thread : Fits(u)'
    BY <1>3, <1>4, <2>1, <2>3
  <2> QED BY <2>1, <2>2, <2>4, Untouched DEF TInv
<1>6. CASE Teardown(t)
  <2> DEFINE step == CASE job[t].op = "reset" -> "unlinkLock"
                       [] job[t].op = "change" -> "rename"
                       [] OTHER -> "exit"
  <2>1. /\ pc[t] = "teardown" /\ Go(t, step) /\ UNCHANGED <<job, cfg, left, vlansLeft, mine>>
        /\ network' = (IF job[t].op = "change" THEN None ELSE network)
        /\ UNCHANGED <<alive, root, state, config, locked, loaded, live, startError, current>>
        /\ UNCHANGED <<servers, listening, disk, nics, taken>>
    BY <1>6 DEF Teardown, At, Goes
  <2>2. step \in {"unlinkLock", "exit"} \/ (job[t].op = "change" /\ step = "rename")
    <3>1. CASE job[t].op = "reset"
      BY <3>1, Zenon
    <3>2. CASE job[t].op = "change"
      BY <3>2, Zenon
    <3>3. CASE job[t].op # "reset" /\ job[t].op # "change"
      BY <3>3, Zenon
    <3> QED BY <3>1, <3>2, <3>3
  <2> HIDE DEF step
  <2>3. ASSUME Moved(t, step) PROVE Fits(t)'
    BY <1>1, <2>1, <2>2, <2>3 DEF Moved, Fits, Saving, Sending, Making
  <2>4. \A u \in Thread : Fits(u)'
    BY <1>3, <1>4, <2>1, <2>2, <2>3
  <2>5. ProcessTypes' /\ (state' = "RUNNING" => config' # None)
    BY <1>1, <2>1 DEF ProcessTypes
  <2>6. NewManager \in Managers
    BY DEF NewManager, Managers
  <2>7. ObjectTypes' /\ MachineTypes'
    <3>1. CASE UNCHANGED <<links, addrs, managers>>
      BY <1>1, <2>1, <3>1 DEF ObjectTypes, MachineTypes
    <3>2. CASE /\ links' \subseteq links /\ addrs' \subseteq addrs
               /\ managers' = [managers EXCEPT ![network] = NewManager]
      BY <1>1, <2>1, <2>6, <3>2 DEF ObjectTypes, MachineTypes
    <3> QED BY <1>6, <3>1, <3>2 DEF Teardown, WithoutLinks
  <2> QED BY <2>1, <2>4, <2>5, <2>7, Untouched DEF TInv
<1>7. CASE Rename(t)
  <2>1. /\ pc[t] = "rename" /\ Go(t, "read")
        /\ job' = [job EXCEPT ![t] = [op |-> "change", nic |-> job[t].nic, old |-> config.nic]]
        /\ config' = [config EXCEPT !.nic = job[t].nic]
        /\ UNCHANGED <<alive, root, state, locked, loaded, live, startError, network, current>>
        /\ UNCHANGED <<objects, disk, machine, cfg, left, vlansLeft, mine>>
    BY <1>7 DEF Rename, At
  <2>2. config \in Configs /\ job[t].nic \in Nic
    BY <1>1, <2>1 DEF Fits, ProcessTypes, Prepared, Wiping
  <2>3. config' \in Configs /\ config.nic \in Nic
    BY <2>1, <2>2, RenamedConfig, NicInConfig
  <2>4. job'[t].op = "change" /\ job'[t].old = config.nic
    BY <1>1, <2>1 DEF Types
  <2>5. ASSUME Moved(t, "read") PROVE Fits(t)'
    BY <2>3, <2>4, <2>5, LifecycleAssumption DEF Moved, Fits, Saving, Sending, Making
  <2>6. \A u \in Thread : Fits(u)'
    BY <1>3, <1>4, <2>1, <2>5
  <2>7. ProcessTypes' /\ (state' = "RUNNING" => config' # None)
    BY <1>1, <2>1, <2>3, LifecycleAssumption DEF ProcessTypes
  <2> QED BY <2>1, <2>6, <2>7, Untouched DEF TInv
<1>8. CASE UnlinkLock(t) \/ UnlinkConfig(t) \/ RemoveDevices(t)
  <2>1. PICK step \in {"unlinkConfig", "rmtree", "clear"} : Goes(t, step)
    BY <1>8 DEF UnlinkLock, UnlinkConfig, RemoveDevices
  <2>2. /\ Go(t, step) /\ UNCHANGED <<job, cfg, left, vlansLeft, mine>>
        /\ UNCHANGED <<alive, root, process, objects, machine>>
    BY <1>8, <2>1 DEF UnlinkLock, UnlinkConfig, RemoveDevices, Goes
  <2>3. DiskTypes'
    BY <1>1, <1>8, NothingTyped DEF UnlinkLock, UnlinkConfig, RemoveDevices, DiskTypes, Nothing
  <2>4. ASSUME Moved(t, step) PROVE Fits(t)'
    BY <2>1, <2>4 DEF Moved, Fits, Saving, Sending, Making
  <2>5. \A u \in Thread : Fits(u)'
    BY <1>3, <1>4, <2>1, <2>2, <2>4
  <2> QED BY <2>2, <2>3, <2>5, Untouched DEF TInv
<1>9. CASE Clear(t)
  <2>1. /\ config' = None /\ locked' = FALSE /\ loaded' = Nothing /\ live' = Nothing
        /\ current' = t /\ servers' = [servers EXCEPT ![t] = {}] /\ network' = None
        /\ state' = "SETUP" /\ Done(t)
        /\ UNCHANGED <<alive, root, startError, managers, listening, disk, machine>>
    BY <1>9 DEF Clear
  <2>2. ProcessTypes' /\ (state' = "RUNNING" => config' # None)
    BY <1>1, <2>1, NothingTyped DEF ProcessTypes
  <2>3. ObjectTypes'
    BY <1>1, <2>1 DEF ObjectTypes
  <2>4. LocalTypes' /\ \A u \in Thread : Fits(u)'
    BY <1>1, <1>2, <2>1, DoneLocals, DoneFits
  <2> QED BY <2>1, <2>2, <2>3, <2>4, Untouched DEF TInv
<1> QED BY <1>5, <1>6, <1>7, <1>8, <1>9

LEMMA WipeTypes ==
  ASSUME TInv, IInv', NEW t \in Thread,
         WipeConfig(t) \/ WipeLock(t) \/ WipeSignals(t) \/ Wiped(t)
  PROVE  TInv'
<1>1. IInv /\ DiskTypes /\ (state = "RUNNING" => config # None)
  BY DEF TInv
<1>2. /\ UNCHANGED <<alive, root, process, objects, machine, left, vlansLeft, mine>>
      /\ pc[t] # "idle"
  BY DEF WipeConfig, WipeLock, WipeSignals, Wiped, thread, Goes, At
<1>3. DiskTypes'
  BY <1>1 DEF WipeConfig, WipeLock, WipeSignals, Wiped, DiskTypes
<1>4. \A u \in Thread : Fits(u)'
  <2>1. CASE WipeConfig(t) \/ WipeLock(t)
    BY <2>1, FitsKept DEF WipeConfig, WipeLock, thread, process
  <2>2. CASE \E step \in Wiping \cup {"idle"} : Go(t, step)
    <3>1. PICK step \in Wiping \cup {"idle"} : Go(t, step)
      BY <2>2
    <3>2. ASSUME Moved(t, step) PROVE Fits(t)'
      BY <3>1, <3>2 DEF Moved, Fits, Saving, Sending, Making, Wiping
    <3>3. step \in Steps
      BY <3>1 DEF Steps, Wiping
    <3> QED BY <1>1, <1>2, <3>1, <3>2, <3>3, GoesFits
  <2>3. CASE WipeSignals(t)
    <3> DEFINE step == IF sigFile' = Nothing THEN "wipe" ELSE "wipeDevices"
    <3>1. step \in Wiping \cup {"idle"} /\ Go(t, step)
      BY <2>3 DEF WipeSignals, Goes, Wiping
    <3> HIDE DEF step
    <3> QED BY <2>2, <3>1
  <2>4. CASE Wiped(t)
    BY <2>2, <2>4 DEF Wiped, Goes
  <2> QED BY <2>1, <2>3, <2>4
<1> QED BY <1>2, <1>3, <1>4, Untouched DEF TInv

LEMMA RestoreTypes ==
  ASSUME TInv, IInv', NEW t \in Thread, RestoreFile(t) \/ RestoreStart(t)
  PROVE  TInv'
<1>1. /\ IInv /\ Types /\ ProcessTypes /\ DiskTypes /\ LocalTypes
      /\ Fits(t) /\ (state = "RUNNING" => config # None)
  BY DEF IInv, TInv
<1>2. alive /\ pc[t] = "next" /\ UNCHANGED <<alive, root, objects, disk, machine, config>>
  BY DEF RestoreFile, RestoreStart, At, process
<1>3. ObjectTypes' /\ DiskTypes' /\ MachineTypes'
  BY <1>2, Untouched
<1>4. CASE Done(t)
  <2>1. LocalTypes' /\ \A u \in Thread : Fits(u)'
    BY <1>1, <1>2, <1>4, DoneLocals, DoneFits
  <2>2. ProcessTypes' /\ (state' = "RUNNING" => config' # None)
    BY <1>1 DEF RestoreFile, RestoreStart, ProcessTypes, process
  <2> QED BY <1>3, <2>1, <2>2 DEF TInv
<1>5. CASE RestoreFile(t) /\ ~Done(t)
  <2>1. left[t] # <<>> /\ UNCHANGED <<alive, root, process, cfg, vlansLeft, mine>>
    BY <1>5 DEF RestoreFile
  <2>2. ProcessTypes' /\ (state' = "RUNNING" => config' # None)
    BY <2>1, Untouched
  <2>3. left[t] \in Seq(Device)
    BY <1>1 DEF LocalTypes
  <2>4. Head(left[t]) \in Device /\ Tail(left[t]) \in Seq(Device)
    BY <2>1, <2>3, HeadTail
  <2>5. CASE left' = [left EXCEPT ![t] = Tail(@)] /\ UNCHANGED <<pc, job>>
    <3>1. LocalTypes'
      BY <1>1, <2>1, <2>4, <2>5 DEF LocalTypes
    <3>2. \A u \in Thread : Fits(u)'
      <4> SUFFICES ASSUME NEW u \in Thread PROVE Fits(u)'
        OBVIOUS
      <4>1. CASE u = t
        BY <1>1, <1>2, <2>5, <4>1 DEF Fits, Saving, Sending, Making
      <4>2. CASE u # t
        <5>1. left'[u] = left[u]
          BY <1>1, <2>5, <4>2 DEF LocalTypes
        <5> QED BY <1>2, <2>1, <2>5, <5>1 DEF TInv, Fits
      <4> QED BY <4>1, <4>2
    <3> QED BY <1>3, <2>2, <3>1, <3>2 DEF TInv
  <2>6. CASE /\ sigFile[Head(left[t])] \notin {None, Torn}
             /\ job' = [job EXCEPT ![t] = [op |-> "restore", dev |-> Head(left[t]),
                                           list |-> sigFile[Head(left[t])]]]
             /\ Go(t, "signals") /\ UNCHANGED left
    <3>1. job'[t].dev \in Device /\ job'[t].list \in Lists
      BY <1>1, <2>4, <2>6 DEF Types, DiskTypes
    <3>2. ASSUME Moved(t, "signals") PROVE Fits(t)'
      BY <2>1, <2>6, <3>1, <3>2 DEF Moved, Fits, Saving, Sending, Making
    <3>3. "signals" \in Steps
      BY DEF Steps
    <3>4. \A u \in Thread : Fits(u)'
      BY <1>1, <1>2, <2>6, <3>2, <3>3, GoesFits
    <3> QED BY <1>3, <2>1, <2>2, <2>6, <3>4, Untouched DEF TInv
  <2> QED BY <1>5, <2>5, <2>6 DEF RestoreFile
<1>6. CASE RestoreStart(t) /\ ~Done(t)
  <2>1. /\ Goes(t, "maps") /\ Ready /\ startError' \in BOOLEAN
        /\ UNCHANGED <<alive, root, state, config, locked, loaded, live, network, current>>
    BY <1>6 DEF RestoreStart
  <2>2. ProcessTypes' /\ (state' = "RUNNING" => config' # None)
    BY <1>1, <2>1 DEF ProcessTypes
  <2>3. Go(t, "maps") /\ UNCHANGED <<job, cfg, left, vlansLeft, mine>> /\ config # None
    BY <2>1 DEF Goes, Ready
  <2>4. "maps" \in Steps
    BY DEF Steps
  <2>5. ASSUME Moved(t, "maps") PROVE Fits(t)'
    BY <1>1, <1>2, <2>3, <2>5 DEF Moved, Fits, Saving, Sending, Making
  <2>6. \A u \in Thread : Fits(u)'
    BY <1>1, <1>2, <2>3, <2>4, <2>5, GoesFits
  <2> QED BY <1>3, <2>2, <2>3, <2>6, Untouched DEF TInv
<1> QED BY <1>4, <1>5, <1>6

\* Boots, crashes and the machine.
LEMMA DiesTypes ==
  ASSUME TInv, IInv', Died
  PROVE  TInv'
<1>1. DiskTypes' /\ MachineTypes'
  BY Untouched DEF Died
<1>2. ProcessTypes' /\ (state' = "RUNNING" => config' # None)
  BY NothingTyped DEF Died, ProcessTypes
<1>3. NewManager \in Managers
  BY DEF NewManager, Managers
<1>4. ObjectTypes'
  BY <1>3 DEF Died, ObjectTypes
<1>5. <<>> \in Seq(Device) /\ {} \in SUBSET Vlans
  OBVIOUS
<1>6. LocalTypes'
  BY <1>5 DEF Died, LocalTypes
<1>7. \A t \in Thread : pc'[t] = "idle"
  BY DEF Died
<1>8. \A t \in Thread : Fits(t)'
  BY <1>7 DEF Fits, Saving, Sending, Making
<1> QED BY <1>1, <1>2, <1>4, <1>6, <1>8 DEF TInv

LEMMA MachineTypesStep ==
  ASSUME TInv, IInv', Machine
  PROVE  TInv'
<1>1. /\ IInv /\ Types /\ ProcessTypes /\ DiskTypes /\ MachineTypes
      /\ (state = "RUNNING" => config # None)
  BY DEF IInv, TInv
<1>2. CASE Crash
  BY <1>2, DiesTypes DEF Crash
<1>3. CASE BootPlain \/ BootReset \/ BootRestore
  <2>1. UNCHANGED <<process, objects, machine, left, vlansLeft, mine>>
    BY <1>3 DEF BootPlain, BootReset, BootRestore, thread
  <2>2. alive' \in BOOLEAN /\ root' \in BOOLEAN
    BY <1>3, LifecycleAssumption DEF BootPlain, BootReset, BootRestore
  <2>3. ProcessTypes' /\ (state' = "RUNNING" => config' # None)
    BY <1>1, <2>1, <2>2 DEF ProcessTypes, process
  <2>4. DiskTypes'
    BY <1>1, <1>3, NothingTyped DEF BootPlain, BootReset, BootRestore, disk, DiskTypes, Nothing
  <2>5. UNCHANGED config
    BY <2>1 DEF process
  <2>6. \A u \in Thread : Fits(u)'
    <3>1. CASE UNCHANGED thread
      BY <2>5, <3>1, FitsKept DEF thread
    <3>2. CASE BootReset
      <4>1. UNCHANGED pc \/ (~alive /\ pc' = [pc EXCEPT !["main"] = "wipe"])
        BY <3>2 DEF BootReset
      <4>2. CASE UNCHANGED pc
        BY <2>5, <3>2, <4>2, FitsKept DEF BootReset
      <4>3. CASE ~alive /\ pc' = [pc EXCEPT !["main"] = "wipe"]
        <5>1. ASSUME NEW u \in Thread PROVE pc'[u] \in {"idle", "wipe"}
          BY <1>1, <4>3, <5>1 DEF IInv, Idle, Types
        <5> QED BY <5>1 DEF Fits, Saving, Sending, Making
      <4> QED BY <4>1, <4>2, <4>3
    <3>3. CASE BootRestore /\ ~UNCHANGED thread
      <4>1. /\ ~alive /\ configFile \notin {None, Torn}
            /\ job' = [job EXCEPT !["main"] = Restoring]
            /\ cfg' = [cfg EXCEPT !["main"] = configFile]
            /\ pc' = [pc EXCEPT !["main"] = "config"]
        BY <3>3 DEF BootRestore
      <4>2. "main" \in Thread /\ Idle /\ configFile \in Configs
        BY <1>1, <4>1 DEF Thread, IInv, Types, Texts
      <4>3. job'["main"].op = "restore" /\ cfg'["main"] \in Configs /\ pc'["main"] = "config"
        BY <1>1, <4>1, <4>2 DEF Types, Restoring
      <4>4. Fits("main")'
        BY <4>3 DEF Fits, Saving, Sending, Making
      <4>5. ASSUME NEW u \in Thread, u # "main" PROVE Fits(u)'
        <5>1. pc'[u] = "idle"
          BY <1>1, <4>1, <4>2, <4>5 DEF Idle, Types
        <5> QED BY <5>1 DEF Fits, Saving, Sending, Making
      <4> QED BY <4>4, <4>5
    <3> QED BY <1>3, <3>1, <3>2, <3>3 DEF BootPlain
  <2> QED BY <2>1, <2>3, <2>4, <2>6, Untouched DEF TInv
<1>4. CASE \/ \E n \in Nic : Unplug(n) \/ Plug(n)
          \/ \E d \in Device : TakePort(d) \/ FreePort(d)
  <2>1. UNCHANGED <<alive, root, process, objects, disk, thread>>
    BY <1>4 DEF Unplug, Plug, TakePort, FreePort
  <2>2. MachineTypes'
    BY <1>1, <1>4 DEF Unplug, Plug, TakePort, FreePort, MachineTypes
  <2>3. UNCHANGED <<pc, job, cfg, left, vlansLeft, mine, config>>
    BY <2>1 DEF thread, process
  <2>4. \A u \in Thread : Fits(u)'
    BY <2>3, FitsKept
  <2> QED BY <2>1, <2>2, <2>3, <2>4, Untouched DEF TInv
<1> QED BY <1>2, <1>3, <1>4 DEF Machine

LEMMA TypesStep ==
  ASSUME OneClient, TInv, [Next]_vars
  PROVE  TInv'
<1>1. IInv'
  BY LifecycleStep DEF TInv
<1>2. CASE \E t \in Worker : \E j \in Jobs[t] : Begin(t, j)
  BY <1>1, <1>2, BeginTypes
<1>3. ASSUME NEW t \in Thread, Step(t) PROVE TInv'
  <2>1. CASE Exit(t)
    BY <1>1, <2>1, DiesTypes DEF Exit
  <2> QED BY <1>1, <1>3, <2>1, WriteTypes, SetupTypes, BindTypes, StopTypes, RestoreTypes, WipeTypes
          DEF Step
<1>4. CASE Machine
  BY <1>1, <1>4, MachineTypesStep
<1>5. CASE UNCHANGED vars
  <2>1. UNCHANGED <<pc, job, cfg, left, vlansLeft, mine, config>>
    BY <1>5 DEF vars
  <2>2. UNCHANGED <<alive, root, process, objects, disk, machine>>
    BY <1>5 DEF vars, process, objects, disk, machine
  <2> QED BY <1>1, <2>1, <2>2, FitsKept, Untouched DEF TInv
<1> QED BY <1>2, <1>3, <1>4, <1>5 DEF Next

LEMMA TypesInductive ==
  ASSUME OneClient PROVE Spec => []TInv
<1>1. TInv /\ [Next]_vars => TInv'
  BY TypesStep
<1> QED BY <1>1, TInvInit, PTL DEF Spec

\* Every variable keeps its type; a job, a config or a sequence of devices left to deal
\* with is what the step that reads it takes it for.
THEOREM TypeCorrect ==
  ASSUME OneClient PROVE Spec => []TypeOK
BY TypesInductive, TypesTogether, PTL

-----------------------------------------------------------------------------
(***************************************************************************)
(* What is served and what is on disk between requests, while no client    *)
(* changes the interface: a change that fails half-way leaves no server    *)
(* listening in a RUNNING simulation.                                      *)
(***************************************************************************)
NoChange == \A t \in Worker : \A j \in Jobs[t] : j.op # "change"

\* The steps that end a simulation, and those on the way of the config to its file.
Ending == {"stopServers", "teardown", "unlinkLock", "unlinkConfig", "rmtree", "clear", "exit"}
Unheld == {"read", "unlinkConfig", "rmtree", "clear"} \cup Saving

\* The text is laid out as the one the config was read from, or was rewritten into one
\* that cannot be read.
Laid(text, c) ==
  IF text = Torn THEN c.vlanLine = "breaks"
  ELSE text \in Configs /\ text.vlanLine = c.vlanLine /\ text.nic = c.nic
Kept(text, c) ==
  Laid(text, c) /\ (text # Torn /\ c.vlanLine # "missed" => text.vlan = c.vlan)

Held == config # None => locked /\ lockFile /\ Kept(configFile, config)
SignalsHeld(d) == loaded[d] # None => sigFile[d] = loaded[d]
AllLoaded == \A d \in Device : loaded[d] # None

\* Every device listens, or is still to be dealt with.
Bound(t) == \A d \in Device : d \in listening \/ \E i \in DOMAIN left[t] : left[t][i] = d

\* What a request has reached of serving, at each of its steps.
Serving(t) ==
  /\ pc[t] # "rename"
  /\ pc[t] \notin {"idle"} \cup Wiping => job[t].op # "change"
  /\ pc[t] \notin Ending \cup {"idle"} => state = "SETUP" /\ listening = servers[current]
  /\ pc[t] \notin Making \cup Ending \cup {"idle"} => live = Nothing
  /\ pc[t] \in {"maps"} \cup Making => AllLoaded
  /\ pc[t] \in Making => live = loaded
  /\ pc[t] = "bind" => mine[t] = current /\ Bound(t)
  /\ pc[t] \in Ending => state = "STOPPING"
  /\ pc[t] = "stopServers" => listening = servers[current]
  /\ pc[t] \in Ending \ {"stopServers"} => listening = {}

\* What it has put on disk.
Saved(t) ==
  /\ pc[t] \notin Unheld \cup {"idle"} => Held
  /\ pc[t] \in Saving /\ job[t].op # "vlan" => config = None
  /\ pc[t] \in {"lock", "setConfig"} => configFile = cfg[t] /\ job[t].op # "vlan"
  /\ pc[t] = "setConfig" => lockFile
  /\ pc[t] = "read" => job[t].op = "vlan" /\ Laid(configFile, config)
                       /\ config.vlan = job[t].vlan
  /\ pc[t] \in {"read", "config", "writeConfig"} /\ job[t].op = "vlan" =>
       config # None /\ locked /\ lockFile
  /\ pc[t] \in {"config", "writeConfig"} /\ job[t].op = "vlan" => Kept(cfg[t], config)
  /\ pc[t] \in Wiping => config = None /\ loaded = Nothing
  /\ pc[t] \notin {"clear", "idle"} => \A d \in Device :
       SignalsHeld(d) \/ (pc[t] \in {"writeSignals", "setSignals"} /\ d = job[t].dev)
  /\ pc[t] = "setSignals" => sigFile[job[t].dev] = job[t].list

\* What holds between requests.
Rested ==
  /\ state # "STOPPING" /\ listening = servers[current]
  /\ state = "SETUP" => live = Nothing
  /\ state = "RUNNING" => listening = Device /\ live = loaded /\ AllLoaded
  /\ Held /\ \A d \in Device : SignalsHeld(d)

QInv ==
  /\ TInv
  /\ Idle => Rested
  /\ ~alive => config = None /\ loaded = Nothing
  /\ \A t \in Thread : Serving(t) /\ Saved(t)

\* ---- facts about texts
LEMMA KeptHolds ==
  ASSUME NEW text, NEW c, Kept(text, c) PROVE Holds(text, c)
BY LifecycleAssumption DEF Kept, Laid, Holds

LEMMA KeptSelf ==
  ASSUME NEW c \in Configs PROVE Kept(c, c)
BY LifecycleAssumption DEF Kept, Laid

LEMMA LaidVlan ==
  ASSUME NEW c \in Configs, NEW text, Kept(text, c), NEW v \in BOOLEAN
  PROVE  /\ [c EXCEPT !.vlan = v] \in Configs /\ [c EXCEPT !.vlan = v].vlan = v
         /\ Laid(text, [c EXCEPT !.vlan = v])
<1>1. /\ [c EXCEPT !.vlan = v] \in Configs /\ [c EXCEPT !.vlan = v].vlan = v
      /\ [c EXCEPT !.vlan = v].vlanLine = c.vlanLine /\ [c EXCEPT !.vlan = v].nic = c.nic
  BY DEF Configs
<1> QED BY <1>1 DEF Kept, Laid

\* A text the value is not found in says what it said, which is no worse.
LEMMA KeptEdited ==
  ASSUME NEW c \in Configs, NEW text, Laid(text, c), NEW j, j.op = "vlan", c.vlan = j.vlan
  PROVE  Kept(Edited(text, j), c)
<1>1. CASE text = Torn
  <2>1. Edited(text, j) = Torn
    BY <1>1, Zenon DEF Edited
  <2> QED BY <1>1, <2>1 DEF Kept, Laid
<1>2. CASE text # Torn /\ text.vlanLine = "found"
  <2>1. Edited(text, j) = [text EXCEPT !.vlan = j.vlan]
    BY <1>2, Zenon DEF Edited
  <2>2. text \in Configs /\ j.vlan \in BOOLEAN
    BY <1>2 DEF Laid, Configs
  <2>3. /\ [text EXCEPT !.vlan = j.vlan] \in Configs
        /\ [text EXCEPT !.vlan = j.vlan].vlan = j.vlan
        /\ [text EXCEPT !.vlan = j.vlan].vlanLine = text.vlanLine
        /\ [text EXCEPT !.vlan = j.vlan].nic = text.nic
    BY <2>2 DEF Configs
  <2> QED BY <1>2, <2>1, <2>3, LifecycleAssumption DEF Kept, Laid
<1>3. CASE text # Torn /\ text.vlanLine = "missed"
  <2>1. Edited(text, j) = text
    BY <1>3 DEF Edited
  <2> QED BY <1>3, <2>1 DEF Kept, Laid
<1>4. CASE text # Torn /\ text.vlanLine = "breaks"
  <2>1. Edited(text, j) = Torn
    BY <1>4 DEF Edited
  <2> QED BY <1>4, <2>1 DEF Kept, Laid
<1>5. text # Torn => text.vlanLine \in {"found", "missed", "breaks"}
  BY DEF Laid, Configs
<1> QED BY <1>1, <1>2, <1>3, <1>4, <1>5

LEMMA QInvShows == QInv => RunningServes /\ DiskMatches
<1> SUFFICES ASSUME QInv, alive, Idle
             PROVE  RunningServes /\ DiskMatches
  BY DEF RunningServes, DiskMatches
<1>1. Rested
  BY DEF QInv
<1>2. config # None => Holds(configFile, config)
  BY <1>1, KeptHolds DEF Rested, Held
<1> QED BY <1>1, <1>2 DEF Rested, RunningServes, DiskMatches, Held, SignalsHeld, AllLoaded

\* What is left to show after a step that another follows, and after the last.
LEMMA GoesOn ==
  ASSUME NEW t \in Thread, NEW step \in Steps, step # "idle", Moved(t, step), TInv', alive',
         Serving(t)', Saved(t)'
  PROVE  QInv'
<1>1. ASSUME NEW u \in Thread, u # t PROVE Serving(u)' /\ Saved(u)'
  <2>1. pc'[u] = "idle"
    BY <1>1 DEF Moved
  <2> QED BY <2>1 DEF Wiping, Serving, Saved, Making, Ending, Unheld, Saving
<1>2. ~Idle'
  BY DEF Idle, Moved
<1> QED BY <1>1, <1>2 DEF QInv

LEMMA Answers ==
  ASSUME Idle', TInv', Rested', ~alive' => config' = None /\ loaded' = Nothing
  PROVE  QInv'
<1>1. ASSUME NEW u \in Thread PROVE Serving(u)' /\ Saved(u)'
  <2>1. pc'[u] = "idle"
    BY DEF Idle
  <2> QED BY <2>1 DEF Wiping, Serving, Saved, Making, Ending, Unheld, Saving
<1> QED BY <1>1 DEF QInv

LEMMA DoneIdle ==
  ASSUME IInv, NEW t \in Thread, pc[t] # "idle", Done(t)
  PROVE  Idle'
<1>1. pc' = [pc EXCEPT ![t] = "idle"]
  BY DEF Done, Go
<1> QED BY <1>1 DEF IInv, Types, Alone, Idle

LEMMA TakesIdle ==
  ASSUME OneClient, NEW t \in Thread, NEW j, NEW step, Take(t, j, step)
  PROVE  Idle /\ alive
<1>1. \A u \in Worker : u = t
  BY DEF Take, OneClient
<1> QED BY <1>1 DEF Take, Thread, Idle

\* Nothing that the invariant speaks of changes.
LEMMA QKept ==
  ASSUME QInv, TInv', ~alive' => ~alive,
         UNCHANGED <<state, config, locked, loaded, live, current, servers, listening,
                     configFile, lockFile, sigFile, pc, job, cfg, left, mine>>
  PROVE  QInv'
<1>1. Idle' => Rested'
  BY DEF QInv, Idle, Rested, Held, SignalsHeld, AllLoaded
<1>2. \A t \in Thread : Serving(t)'
  BY DEF Wiping, QInv, Serving, AllLoaded, Bound
<1>3. \A t \in Thread : Saved(t)'
  BY DEF Wiping, QInv, Saved, Held, SignalsHeld
<1> QED BY <1>1, <1>2, <1>3 DEF QInv

LEMMA QInvInit == Init => QInv
<1> SUFFICES ASSUME Init PROVE QInv
  OBVIOUS
<1>1. \A t \in Thread : pc[t] = "idle"
  BY DEF Init
<1>2. "first" \in Thread \cup {"first"}
  OBVIOUS
<1>3. Rested
  BY <1>2 DEF Init, Rested, Held, SignalsHeld, Nothing
<1>4. \A t \in Thread : Serving(t) /\ Saved(t)
  BY <1>1 DEF Wiping, Serving, Saved, Making, Ending, Unheld, Saving
<1> QED BY <1>3, <1>4, TInvInit DEF Init, QInv

LEMMA QDies ==
  ASSUME TInv', Died PROVE QInv'
<1>1. Idle' /\ config' = None /\ loaded' = Nothing
  BY DEF Died, Idle
<1>2. current' = "first" /\ servers'["first"] = {}
  BY DEF Died
<1>3. Rested'
  BY <1>2 DEF Died, Rested, Held, SignalsHeld, Nothing
<1> QED BY <1>1, <1>3, Answers

\* Requests that begin.
LEMMA QBegin ==
  ASSUME OneClient, NoChange, QInv, TInv', NEW t \in Worker, NEW j \in Jobs[t], Begin(t, j)
  PROVE  QInv'
<1>1. t \in Thread /\ TInv /\ Types /\ ProcessTypes /\ j.op # "change"
  BY DEF Thread, TInv, IInv, QInv, NoChange
<1>2. CASE StartRefused(t, j)
  BY <1>2, QKept DEF StartRefused, objects, disk, thread
<1>3. ASSUME NEW step \in Steps, Take(t, j, step)
      PROVE  /\ Rested /\ Moved(t, step) /\ job'[t] = j /\ alive
  BY <1>1, <1>3, TakesIdle, TakesAlone DEF QInv, Take, Types
<1>4. /\ "config" \in Steps /\ "signals" \in Steps /\ "read" \in Steps
      /\ "maps" \in Steps /\ "stopServers" \in Steps
  BY DEF Steps
<1>5. CASE BeginConfig(t, j)
  <2>1. /\ Take(t, j, "config") /\ state = "SETUP" /\ ~locked /\ j.op = "config"
        /\ UNCHANGED <<alive, root, process, objects, disk>>
    BY <1>5 DEF BeginConfig
  <2>2. UNCHANGED <<state, config, locked, loaded, live, current, servers, listening,
                    configFile, lockFile, sigFile>>
    BY <2>1 DEF process, objects, disk
  <2>3. Rested /\ Moved(t, "config") /\ job'[t] = j /\ alive
    BY <1>3, <1>4, <2>1
  <2>4. pc'[t] = "config" /\ config = None
    BY <2>1, <2>3 DEF Moved, Rested, Held
  <2>5. Serving(t)'
    BY <1>1, <2>1, <2>2, <2>3, <2>4 DEF Wiping, Serving, Making, Ending, Rested
  <2>6. Saved(t)'
    BY <1>1, <2>1, <2>2, <2>3, <2>4 DEF Wiping, Saved, Unheld, Saving, Rested, SignalsHeld
  <2> QED BY <1>1, <1>4, <2>1, <2>3, <2>5, <2>6, GoesOn
<1>6. CASE BeginSignals(t, j)
  <2>1. /\ Take(t, j, "signals") /\ state = "SETUP" /\ j.op = "signals"
        /\ UNCHANGED <<alive, root, process, objects, disk>>
    BY <1>6 DEF BeginSignals
  <2>2. UNCHANGED <<state, config, locked, loaded, live, current, servers, listening,
                    configFile, lockFile, sigFile>>
    BY <2>1 DEF process, objects, disk
  <2>3. Rested /\ Moved(t, "signals") /\ job'[t] = j /\ alive
    BY <1>3, <1>4, <2>1
  <2>4. pc'[t] = "signals"
    BY <2>3 DEF Moved
  <2>5. Serving(t)'
    BY <1>1, <2>1, <2>2, <2>3, <2>4 DEF Wiping, Serving, Making, Ending, Rested
  <2>6. Saved(t)'
    BY <1>1, <2>1, <2>2, <2>3, <2>4 DEF Wiping, Saved, Unheld, Saving, Rested, SignalsHeld, Held
  <2> QED BY <1>1, <1>4, <2>1, <2>3, <2>5, <2>6, GoesOn
<1>7. CASE BeginVlanMode(t, j)
  <2>1. /\ Take(t, j, "read") /\ state = "SETUP" /\ j.op = "vlan" /\ config # None
        /\ config' = [config EXCEPT !.vlan = j.vlan]
        /\ UNCHANGED <<alive, state, locked, loaded, live, current, objects, disk>>
    BY <1>7 DEF BeginVlanMode
  <2>2. UNCHANGED <<servers, listening, configFile, lockFile, sigFile>>
    BY <2>1 DEF objects, disk
  <2>3. Rested /\ Moved(t, "read") /\ job'[t] = j /\ alive
    BY <1>3, <1>4, <2>1
  <2>4. /\ pc'[t] = "read" /\ config \in Configs /\ Kept(configFile, config)
        /\ locked /\ lockFile
    BY <1>1, <2>1, <2>3 DEF Moved, Rested, Held, ProcessTypes
  <2>5. config' # None /\ config'.vlan = j.vlan /\ Laid(configFile', config')
    <3>1. j.vlan \in BOOLEAN /\ configFile' = configFile
      BY <2>1, <2>2, JobsAssumption
    <3> QED BY <2>1, <2>4, <3>1, LaidVlan, LifecycleAssumption
  <2>6. Serving(t)'
    BY <1>1, <2>1, <2>2, <2>3, <2>4 DEF Wiping, Serving, Making, Ending, Rested
  <2>7. Saved(t)'
    BY <1>1, <2>1, <2>2, <2>3, <2>4, <2>5 DEF Wiping, Saved, Unheld, Saving, Rested, SignalsHeld
  <2> QED BY <1>1, <1>4, <2>1, <2>3, <2>6, <2>7, GoesOn
<1>8. CASE BeginStart(t, j)
  <2>1. /\ Take(t, j, "maps") /\ state = "SETUP" /\ j.op = "start" /\ Ready
        /\ UNCHANGED <<alive, state, config, locked, loaded, live, current, objects, disk>>
    BY <1>8 DEF BeginStart
  <2>2. UNCHANGED <<servers, listening, configFile, lockFile, sigFile>>
    BY <2>1 DEF objects, disk
  <2>3. Rested /\ Moved(t, "maps") /\ job'[t] = j /\ alive
    BY <1>3, <1>4, <2>1
  <2>4. pc'[t] = "maps"
    BY <2>3 DEF Moved
  <2>5. Serving(t)'
    BY <1>1, <2>1, <2>2, <2>3, <2>4 DEF Wiping, Serving, Making, Ending, Rested, Ready, AllLoaded
  <2>6. Saved(t)'
    BY <1>1, <2>1, <2>2, <2>3, <2>4 DEF Wiping, Saved, Unheld, Saving, Rested, SignalsHeld, Held
  <2> QED BY <1>1, <1>4, <2>1, <2>3, <2>5, <2>6, GoesOn
<1>9. CASE BeginReset(t, j) \/ BeginStop(t, j)
  <2>1. /\ Take(t, j, "stopServers") /\ state' = "STOPPING" /\ j.op # "vlan"
        /\ UNCHANGED <<alive, config, locked, loaded, live, current, objects, disk>>
    BY <1>9 DEF BeginReset, BeginStop
  <2>2. UNCHANGED <<servers, listening, configFile, lockFile, sigFile>>
    BY <2>1 DEF objects, disk
  <2>3. Rested /\ Moved(t, "stopServers") /\ job'[t] = j /\ alive
    BY <1>3, <1>4, <2>1
  <2>4. pc'[t] = "stopServers"
    BY <2>3 DEF Moved
  <2>5. Serving(t)'
    BY <1>1, <2>1, <2>2, <2>3, <2>4 DEF Wiping, Serving, Making, Ending, Rested
  <2>6. Saved(t)'
    BY <1>1, <2>1, <2>2, <2>3, <2>4 DEF Wiping, Saved, Unheld, Saving, Rested, SignalsHeld, Held
  <2> QED BY <1>1, <1>4, <2>1, <2>3, <2>5, <2>6, GoesOn
<1> QED BY <1>1, <1>2, <1>5, <1>6, <1>7, <1>8, <1>9 DEF Begin, BeginChange

-----------------------------------------------------------------------------
\* A step between two of a request.
LEMMA QGoes ==
  ASSUME QInv, TInv', NEW t \in Thread, NEW step \in Steps, step # "idle", pc[t] # "idle",
         alive, alive' = alive, Go(t, step), Moved(t, step) => Serving(t)' /\ Saved(t)'
  PROVE  QInv'
<1>1. Moved(t, step)
  BY MovesAlone DEF QInv, TInv, IInv, Go
<1> QED BY <1>1, GoesOn

LEMMA QDone ==
  ASSUME QInv, TInv', NEW t \in Thread, pc[t] # "idle",
         alive, alive' = alive, Done(t), Rested'
  PROVE  QInv'
<1>1. Idle'
  BY DoneIdle DEF QInv, TInv
<1> QED BY <1>1, Answers

\* Writing the config and the lock.
LEMMA QConfig ==
  ASSUME QInv, TInv', NEW t \in Thread,
         EmptyConfig(t) \/ WriteConfig(t) \/ WriteLock(t) \/ SetConfig(t) \/ ReadConfig(t)
  PROVE  QInv'
<1>1. /\ TInv /\ Types /\ ProcessTypes /\ DiskTypes /\ Fits(t) /\ Serving(t) /\ Saved(t)
  BY DEF TInv, IInv, QInv
<1>2. /\ alive /\ pc[t] # "idle" /\ pc[t] \in {"read"} \cup Saving
      /\ UNCHANGED <<alive, state, loaded, live, current, servers, listening, sigFile>>
  BY DEF EmptyConfig, WriteConfig, WriteLock, SetConfig, ReadConfig, At, process, objects, disk,
         Saving
<1>3. /\ state = "SETUP" /\ listening = servers[current] /\ live = Nothing
      /\ \A d \in Device : SignalsHeld(d)
      /\ job[t].op # "change"
  BY <1>1, <1>2 DEF Wiping, Serving, Saved, Making, Ending, Saving
<1> USE DEF Wiping
<1>4. ASSUME NEW step \in Steps, step \in {"next", "read"} \cup Saving, Moved(t, step),
             UNCHANGED job
      PROVE  Serving(t)'
  <2>1. pc'[t] = step
    BY <1>4 DEF Moved
  <2> QED BY <1>2, <1>3, <1>4, <2>1 DEF Wiping, Serving, Making, Ending, Saving
<1>5. ASSUME Held' PROVE Rested'
  BY <1>2, <1>3, <1>5 DEF Rested, SignalsHeld
<1>6. /\ "writeConfig" \in Steps /\ "lock" \in Steps
      /\ "setConfig" \in Steps /\ "next" \in Steps /\ "config" \in Steps
  BY DEF Steps
<1>7. CASE EmptyConfig(t)
  <2>1. /\ pc[t] = "config" /\ Go(t, "writeConfig")
        /\ UNCHANGED <<job, cfg, config, locked, lockFile>>
    BY <1>7 DEF EmptyConfig, At, Goes, process
  <2>2. ASSUME Moved(t, "writeConfig") PROVE Serving(t)' /\ Saved(t)'
    <3>1. Saved(t)'
      BY <1>1, <1>2, <1>3, <2>1, <2>2 DEF Wiping, Saved, SignalsHeld, Saving, Unheld, Moved
    <3> QED BY <1>4, <1>6, <2>1, <2>2, <3>1 DEF Saving
  <2> QED BY <1>2, <1>6, <2>1, <2>2, QGoes
<1>8. CASE WriteConfig(t)
  <2>1. /\ pc[t] = "writeConfig" /\ configFile' = cfg[t] /\ AfterWrite(t)
        /\ UNCHANGED <<config, locked, lockFile>>
    BY <1>8 DEF WriteConfig, At, process
  <2>2. CASE job[t].op = "vlan"
    <3>1. Done(t)
      BY <2>1, <2>2 DEF AfterWrite
    <3>2. Held'
      BY <1>1, <2>1, <2>2 DEF Wiping, Held, Saved
    <3> QED BY <1>2, <1>5, <3>1, <3>2, QDone
  <2>3. CASE job[t].op # "vlan"
    <3>1. Go(t, "lock") /\ UNCHANGED <<job, cfg>>
      BY <1>3, <2>1, <2>3 DEF AfterWrite, Goes
    <3>2. config = None
      BY <1>1, <2>1, <2>3 DEF Wiping, Saved, Saving
    <3>3. ASSUME Moved(t, "lock") PROVE Serving(t)' /\ Saved(t)'
      <4>1. Saved(t)'
        BY <1>1, <1>2, <1>3, <2>1, <2>3, <3>1, <3>2, <3>3
        DEF Wiping, Saved, SignalsHeld, Saving, Unheld, Moved
      <4> QED BY <1>4, <1>6, <3>1, <3>3, <4>1 DEF Saving
    <3> QED BY <1>2, <1>6, <3>1, <3>3, QGoes
  <2> QED BY <2>2, <2>3
<1>9. CASE WriteLock(t)
  <2>1. /\ pc[t] = "lock" /\ Go(t, "setConfig") /\ lockFile' = TRUE
        /\ UNCHANGED <<job, cfg, config, locked, configFile>>
    BY <1>9 DEF WriteLock, At, Goes, process
  <2>2. ASSUME Moved(t, "setConfig") PROVE Serving(t)' /\ Saved(t)'
    <3>1. Saved(t)'
      BY <1>1, <1>2, <1>3, <2>1, <2>2 DEF Wiping, Saved, SignalsHeld, Saving, Unheld, Moved
    <3> QED BY <1>4, <1>6, <2>1, <2>2, <3>1 DEF Saving
  <2> QED BY <1>2, <1>6, <2>1, <2>2, QGoes
<1>10. CASE SetConfig(t)
  <2>1. /\ pc[t] = "setConfig" /\ config' = cfg[t] /\ locked' = TRUE
        /\ UNCHANGED <<configFile, lockFile>>
    BY <1>10 DEF SetConfig, At, disk
  <2>2. configFile = cfg[t] /\ lockFile /\ cfg[t] \in Configs
    BY <1>1, <2>1 DEF Wiping, Saved, Fits, Saving
  <2>3. Held'
    BY <2>1, <2>2, KeptSelf DEF Held
  <2>4. CASE Done(t)
    BY <1>2, <1>5, <2>3, <2>4, QDone
  <2>5. CASE Go(t, "next") /\ UNCHANGED job
    <3>1. ASSUME Moved(t, "next") PROVE Serving(t)' /\ Saved(t)'
      <4>1. Saved(t)'
        BY <1>2, <1>3, <2>3, <3>1 DEF Wiping, Saved, SignalsHeld, Saving, Unheld, Moved
      <4> QED BY <1>4, <1>6, <2>5, <3>1, <4>1
    <3> QED BY <1>2, <1>6, <2>5, <3>1, QGoes
  <2> QED BY <1>10, <2>4, <2>5 DEF SetConfig
<1>11. CASE ReadConfig(t)
  <2>1. /\ pc[t] = "read" /\ UNCHANGED <<config, locked, configFile, lockFile>>
    BY <1>11 DEF ReadConfig, At, process, disk
  <2>2. /\ job[t].op = "vlan" /\ Laid(configFile, config) /\ config # None /\ locked /\ lockFile
        /\ config.vlan = job[t].vlan /\ config \in Configs
    BY <1>1, <2>1 DEF Wiping, Saved, ProcessTypes
  <2>3. configFile # None
    BY <2>2, LifecycleAssumption DEF Laid
  <2>4. Kept(Edited(configFile, job[t]), config)
    BY <2>2, KeptEdited
  <2>5. /\ cfg' = [cfg EXCEPT ![t] = Edited(configFile, job[t])] /\ Go(t, "config")
        /\ UNCHANGED job
    BY <1>11, <2>3 DEF ReadConfig
  <2>6. Kept(cfg'[t], config')
    BY <1>1, <2>1, <2>4, <2>5 DEF Types
  <2>7. ASSUME Moved(t, "config") PROVE Serving(t)' /\ Saved(t)'
    <3>1. Saved(t)'
      BY <1>2, <1>3, <2>1, <2>2, <2>5, <2>6, <2>7 DEF Wiping, Saved, SignalsHeld, Saving, Unheld, Moved
    <3> QED BY <1>4, <1>6, <2>5, <2>7, <3>1 DEF Saving
  <2> QED BY <1>2, <1>6, <2>5, <2>7, QGoes
<1> QED BY <1>7, <1>8, <1>9, <1>10, <1>11

\* Writing signals, and reading them back in a restore.
LEMMA QSignals ==
  ASSUME QInv, TInv', NEW t \in Thread,
         \/ EmptySignals(t) \/ WriteSignals(t) \/ SetSignals(t)
         \/ RestoreFile(t) \/ RestoreStart(t)
  PROVE  QInv'
<1>1. /\ TInv /\ Types /\ ProcessTypes /\ DiskTypes /\ Fits(t) /\ Serving(t) /\ Saved(t)
  BY DEF TInv, IInv, QInv
<1>2. /\ alive /\ pc[t] # "idle" /\ pc[t] \in {"next"} \cup Sending
      /\ UNCHANGED <<alive, state, config, locked, live, current, servers, listening,
                     configFile, lockFile>>
  BY DEF EmptySignals, WriteSignals, SetSignals, RestoreFile, RestoreStart, At, process, objects,
         disk, Sending
<1>3. /\ state = "SETUP" /\ listening = servers[current] /\ live = Nothing
      /\ Held /\ job[t].op # "change"
  BY <1>1, <1>2 DEF Wiping, Serving, Saved, Making, Ending, Saving, Sending, Unheld
<1>4. ASSUME NEW step \in Steps, step \in {"next"} \cup Sending, Moved(t, step), job'[t].op # "change"
      PROVE  Serving(t)'
  <2>1. pc'[t] = step
    BY <1>4 DEF Moved
  <2> QED BY <1>2, <1>3, <1>4, <2>1 DEF Wiping, Serving, Making, Ending, Sending
<1>5. Held'
  BY <1>2, <1>3 DEF Held
<1>6. ASSUME \A d \in Device : SignalsHeld(d)' PROVE Rested'
  BY <1>2, <1>3, <1>5, <1>6 DEF Rested
<1>7. /\ "writeSignals" \in Steps /\ "setSignals" \in Steps /\ "signals" \in Steps
      /\ "next" \in Steps /\ "maps" \in Steps
  BY DEF Steps
<1>8. CASE EmptySignals(t)
  <2>1. /\ pc[t] = "signals" /\ Go(t, "writeSignals") /\ UNCHANGED <<job, loaded>>
        /\ sigFile' = [sigFile EXCEPT ![job[t].dev] = Torn]
    BY <1>8 DEF EmptySignals, At, Goes, process
  <2>2. \A d \in Device : SignalsHeld(d)' \/ d = job'[t].dev
    BY <1>1, <2>1 DEF Wiping, Saved, SignalsHeld, DiskTypes
  <2>3. ASSUME Moved(t, "writeSignals") PROVE Serving(t)' /\ Saved(t)'
    <3>1. Saved(t)'
      BY <1>5, <2>2, <2>3 DEF Wiping, Saved, Saving, Unheld, Moved
    <3> QED BY <1>3, <1>4, <1>7, <2>1, <2>3, <3>1 DEF Sending
  <2> QED BY <1>2, <1>7, <2>1, <2>3, QGoes
<1>9. CASE WriteSignals(t)
  <2>1. /\ pc[t] = "writeSignals" /\ Go(t, "setSignals") /\ UNCHANGED <<job, loaded>>
        /\ sigFile' = [sigFile EXCEPT ![job[t].dev] = job[t].list]
    BY <1>9 DEF WriteSignals, At, Goes, process
  <2>2. \A d \in Device : SignalsHeld(d)' \/ d = job'[t].dev
    BY <1>1, <2>1 DEF Wiping, Saved, SignalsHeld, DiskTypes
  <2>3. sigFile'[job'[t].dev] = job'[t].list
    BY <1>1, <2>1 DEF DiskTypes, Fits, Sending
  <2>4. ASSUME Moved(t, "setSignals") PROVE Serving(t)' /\ Saved(t)'
    <3>1. Saved(t)'
      BY <1>5, <2>2, <2>3, <2>4 DEF Wiping, Saved, Saving, Unheld, Moved
    <3> QED BY <1>3, <1>4, <1>7, <2>1, <2>4, <3>1 DEF Sending
  <2> QED BY <1>2, <1>7, <2>1, <2>4, QGoes
<1>10. CASE SetSignals(t)
  <2>1. /\ pc[t] = "setSignals" /\ loaded' = [loaded EXCEPT ![job[t].dev] = job[t].list]
        /\ UNCHANGED sigFile
    BY <1>10 DEF SetSignals, At, disk
  <2>2. \A d \in Device : SignalsHeld(d)'
    BY <1>1, <2>1 DEF Wiping, Saved, SignalsHeld, ProcessTypes
  <2>3. CASE Done(t)
    BY <1>2, <1>6, <2>2, <2>3, QDone
  <2>4. CASE Go(t, "next") /\ UNCHANGED job
    <3>1. ASSUME Moved(t, "next") PROVE Serving(t)' /\ Saved(t)'
      <4>1. Saved(t)'
        BY <1>5, <2>2, <3>1 DEF Wiping, Saved, Saving, Unheld, Moved
      <4> QED BY <1>3, <1>4, <1>7, <2>4, <3>1, <4>1
    <3> QED BY <1>2, <1>7, <2>4, <3>1, QGoes
  <2> QED BY <1>10, <2>3, <2>4 DEF SetSignals
<1>11. CASE RestoreFile(t) \/ RestoreStart(t)
  <2>1. pc[t] = "next" /\ UNCHANGED <<loaded, sigFile>>
    BY <1>11 DEF RestoreFile, RestoreStart, At, disk, process
  <2>2. \A d \in Device : SignalsHeld(d) /\ SignalsHeld(d)'
    BY <1>1, <2>1 DEF Wiping, Saved, SignalsHeld
  <2>3. CASE Done(t)
    BY <1>2, <1>6, <2>2, <2>3, QDone
  <2>4. CASE /\ RestoreFile(t) /\ left' = [left EXCEPT ![t] = Tail(@)]
             /\ UNCHANGED <<pc, job, cfg, vlansLeft, mine>>
    <3>1. Idle' => Rested'
      BY <1>2, <2>4 DEF Idle
    <3>2. ASSUME NEW u \in Thread PROVE Serving(u)' /\ Saved(u)'
      <4>1. CASE u = t
        <5>1. pc'[t] = "next" /\ job'[t].op # "change"
          BY <1>3, <2>1, <2>4
        <5>2. Serving(t)'
          BY <1>2, <1>3, <5>1 DEF Wiping, Serving, Making, Ending
        <5>3. Saved(t)'
          BY <1>5, <2>2, <5>1 DEF Wiping, Saved, Saving, Unheld
        <5> QED BY <4>1, <5>2, <5>3
      <4>2. CASE u # t
        <5>1. pc'[u] = "idle"
          BY <1>1, <1>2, <2>4, <4>2 DEF TInv, IInv, Alone
        <5> QED BY <5>1 DEF Wiping, Serving, Saved, Making, Ending, Unheld, Saving
      <4> QED BY <4>1, <4>2
    <3> QED BY <1>2, <3>1, <3>2 DEF QInv
  <2>5. CASE /\ Go(t, "signals")
             /\ job' = [job EXCEPT ![t] = [op |-> "restore", dev |-> Head(left[t]),
                                           list |-> sigFile[Head(left[t])]]]
    <3>1. job'[t].op # "change"
      BY <1>1, <2>5 DEF Types
    <3>2. ASSUME Moved(t, "signals") PROVE Serving(t)' /\ Saved(t)'
      <4>1. Saved(t)'
        BY <1>5, <2>2, <3>2 DEF Wiping, Saved, Saving, Unheld, Moved
      <4> QED BY <1>4, <1>7, <3>1, <3>2, <4>1 DEF Sending
    <3> QED BY <1>2, <1>7, <2>5, <3>2, QGoes
  <2>6. CASE RestoreStart(t) /\ Goes(t, "maps") /\ Ready
    <3>1. Go(t, "maps") /\ UNCHANGED job
      BY <2>6 DEF Goes
    <3>2. ASSUME Moved(t, "maps") PROVE Serving(t)' /\ Saved(t)'
      <4>1. Saved(t)'
        BY <1>5, <2>2, <3>2 DEF Wiping, Saved, Saving, Unheld, Moved
      <4>2. Serving(t)'
        BY <1>2, <1>3, <2>1, <2>6, <3>1, <3>2 DEF Wiping, Serving, Making, Ending, Ready, AllLoaded, Moved
      <4> QED BY <4>1, <4>2
    <3> QED BY <1>2, <1>7, <3>1, <3>2, QGoes
  <2>7. RestoreStart(t) => Done(t) \/ (Goes(t, "maps") /\ Ready)
    BY DEF RestoreStart
  <2>8. RestoreFile(t) =>
          \/ Done(t)
          \/ /\ Go(t, "signals")
             /\ job' = [job EXCEPT ![t] = [op |-> "restore", dev |-> Head(left[t]),
                                           list |-> sigFile[Head(left[t])]]]
          \/ left' = [left EXCEPT ![t] = Tail(@)] /\ UNCHANGED <<pc, job, cfg, vlansLeft, mine>>
    BY DEF RestoreFile
  <2> QED BY <1>11, <2>3, <2>4, <2>5, <2>6, <2>7, <2>8
<1> QED BY <1>8, <1>9, <1>10, <1>11

-----------------------------------------------------------------------------
\* Building the maps, the network and the sockets.
LEMMA QSetup ==
  ASSUME QInv, TInv', NEW t \in Thread,
         \/ BuildMaps(t) \/ Verify(t) \/ AddLink(t) \/ LinkUp(t) \/ AssignIp(t)
         \/ ChooseServers(t)
  PROVE  QInv'
<1>1. /\ TInv /\ Types /\ ProcessTypes /\ LocalTypes /\ Fits(t) /\ Serving(t) /\ Saved(t)
  BY DEF TInv, IInv, QInv
<1>2. /\ alive /\ pc[t] # "idle" /\ pc[t] \in ({"maps"} \cup Making) \ {"bind"}
      /\ UNCHANGED <<alive, state, locked, loaded, listening, configFile, lockFile, sigFile>>
  BY DEF BuildMaps, Verify, AddLink, LinkUp, AssignIp, ChooseServers, SetupFails, At, process,
         objects, disk, Making
<1>3. /\ state = "SETUP" /\ listening = servers[current] /\ AllLoaded
      /\ (pc[t] \in Making => live = loaded) /\ Held /\ (\A d \in Device : SignalsHeld(d))
      /\ job[t].op # "change"
  BY <1>1, <1>2 DEF Wiping, Serving, Saved, Making, Ending, Saving, Unheld
<1>4. ASSUME UNCHANGED config
      PROVE  Held' /\ AllLoaded' /\ \A d \in Device : SignalsHeld(d)'
  BY <1>2, <1>3, <1>4 DEF Held, SignalsHeld, AllLoaded
<1>5. CASE SetupFails(t)
  <2>1. /\ UNCHANGED <<config, current, servers>> /\ live' = Nothing /\ Done(t)
    BY <1>3, <1>5 DEF SetupFails, objects
  <2>2. Rested'
    BY <1>2, <1>3, <1>4, <2>1 DEF Rested
  <2> QED BY <1>2, <2>1, <2>2, QDone
<1>6. ASSUME NEW step \in Steps, step \in Making \ {"bind"}, Go(t, step),
             UNCHANGED <<config, current, servers, job>>, live' = loaded'
      PROVE  QInv'
  <2>1. ASSUME Moved(t, step) PROVE Serving(t)' /\ Saved(t)'
    <3>1. pc'[t] = step
      BY <2>1 DEF Moved
    <3>2. Serving(t)'
      BY <1>2, <1>3, <1>4, <1>6, <3>1 DEF Wiping, Serving, Making, Ending
    <3>3. Saved(t)'
      BY <1>4, <1>6, <3>1 DEF Wiping, Saved, Saving, Unheld, Making
    <3> QED BY <3>2, <3>3
  <2> QED BY <1>2, <1>6, <2>1, QGoes DEF Making
<1>7. /\ "verify" \in Steps /\ "servers" \in Steps /\ "links" \in Steps
      /\ "addrs" \in Steps /\ "linkUp" \in Steps /\ "bind" \in Steps
  BY DEF Steps
<1>8. CASE BuildMaps(t)
  <2>1. /\ live' = loaded /\ UNCHANGED <<config, current, servers>>
        /\ \E step \in {"verify", "servers"} : Go(t, step) /\ UNCHANGED job
    BY <1>3, <1>8 DEF BuildMaps, Goes
  <2> QED BY <1>2, <1>6, <1>7, <2>1 DEF Making
<1>9. CASE Verify(t) \/ AddLink(t) \/ LinkUp(t) \/ AssignIp(t)
  <2>1. pc[t] \in Making
    BY <1>9 DEF Verify, AddLink, LinkUp, AssignIp, At, Making
  <2>2. SetupFails(t) \/ /\ UNCHANGED <<config, current, servers, live, job>>
                         /\ \E step \in {"links", "linkUp", "addrs", "servers"} : Go(t, step)
    BY <1>9 DEF Verify, AddLink, LinkUp, AssignIp, Goes, process, objects
  <2>3. live = loaded
    BY <1>3, <2>1
  <2> QED BY <1>2, <1>5, <1>6, <1>7, <2>2, <2>3 DEF Making
<1>10. CASE ChooseServers(t)
  <2>1. /\ pc[t] = "servers" /\ Go(t, "bind") /\ UNCHANGED <<current, servers, config, live, job>>
        /\ mine' = [mine EXCEPT ![t] = current] /\ left' = [left EXCEPT ![t] = Devices]
    BY <1>3, <1>10 DEF ChooseServers, At
  <2>2. mine'[t] = current /\ left'[t] = Devices
    BY <1>1, <2>1 DEF LocalTypes
  <2>3. Bound(t)'
    BY <2>2 DEF Bound, Device
  <2>4. ASSUME Moved(t, "bind") PROVE Serving(t)' /\ Saved(t)'
    <3>1. pc'[t] = "bind"
      BY <2>4 DEF Moved
    <3>2. Serving(t)'
      BY <1>2, <1>3, <1>4, <2>1, <2>2, <2>3, <3>1 DEF Wiping, Serving, Making, Ending
    <3>3. Saved(t)'
      BY <1>4, <2>1, <3>1 DEF Wiping, Saved, Saving, Unheld, Making
    <3> QED BY <3>2, <3>3
  <2> QED BY <1>2, <1>7, <2>1, <2>4, QGoes
<1> QED BY <1>8, <1>9, <1>10

\* What is not the first of a list is in the rest of it.
LEMMA InTail ==
  ASSUME NEW S, NEW s \in Seq(S), s # <<>>, NEW i \in DOMAIN s, s[i] # Head(s)
  PROVE  \E k \in DOMAIN Tail(s) : Tail(s)[k] = s[i]
<1>1. i \in 1..Len(s) /\ Len(s) \in Nat
  OBVIOUS
<1>2. Head(s) = s[1] /\ Len(Tail(s)) = Len(s) - 1 /\ \A k \in 1..Len(Tail(s)) : Tail(s)[k] = s[k + 1]
  BY HeadTailProperties
<1>3. i # 1
  BY <1>2
<1>4. i - 1 \in 1..Len(Tail(s)) /\ (i - 1) + 1 = i
  BY <1>1, <1>2, <1>3
<1>5. DOMAIN Tail(s) = 1..Len(Tail(s))
  BY HeadTailProperties
<1> QED BY <1>2, <1>4, <1>5

LEMMA QBind ==
  ASSUME QInv, TInv', NEW t \in Thread, Listen(t) \/ BindFails(t) \/ Serve(t)
  PROVE  QInv'
<1>1. /\ TInv /\ Types /\ ProcessTypes /\ ObjectTypes /\ LocalTypes /\ Serving(t) /\ Saved(t)
  BY DEF TInv, IInv, QInv
<1>2. /\ alive /\ pc[t] = "bind"
      /\ UNCHANGED <<alive, config, current, locked, loaded, configFile, lockFile, sigFile>>
  BY DEF Listen, BindFails, Serve, At, process, objects, disk
<1>3. /\ state = "SETUP" /\ listening = servers[current] /\ AllLoaded
      /\ live = loaded /\ Held /\ (\A d \in Device : SignalsHeld(d))
      /\ job[t].op # "change" /\ mine[t] = current /\ Bound(t)
  BY <1>1, <1>2 DEF Wiping, Serving, Saved, Making, Ending, Saving, Unheld
<1>4. Held' /\ AllLoaded' /\ \A d \in Device : SignalsHeld(d)'
  BY <1>2, <1>3 DEF Held, SignalsHeld, AllLoaded
<1>5. CASE Listen(t)
  <2> DEFINE d == Head(left[t])
  <2>1. /\ left[t] # <<>> /\ listening' = listening \cup {d}
        /\ servers' = [servers EXCEPT ![mine[t]] = @ \cup {d}]
        /\ left' = [left EXCEPT ![t] = Tail(@)]
        /\ UNCHANGED <<state, live, pc, job, cfg, mine>>
    BY <1>5 DEF Listen, process
  <2>2. listening' = servers'[current']
    BY <1>1, <1>2, <1>3, <2>1 DEF ProcessTypes, ObjectTypes
  <2>3. left[t] \in Seq(Device) /\ left'[t] = Tail(left[t])
    BY <1>1, <2>1 DEF LocalTypes
  <2>4. Bound(t)'
    <3> SUFFICES ASSUME NEW e \in Device, e \notin listening'
                 PROVE  \E k \in DOMAIN Tail(left[t]) : Tail(left[t])[k] = e
      BY <2>3 DEF Bound
    <3>1. e # d /\ e \notin listening
      BY <2>1
    <3>2. PICK i \in DOMAIN left[t] : left[t][i] = e
      BY <1>3, <3>1 DEF Bound
    <3> QED BY <2>1, <2>3, <3>1, <3>2, InTail
  <2>5. pc'[t] = "bind"
    BY <1>2, <2>1
  <2>6. Serving(t)'
    BY <1>2, <1>3, <1>4, <2>1, <2>2, <2>4, <2>5 DEF Wiping, Serving, Making, Ending
  <2>7. Saved(t)'
    BY <1>4, <2>5 DEF Wiping, Saved, Saving, Unheld
  <2>8. ASSUME NEW u \in Thread, u # t PROVE Serving(u)' /\ Saved(u)'
    <3>1. pc'[u] = "idle"
      BY <1>1, <1>2, <2>1, <2>8 DEF TInv, IInv, Alone
    <3> QED BY <3>1 DEF Wiping, Serving, Saved, Making, Ending, Unheld, Saving
  <2>9. ~Idle' /\ alive'
    BY <1>2, <2>5 DEF Idle
  <2> QED BY <2>6, <2>7, <2>8, <2>9 DEF QInv
<1>6. CASE BindFails(t)
  <2>1. Done(t) /\ live' = Nothing /\ UNCHANGED <<state, servers, listening>>
    BY <1>3, <1>6 DEF BindFails, objects
  <2>2. Rested'
    BY <1>2, <1>3, <1>4, <2>1 DEF Rested
  <2> QED BY <1>2, <2>1, <2>2, QDone
<1>7. CASE Serve(t)
  <2>1. Done(t) /\ state' = "RUNNING" /\ left[t] = <<>> /\ UNCHANGED <<live, servers, listening>>
    BY <1>3, <1>7 DEF Serve, objects
  <2>2. DOMAIN left[t] = {}
    BY <2>1
  <2>3. listening = Device
    BY <1>1, <1>3, <2>2 DEF Bound, ObjectTypes
  <2>4. Rested'
    BY <1>2, <1>3, <1>4, <2>1, <2>3 DEF Rested
  <2> QED BY <1>2, <2>1, <2>4, QDone
<1> QED BY <1>5, <1>6, <1>7

\* stop and reset.
LEMMA QStop ==
  ASSUME QInv, TInv', NEW t \in Thread,
         \/ StopServers(t) \/ Teardown(t) \/ Rename(t)
         \/ UnlinkLock(t) \/ UnlinkConfig(t) \/ RemoveDevices(t) \/ Clear(t)
  PROVE  QInv'
<1>1. /\ TInv /\ Types /\ ProcessTypes /\ ObjectTypes /\ Serving(t) /\ Saved(t)
  BY DEF TInv, IInv, QInv
<1>2. alive /\ pc[t] # "idle" /\ alive' = alive
  BY DEF StopServers, Teardown, Rename, UnlinkLock, UnlinkConfig, RemoveDevices, Clear, At
<1>3. pc[t] \in Ending \ {"exit"} /\ job[t].op # "change"
  BY <1>1 DEF Wiping, StopServers, Teardown, Rename, UnlinkLock, UnlinkConfig, RemoveDevices, Clear, At,
              Ending, Serving
<1>4. state = "STOPPING" /\ (pc[t] = "stopServers" => listening = servers[current])
      /\ (pc[t] # "stopServers" => listening = {})
  BY <1>1, <1>3 DEF Wiping, Serving
<1>5. ASSUME NEW step \in Steps, step \in Ending \ {"stopServers"}, Go(t, step),
             UNCHANGED <<state, job>>, listening' = {}, Moved(t, step) => Saved(t)'
      PROVE  QInv'
  <2>1. ASSUME Moved(t, step) PROVE Serving(t)' /\ Saved(t)'
    <3>1. pc'[t] = step
      BY <2>1 DEF Moved
    <3>2. Serving(t)'
      BY <1>3, <1>4, <1>5, <3>1 DEF Wiping, Serving, Making, Ending
    <3> QED BY <1>5, <2>1, <3>2
  <2> QED BY <1>2, <1>5, <2>1, QGoes DEF Ending
<1>6. /\ "teardown" \in Steps /\ "unlinkLock" \in Steps
      /\ "exit" \in Steps /\ "unlinkConfig" \in Steps
      /\ "rmtree" \in Steps /\ "clear" \in Steps
  BY DEF Steps
<1>7. CASE StopServers(t)
  <2>1. /\ pc[t] = "stopServers" /\ Go(t, "teardown") /\ listening' = listening \ servers[current]
        /\ UNCHANGED <<state, job, config, locked, loaded, configFile, lockFile, sigFile>>
    BY <1>7 DEF StopServers, At, Goes, process, disk
  <2>2. ASSUME Moved(t, "teardown") PROVE Saved(t)'
    BY <1>1, <2>1, <2>2 DEF Wiping, Saved, Saving, Unheld, Moved, Held, SignalsHeld
  <2> QED BY <1>4, <1>5, <1>6, <2>1, <2>2 DEF Ending
<1>8. CASE Teardown(t)
  <2> DEFINE step == CASE job[t].op = "reset" -> "unlinkLock"
                       [] job[t].op = "change" -> "rename"
                       [] OTHER -> "exit"
  <2>1. /\ pc[t] = "teardown" /\ Go(t, step)
        /\ UNCHANGED <<state, job, config, locked, loaded, listening, configFile, lockFile, sigFile>>
    BY <1>8 DEF Teardown, At, Goes, disk
  <2>2. step \in {"unlinkLock", "exit"}
    <3>1. CASE job[t].op = "reset"
      BY <3>1, Zenon
    <3>2. CASE job[t].op # "reset"
      BY <1>3, <3>2, Zenon
    <3> QED BY <3>1, <3>2
  <2> HIDE DEF step
  <2>3. ASSUME Moved(t, step) PROVE Saved(t)'
    BY <1>1, <2>1, <2>2, <2>3 DEF Wiping, Saved, Saving, Unheld, Moved, Held, SignalsHeld
  <2> QED BY <1>4, <1>5, <1>6, <2>1, <2>2, <2>3 DEF Ending
<1>9. CASE Rename(t)
  BY <1>1, <1>9 DEF Wiping, Rename, At, Serving
<1>10. CASE UnlinkLock(t)
  <2>1. /\ pc[t] = "unlinkLock" /\ Go(t, "unlinkConfig")
        /\ UNCHANGED <<state, job, loaded, listening, sigFile>>
    BY <1>10 DEF UnlinkLock, At, Goes, process, objects
  <2>2. ASSUME Moved(t, "unlinkConfig") PROVE Saved(t)'
    BY <1>1, <2>1, <2>2 DEF Wiping, Saved, Saving, Unheld, Moved, SignalsHeld
  <2> QED BY <1>4, <1>5, <1>6, <2>1, <2>2 DEF Ending
<1>11. CASE UnlinkConfig(t)
  <2>1. /\ pc[t] = "unlinkConfig" /\ Go(t, "rmtree")
        /\ UNCHANGED <<state, job, loaded, listening, sigFile>>
    BY <1>11 DEF UnlinkConfig, At, Goes, process, objects
  <2>2. ASSUME Moved(t, "rmtree") PROVE Saved(t)'
    BY <1>1, <2>1, <2>2 DEF Wiping, Saved, Saving, Unheld, Moved, SignalsHeld
  <2> QED BY <1>4, <1>5, <1>6, <2>1, <2>2 DEF Ending
<1>12. CASE RemoveDevices(t)
  <2>1. /\ pc[t] = "rmtree" /\ Go(t, "clear") /\ UNCHANGED <<state, job, listening>>
    BY <1>12 DEF RemoveDevices, At, Goes, process, objects
  <2>2. ASSUME Moved(t, "clear") PROVE Saved(t)'
    BY <2>2 DEF Wiping, Saved, Saving, Unheld, Moved
  <2> QED BY <1>4, <1>5, <1>6, <2>1, <2>2 DEF Ending
<1>13. CASE Clear(t)
  <2>1. /\ pc[t] = "clear" /\ config' = None /\ loaded' = Nothing /\ live' = Nothing
        /\ current' = t /\ servers' = [servers EXCEPT ![t] = {}] /\ state' = "SETUP" /\ Done(t)
        /\ UNCHANGED listening
    BY <1>13 DEF Clear, At
  <2>2. listening' = servers'[current']
    BY <1>1, <1>4, <2>1 DEF ObjectTypes
  <2>3. Rested'
    BY <2>1, <2>2 DEF Rested, Held, SignalsHeld, Nothing
  <2> QED BY <1>2, <2>1, <2>3, QDone
<1> QED BY <1>7, <1>8, <1>9, <1>10, <1>11, <1>12, <1>13

\* A process that is not there serves nothing.
LEMMA AtBoot ==
  ASSUME QInv, ~alive
  PROVE  state = "SETUP" /\ live = Nothing /\ listening = servers[current]
<1>1. Rested /\ loaded = Nothing /\ ProcessTypes
  BY DEF QInv, TInv, IInv
<1>2. PICK d \in Device : loaded[d] = None
  BY <1>1, DevicesSeq DEF Nothing
<1>3. state = "SETUP"
  BY <1>1, <1>2 DEF Rested, AllLoaded, ProcessTypes
<1> QED BY <1>1, <1>3 DEF Rested

\* A boot with --reset removes files, and has loaded none.
LEMMA QWipe ==
  ASSUME QInv, TInv', NEW t \in Thread,
         WipeConfig(t) \/ WipeLock(t) \/ WipeSignals(t) \/ Wiped(t)
  PROVE  QInv'
<1> USE DEF Wiping
<1>1. TInv /\ Types /\ Serving(t) /\ Saved(t) /\ Alone
  BY DEF TInv, IInv, QInv
<1>2. /\ alive /\ pc[t] \in Wiping
      /\ UNCHANGED <<alive, state, config, locked, loaded, live, current, servers, listening>>
  BY DEF WipeConfig, WipeLock, WipeSignals, Wiped, At, process, objects
<1>3. /\ state = "SETUP" /\ listening = servers[current] /\ live = Nothing
      /\ config = None /\ loaded = Nothing
  BY <1>1, <1>2 DEF Wiping, Serving, Saved, Making, Ending
<1>4. ASSUME pc'[t] \in Wiping PROVE Serving(t)' /\ Saved(t)'
  <2>1. Serving(t)'
    BY <1>2, <1>3, <1>4 DEF Wiping, Serving, Making, Ending
  <2>2. Saved(t)'
    BY <1>2, <1>3, <1>4 DEF Wiping, Saved, Saving, Unheld, Held, SignalsHeld, Nothing
  <2> QED BY <2>1, <2>2
<1>5. CASE WipeConfig(t) \/ WipeLock(t)
  <2>1. UNCHANGED pc
    BY <1>5 DEF WipeConfig, WipeLock, thread
  <2>2. ASSUME NEW u \in Thread PROVE Serving(u)' /\ Saved(u)'
    <3>1. CASE u = t
      BY <1>2, <1>4, <2>1, <3>1
    <3>2. CASE u # t
      <4>1. pc'[u] = "idle"
        BY <1>1, <1>2, <2>1, <3>2 DEF Alone
      <4> QED BY <4>1 DEF Wiping, Serving, Saved, Making, Ending, Unheld, Saving
    <3> QED BY <3>1, <3>2
  <2>3. ~Idle'
    BY <1>2, <2>1 DEF Idle
  <2> QED BY <1>2, <2>2, <2>3 DEF QInv
<1>6. CASE WipeSignals(t)
  <2> DEFINE step == IF sigFile' = Nothing THEN "wipe" ELSE "wipeDevices"
  <2>1. step \in Wiping /\ step \in Steps /\ step # "idle" /\ Go(t, step)
    BY <1>6 DEF WipeSignals, Goes, Steps
  <2> HIDE DEF step
  <2>2. ASSUME Moved(t, step) PROVE Serving(t)' /\ Saved(t)'
    BY <1>4, <2>1, <2>2 DEF Moved
  <2> QED BY <1>2, <2>1, <2>2, QGoes
<1>7. CASE Wiped(t)
  <2>1. pc' = [pc EXCEPT ![t] = "idle"]
    BY <1>7 DEF Wiped, Goes, Go
  <2>2. Idle'
    BY <1>1, <1>2, <2>1 DEF Types, Alone, Idle
  <2>3. Rested'
    BY <1>2, <1>3 DEF Rested, Held, SignalsHeld, Nothing
  <2> QED BY <1>2, <2>2, <2>3, Answers
<1> QED BY <1>5, <1>6, <1>7

\* Boots, crashes and the machine.
LEMMA QMachine ==
  ASSUME QInv, TInv', Machine
  PROVE  QInv'
<1>1. TInv /\ IInv /\ (Idle => Rested) /\ (~alive => config = None /\ loaded = Nothing)
  BY DEF QInv, TInv
<1>2. CASE Crash
  BY <1>2, QDies DEF Crash
<1>3. CASE BootPlain
  BY <1>3, QKept DEF BootPlain, process, objects, disk, thread
<1>4. CASE BootReset
  <2>1. /\ ~alive /\ alive' /\ Idle /\ Rested
        /\ UNCHANGED <<state, config, locked, loaded, live, current, servers, listening,
                       configFile, lockFile, sigFile, job, cfg, left, mine>>
    BY <1>1, <1>4 DEF BootReset, IInv, process, objects
  <2>2. CASE UNCHANGED pc
    BY <2>1, <2>2, QKept
  <2>3. CASE pc' = [pc EXCEPT !["main"] = "wipe"]
    <3>1. "main" \in Thread /\ "wipe" \in Steps
      BY DEF Thread, Steps
    <3>2. Moved("main", "wipe")
      BY <1>1, <2>1, <2>3, <3>1 DEF IInv, Types, Idle, Moved, Alone
    <3>3. pc'["main"] = "wipe"
      BY <3>2 DEF Moved
    <3>4. Serving("main")'
      BY <1>1, <2>1, <3>3, AtBoot DEF Serving, Making, Ending, Wiping
    <3>5. Saved("main")'
      BY <1>1, <2>1, <3>3 DEF Saved, Saving, Unheld, Wiping, Held, SignalsHeld, Nothing
    <3> QED BY <2>1, <3>1, <3>2, <3>4, <3>5, GoesOn
  <2> QED BY <1>4, <2>2, <2>3 DEF BootReset
<1>5. CASE BootRestore
  <2>1. CASE UNCHANGED thread
    BY <1>5, <2>1, QKept DEF BootRestore, process, objects, disk, thread
  <2>2. CASE ~UNCHANGED thread
    <3>1. /\ ~alive /\ alive' /\ configFile \notin {None, Torn}
          /\ job' = [job EXCEPT !["main"] = Restoring]
          /\ cfg' = [cfg EXCEPT !["main"] = configFile]
          /\ pc' = [pc EXCEPT !["main"] = "config"]
          /\ UNCHANGED <<process, objects, disk>>
      BY <1>5, <2>2 DEF BootRestore
    <3>2. "main" \in Thread /\ Idle /\ Rested /\ "config" \in Steps
      BY <1>1, <3>1 DEF Thread, IInv, Steps
    <3>3. job'["main"].op = "restore" /\ pc'["main"] = "config"
      BY <1>1, <3>1, <3>2 DEF Types, Restoring, IInv
    <3>4. Moved("main", "config")
      <4>1. TInv' /\ IInv' /\ Alone' /\ pc' \in [Thread -> Steps]
        BY DEF TInv, IInv, Types
      <4> QED BY <3>1, <3>2, <3>3, <4>1 DEF Moved, Alone
    <3>5. UNCHANGED <<state, config, locked, loaded, live, current, servers, listening,
                      configFile, lockFile, sigFile>>
      BY <3>1 DEF process, objects, disk
    <3>6. state = "SETUP" /\ live = Nothing /\ listening = servers[current]
      BY <3>1, AtBoot
    <3>7. Serving("main")'
      BY <3>3, <3>5, <3>6 DEF Serving, Making, Ending, Wiping
    <3>8. Saved("main")'
      BY <1>1, <3>1, <3>2, <3>3, <3>5 DEF Wiping, Saved, Saving, Unheld, SignalsHeld, Rested
    <3> QED BY <3>1, <3>2, <3>4, <3>7, <3>8, GoesOn
  <2> QED BY <2>1, <2>2
<1>6. CASE \/ \E n \in Nic : Unplug(n) \/ Plug(n)
          \/ \E d \in Device : TakePort(d) \/ FreePort(d)
  <2>1. UNCHANGED <<alive, root, process, objects, disk, thread>>
    BY <1>6 DEF Unplug, Plug, TakePort, FreePort
  <2> QED BY <2>1, QKept DEF process, objects, disk, thread
<1> QED BY <1>2, <1>3, <1>4, <1>5, <1>6 DEF Machine

LEMMA QStep ==
  ASSUME OneClient, NoChange, QInv, [Next]_vars
  PROVE  QInv'
<1>1. TInv'
  BY TypesStep DEF QInv
<1>2. CASE \E t \in Worker : \E j \in Jobs[t] : Begin(t, j)
  BY <1>1, <1>2, QBegin
<1>3. ASSUME NEW t \in Thread, Step(t) PROVE QInv'
  <2>1. CASE Exit(t)
    BY <1>1, <2>1, QDies DEF Exit
  <2> QED BY <1>1, <1>3, <2>1, QConfig, QSignals, QSetup, QBind, QStop, QWipe DEF Step
<1>4. CASE Machine
  BY <1>1, <1>4, QMachine
<1>5. CASE UNCHANGED vars
  BY <1>1, <1>5, QKept DEF vars
<1> QED BY <1>2, <1>3, <1>4, <1>5 DEF Next

LEMMA QInductive ==
  ASSUME OneClient, NoChange PROVE Spec => []QInv
<1>1. QInv /\ [Next]_vars => QInv'
  BY QStep
<1> QED BY <1>1, QInvInit, PTL DEF Spec

\* A client that never changes the interface finds a running engine serving every
\* device, and one that is not running without a register map.
THEOREM RunningServesAll ==
  ASSUME OneClient, NoChange PROVE Spec => []RunningServes
BY QInductive, QInvShows, PTL

\* Between its requests the project directory holds what the engine works with.
THEOREM DiskIsCurrent ==
  ASSUME OneClient, NoChange PROVE Spec => []DiskMatches
BY QInductive, QInvShows, PTL

-----------------------------------------------------------------------------
(***************************************************************************)
(* What is in the kernel.                                                  *)
(***************************************************************************)
\* The client does not switch VLANs off, every start is a plain one, and `ip` fails
\* only where the interface is gone.
KernelOwned ==
  /\ Boots \subseteq {"plain"} /\ ~IpMayFail
  /\ \A t \in Worker : \A j \in Jobs[t] : j.op # "vlan"

\* What the simulation of a config makes in the kernel.
MadeLinks(c) == {c.nic} \X VlansToMake(c)
MadeAddrs(c) == {<<d, Target(c, d)>> : d \in Device}

Clean == links = {} /\ addrs = {}
AsMade == links \subseteq MadeLinks(config) /\ addrs \subseteq MadeAddrs(config)
Known == Clean \/ (network # None /\ links \subseteq managers[network].links
                                  /\ addrs \subseteq managers[network].addrs)
ToGive(t) == {<<left[t][i], Target(config, left[t][i])>> : i \in DOMAIN left[t]}
Secured == config # None => locked /\ lockFile

Changes(t) == job[t].op = "change"

\* What is in the kernel at each step of a request.
Found(t) ==
  /\ pc[t] \notin {"next"} \cup Wiping
  /\ pc[t] # "idle" => job[t].op \notin {"restore", "vlan"}
  /\ pc[t] \notin {"idle", "unlinkConfig", "rmtree", "clear"} => Secured
  /\ pc[t] = "setConfig" => lockFile
  /\ pc[t] \in Saving /\ ~Changes(t) => config = None
  /\ pc[t] # "idle" /\ Changes(t) => state = "RUNNING"
  /\ pc[t] \in Saving \cup Sending \cup {"maps"} \cup Making /\ ~Changes(t) => state = "SETUP"
  /\ pc[t] \in {"rename", "read"} => Changes(t)
  /\ pc[t] \in Saving \cup {"rename", "read", "unlinkLock", "unlinkConfig", "rmtree", "clear"}
       => Clean
  /\ pc[t] \in {"maps", "verify"} /\ Changes(t) => Clean
  /\ pc[t] \in Sending => config # None /\ AsMade /\ ~Changes(t)
  /\ pc[t] \in {"maps"} \cup Making /\ ~Changes(t) => AsMade
  /\ pc[t] \in {"verify", "links", "linkUp", "addrs"} => ManageNetwork
  /\ pc[t] \in Making /\ ManageNetwork => network = t
  /\ pc[t] \in {"links", "linkUp"} => left[t] = Devices /\ vlansLeft[t] \subseteq VlansToMake(config)
                                      /\ links \subseteq managers[t].links \cup {config.nic} \X vlansLeft[t]
  /\ pc[t] = "links" /\ Changes(t) => links \subseteq managers[t].links
  /\ pc[t] = "linkUp" /\ Changes(t) => links \subseteq managers[t].links \cup {NextLink(t)}
  /\ pc[t] \in {"links", "linkUp", "addrs"} /\ Changes(t) => addrs \subseteq managers[t].addrs
  /\ pc[t] = "addrs" => links \subseteq managers[t].links
                        /\ addrs \subseteq managers[t].addrs \cup ToGive(t)
  /\ pc[t] \in {"servers", "bind"} => Known
  /\ pc[t] \in {"stopServers", "teardown"} /\ job[t].op # "stop" => Known

Left ==
  /\ Secured /\ state # "STOPPING"
  /\ alive /\ config = None => Clean
  /\ state = "SETUP" /\ config # None => AsMade
  /\ state = "RUNNING" => Known

NInv ==
  /\ TInv
  /\ ~alive => state = "SETUP" /\ config = None
  /\ ~ManageNetwork \/ ~lockFile => Clean
  /\ Idle => Left
  /\ \A t \in Thread : Found(t)

LEMMA NInvInit == Init => NInv
<1> SUFFICES ASSUME Init PROVE NInv
  OBVIOUS
<1>1. \A t \in Thread : pc[t] = "idle"
  BY DEF Init
<1>2. Left
  BY DEF Init, Left, Secured, Clean
<1>3. \A t \in Thread : Found(t)
  BY <1>1 DEF Wiping, Found, Making, Saving, Sending
<1> QED BY <1>2, <1>3, TInvInit DEF Init, NInv, Clean

Unmade == ~ManageNetwork \/ ~lockFile => Clean

\* A step between two of a request.
LEMMA NGoes ==
  ASSUME NInv, TInv', NEW t \in Thread, NEW step \in Steps, step # "idle", pc[t] # "idle",
         alive, alive' = alive, Go(t, step), Unmade', Moved(t, step) => Found(t)'
  PROVE  NInv'
<1>1. Moved(t, step)
  BY MovesAlone DEF NInv, TInv, IInv, Go
<1>2. ASSUME NEW u \in Thread, u # t PROVE Found(u)'
  <2>1. pc'[u] = "idle"
    BY <1>1, <1>2 DEF Moved
  <2> QED BY <2>1 DEF Wiping, Found, Making, Saving, Sending
<1>3. ~Idle'
  BY <1>1 DEF Idle, Moved
<1> QED BY <1>1, <1>2, <1>3 DEF NInv, Unmade

LEMMA NRests ==
  ASSUME TInv', Idle', Left', Unmade', ~alive' => state' = "SETUP" /\ config' = None
  PROVE  NInv'
<1>1. ASSUME NEW u \in Thread PROVE Found(u)'
  <2>1. pc'[u] = "idle"
    BY DEF Idle
  <2> QED BY <2>1 DEF Wiping, Found, Making, Saving, Sending
<1> QED BY <1>1 DEF NInv, Unmade

LEMMA NDone ==
  ASSUME NInv, TInv', NEW t \in Thread, pc[t] # "idle", alive, alive' = alive, Done(t),
         Left', Unmade'
  PROVE  NInv'
<1>1. Idle'
  BY DoneIdle DEF NInv, TInv
<1> QED BY <1>1, NRests

\* Less in the kernel, and nothing else that the invariant speaks of.
LEMMA NShrinks ==
  ASSUME NInv, TInv', ~alive' => ~alive, alive' /\ ~alive => ~lockFile,
         links' \subseteq links, addrs' \subseteq addrs,
         UNCHANGED <<state, config, locked, network, managers, lockFile,
                     pc, job, cfg, left, vlansLeft>>
  PROVE  NInv'
<1>1. Unmade' /\ (Clean => Clean') /\ (AsMade => AsMade') /\ (Known => Known')
  BY DEF NInv, Unmade, Clean, AsMade, Known
<1>2. Idle => (Left => Left')
  BY <1>1 DEF NInv, Unmade, Left, Secured
<1>3. Idle' => Left'
  BY <1>2 DEF NInv, Idle
<1>4. ASSUME NEW t \in Thread PROVE Found(t)'
  <2>1. Found(t) /\ ToGive(t)' = ToGive(t) /\ NextLink(t)' = NextLink(t) /\ Secured' = Secured
    BY DEF NInv, ToGive, NextLink, NextVlan, Secured
  <2> QED BY <1>1, <2>1 DEF Wiping, Found, Changes
<1> QED BY <1>1, <1>3, <1>4 DEF NInv, Unmade

LEMMA NDies ==
  ASSUME NInv, TInv', Died PROVE NInv'
<1>1. Idle' /\ config' = None /\ state' = "SETUP" /\ ~alive'
  BY DEF Died, Idle
<1>2. Left' /\ Unmade'
  BY <1>1 DEF Died, Left, Secured, NInv, Unmade, Clean, disk, machine
<1> QED BY <1>1, <1>2, NRests

\* Requests that begin.
LEMMA NBegin ==
  ASSUME OneClient, KernelOwned, NInv, TInv', NEW t \in Worker, NEW j \in Jobs[t], Begin(t, j)
  PROVE  NInv'
<1>1. t \in Thread /\ TInv /\ Types /\ j.op # "vlan" /\ Unmade
  BY DEF Thread, TInv, IInv, NInv, KernelOwned, Unmade
<1>2. CASE StartRefused(t, j)
  BY <1>2, NShrinks DEF StartRefused, objects, disk, machine, thread
<1>3. ASSUME NEW step \in Steps, step # "idle", Take(t, j, step), UNCHANGED <<alive, machine, lockFile>>,
             Moved(t, step) /\ job'[t] = j => Found(t)'
      PROVE  NInv'
  <2>1. Moved(t, step) /\ Idle /\ job'[t] = j /\ Go(t, step) /\ alive
    BY <1>1, <1>3, TakesIdle, TakesAlone DEF Take, Types
  <2>2. ASSUME NEW u \in Thread, u # t PROVE Found(u)'
    <3>1. pc'[u] = "idle"
      BY <2>1, <2>2 DEF Moved
    <3> QED BY <3>1 DEF Wiping, Found, Making, Saving, Sending
  <2>3. ~Idle' /\ Unmade'
    BY <1>1, <1>3, <2>1 DEF Idle, Moved, Unmade, Clean, machine
  <2> QED BY <1>3, <2>1, <2>2, <2>3 DEF NInv, Unmade
<1>4. ASSUME NEW step, Take(t, j, step) PROVE Left /\ alive
  BY <1>1, <1>4, TakesIdle DEF NInv
<1>5. /\ "config" \in Steps /\ "signals" \in Steps /\ "read" \in Steps
      /\ "maps" \in Steps /\ "stopServers" \in Steps
  BY DEF Steps
<1>6. CASE BeginConfig(t, j)
  <2>1. /\ Take(t, j, "config") /\ state = "SETUP" /\ ~locked /\ j.op = "config"
        /\ UNCHANGED <<alive, state, config, locked, network, managers, lockFile, machine>>
    BY <1>6 DEF BeginConfig, process, objects, disk
  <2>2. config = None /\ Clean
    BY <1>4, <2>1 DEF Left, Secured
  <2>3. ASSUME Moved(t, "config"), job'[t] = j PROVE Found(t)'
    <3>1. pc'[t] = "config"
      BY <2>3 DEF Moved
    <3> QED BY <2>1, <2>2, <2>3, <3>1 DEF Wiping, Found, Making, Saving, Sending, Changes, Secured, Clean, machine
  <2> QED BY <1>3, <1>5, <2>1, <2>3
<1>7. CASE BeginSignals(t, j)
  <2>1. /\ Take(t, j, "signals") /\ state = "SETUP" /\ j.op = "signals" /\ config # None
        /\ UNCHANGED <<alive, state, config, locked, network, managers, lockFile, machine>>
    BY <1>7 DEF BeginSignals, process, objects, disk
  <2>2. Secured' /\ AsMade'
    BY <1>4, <2>1 DEF Left, Secured, AsMade, machine
  <2>3. ASSUME Moved(t, "signals"), job'[t] = j PROVE Found(t)'
    <3>1. pc'[t] = "signals"
      BY <2>3 DEF Moved
    <3> QED BY <2>1, <2>2, <2>3, <3>1 DEF Wiping, Found, Making, Saving, Sending, Changes
  <2> QED BY <1>3, <1>5, <2>1, <2>3
<1>8. CASE BeginVlanMode(t, j)
  BY <1>1, <1>8 DEF BeginVlanMode
<1>9. CASE BeginStart(t, j)
  <2>1. /\ Take(t, j, "maps") /\ state = "SETUP" /\ j.op = "start" /\ config # None
        /\ UNCHANGED <<alive, state, config, locked, network, managers, lockFile, machine>>
    BY <1>9 DEF BeginStart, Ready, objects, disk
  <2>2. Secured' /\ AsMade'
    BY <1>4, <2>1 DEF Left, Secured, AsMade, machine
  <2>3. ASSUME Moved(t, "maps"), job'[t] = j PROVE Found(t)'
    <3>1. pc'[t] = "maps"
      BY <2>3 DEF Moved
    <3> QED BY <2>1, <2>2, <2>3, <3>1 DEF Wiping, Found, Making, Saving, Sending, Changes
  <2> QED BY <1>3, <1>5, <2>1, <2>3
<1>10. CASE BeginReset(t, j) \/ BeginChange(t, j) \/ BeginStop(t, j)
  <2>1. /\ Take(t, j, "stopServers") /\ j.op \in {"reset", "change", "stop"}
        /\ (j.op # "stop" => state = "RUNNING") /\ (j.op = "change" => UNCHANGED state)
        /\ UNCHANGED <<alive, config, locked, network, managers, lockFile, machine>>
    BY <1>10 DEF BeginReset, BeginChange, BeginStop, process, objects, disk
  <2>2. Secured' /\ (j.op # "stop" => Known')
    BY <1>4, <2>1 DEF Left, Secured, Known, Clean, machine
  <2>3. ASSUME Moved(t, "stopServers"), job'[t] = j PROVE Found(t)'
    <3>1. pc'[t] = "stopServers"
      BY <2>3 DEF Moved
    <3> QED BY <2>1, <2>2, <2>3, <3>1 DEF Wiping, Found, Making, Saving, Sending, Changes
  <2> QED BY <1>3, <1>5, <2>1, <2>3
<1> QED BY <1>2, <1>6, <1>7, <1>8, <1>9, <1>10 DEF Begin

-----------------------------------------------------------------------------
\* Writing the config and the signals: the kernel is not touched.
LEMMA NWrite ==
  ASSUME NInv, TInv', NEW t \in Thread,
         \/ EmptyConfig(t) \/ WriteConfig(t) \/ WriteLock(t) \/ SetConfig(t)
         \/ EmptySignals(t) \/ WriteSignals(t) \/ SetSignals(t) \/ ReadConfig(t)
  PROVE  NInv'
<1>1. /\ TInv /\ Types /\ Fits(t) /\ Found(t) /\ Unmade
  BY DEF TInv, IInv, NInv, Unmade
<1>2. /\ alive /\ pc[t] # "idle" /\ pc[t] \in {"read"} \cup Saving \cup Sending
      /\ UNCHANGED <<alive, state, network, managers, links, addrs>>
  BY DEF EmptyConfig, WriteConfig, WriteLock, SetConfig, EmptySignals, WriteSignals,
         SetSignals, ReadConfig, At, process, objects, machine, Saving, Sending
<1>3. job[t].op \notin {"vlan", "restore"}
  BY <1>1, <1>2 DEF Wiping, Found
<1>4. /\ "writeConfig" \in Steps /\ "lock" \in Steps /\ "maps" \in Steps
      /\ "setConfig" \in Steps /\ "writeSignals" \in Steps /\ "setSignals" \in Steps
      /\ "config" \in Steps
  BY DEF Steps
<1>5. ASSUME pc[t] \in {"read"} \cup Saving PROVE Clean /\ Clean' /\ Unmade'
  BY <1>1, <1>2, <1>5 DEF Wiping, Found, Clean, Unmade
<1>6. CASE EmptyConfig(t) \/ WriteLock(t)
  <2>1. PICK step \in {"writeConfig", "setConfig"} :
          /\ Goes(t, step) /\ UNCHANGED <<config, locked>> /\ (lockFile => lockFile')
          /\ \/ pc[t] = "config" /\ step = "writeConfig"
             \/ pc[t] = "lock" /\ step = "setConfig" /\ lockFile'
    BY <1>6 DEF EmptyConfig, WriteLock, At, process
  <2>2. Go(t, step) /\ UNCHANGED job
    BY <2>1 DEF Goes
  <2>3. ASSUME Moved(t, step) PROVE Found(t)'
    <3>1. pc'[t] = step
      BY <2>3 DEF Moved
    <3> QED BY <1>1, <1>2, <1>5, <2>1, <2>2, <3>1
        DEF Wiping, Found, Making, Saving, Sending, Changes, Secured
  <2> QED BY <1>2, <1>4, <1>5, <2>1, <2>2, <2>3, NGoes DEF Saving
<1>7. CASE WriteConfig(t)
  <2> DEFINE step == IF job[t].op = "change" THEN "maps" ELSE "lock"
  <2>1. /\ pc[t] = "writeConfig" /\ Go(t, step) /\ UNCHANGED <<job, config, locked, lockFile>>
    <3>1. /\ pc[t] = "writeConfig" /\ UNCHANGED <<config, locked, lockFile>> /\ AfterWrite(t)
      BY <1>7 DEF WriteConfig, process, At
    <3>2. Goes(t, step)
      BY <1>3, <3>1 DEF AfterWrite
    <3> HIDE DEF step
    <3> QED BY <3>1, <3>2 DEF Goes
  <2>2. (step = "maps" /\ job[t].op = "change") \/ (step = "lock" /\ job[t].op # "change")
    OBVIOUS
  <2> HIDE DEF step
  <2>3. ASSUME Moved(t, step) PROVE Found(t)'
    <3>1. pc'[t] = step
      BY <2>3 DEF Moved
    <3> QED BY <1>1, <1>2, <1>5, <2>1, <2>2, <3>1
        DEF Wiping, Found, Making, Saving, Sending, Changes, Secured
  <2> QED BY <1>2, <1>4, <1>5, <2>1, <2>2, <2>3, NGoes DEF Saving
<1>8. CASE SetConfig(t)
  <2>1. /\ pc[t] = "setConfig" /\ Done(t) /\ locked' = TRUE /\ UNCHANGED lockFile
        /\ config' = cfg[t]
    BY <1>3, <1>8 DEF SetConfig, At, Restores, disk
  <2>2. lockFile /\ Clean' /\ state = "SETUP" /\ cfg[t] \in Configs /\ Unmade'
    BY <1>1, <1>5, <2>1 DEF Wiping, Found, Fits, Saving, Changes
  <2>3. Left'
    BY <1>2, <2>1, <2>2 DEF Left, Secured, AsMade, Clean
  <2> QED BY <1>2, <2>1, <2>2, <2>3, NDone
<1>9. CASE ReadConfig(t)
  <2>1. pc[t] = "read" /\ UNCHANGED <<config, locked, lockFile>>
    BY <1>9 DEF ReadConfig, At, process, disk
  <2>2. /\ state = "RUNNING" /\ Secured /\ Changes(t) /\ Clean' /\ Unmade'
    BY <1>1, <1>5, <2>1 DEF Wiping, Found
  <2>3. CASE Done(t)
    <3>1. Left'
      BY <1>2, <2>1, <2>2 DEF Left, Secured, Known
    <3> QED BY <1>2, <2>2, <2>3, <3>1, NDone
  <2>4. CASE Go(t, "config") /\ UNCHANGED job
    <3>1. ASSUME Moved(t, "config") PROVE Found(t)'
      <4>1. pc'[t] = "config"
        BY <3>1 DEF Moved
      <4> QED BY <1>2, <1>3, <2>1, <2>2, <2>4, <4>1
          DEF Wiping, Found, Making, Saving, Sending, Changes, Secured
    <3> QED BY <1>2, <1>4, <2>2, <2>4, <3>1, NGoes
  <2> QED BY <1>9, <2>3, <2>4 DEF ReadConfig
<1>10. CASE EmptySignals(t) \/ WriteSignals(t) \/ SetSignals(t)
  <2>1. pc[t] \in Sending /\ UNCHANGED <<config, locked, lockFile>>
    BY <1>10 DEF EmptySignals, WriteSignals, SetSignals, At, process, disk, Sending
  <2>2. ~Changes(t) /\ state = "SETUP" /\ Secured /\ config # None /\ AsMade
    BY <1>1, <2>1 DEF Wiping, Found, Sending
  <2>3. Unmade' /\ config' # None /\ AsMade' /\ Secured'
    BY <1>1, <1>2, <2>1, <2>2 DEF Unmade, Clean, AsMade, Secured
  <2>4. CASE ~SetSignals(t)
    <3>1. PICK step \in {"writeSignals", "setSignals"} : Go(t, step) /\ UNCHANGED job
      BY <1>10, <2>4 DEF EmptySignals, WriteSignals, Goes
    <3>2. ASSUME Moved(t, step) PROVE Found(t)'
      <4>1. pc'[t] = step
        BY <3>2 DEF Moved
      <4> QED BY <1>2, <1>3, <2>1, <2>2, <2>3, <3>1, <4>1
          DEF Wiping, Found, Making, Saving, Sending, Changes
    <3> QED BY <1>2, <1>4, <2>3, <3>1, <3>2, NGoes
  <2>5. CASE SetSignals(t)
    <3>1. Done(t)
      BY <1>3, <2>5 DEF SetSignals, Restores
    <3>2. Left'
      BY <1>2, <2>2, <2>3 DEF Left
    <3> QED BY <1>2, <2>3, <3>1, <3>2, NDone
  <2> QED BY <2>4, <2>5
<1> QED BY <1>6, <1>7, <1>8, <1>9, <1>10

-----------------------------------------------------------------------------
\* setup raised, with what it made remembered by the manager in the case of a change.
LEMMA NSetupFails ==
  ASSUME NInv, TInv', NEW t \in Thread, pc[t] \in {"verify", "links", "linkUp", "addrs"},
         alive, SetupFails(t),
         Changes(t) => Clean \/ (links \subseteq managers[t].links /\ addrs \subseteq managers[t].addrs)
  PROVE  NInv'
<1>1. TInv /\ Fits(t) /\ Found(t) /\ Unmade
  BY DEF TInv, NInv, Unmade
<1>2. /\ Done(t) /\ UNCHANGED <<alive, state, locked, network, managers, lockFile, links, addrs>>
      /\ (~Changes(t) => UNCHANGED config)
  BY DEF SetupFails, Changes, objects, disk, machine
<1>3. /\ network = t /\ Secured /\ config # None
      /\ (Changes(t) => state = "RUNNING") /\ (~Changes(t) => state = "SETUP" /\ AsMade)
  BY <1>1 DEF Wiping, Found, Making, Fits
<1>4. Unmade' /\ Secured'
  BY <1>1, <1>2, <1>3 DEF Unmade, Clean, Secured
<1>5. CASE Changes(t)
  <2>1. network # None
    BY <1>3, LifecycleAssumption
  <2>2. Known'
    BY <1>2, <1>3, <1>5, <2>1 DEF Known, Clean
  <2>3. config' # None
    BY <1>2, <1>3, <1>5 DEF TInv
  <2>4. Left'
    BY <1>2, <1>3, <1>4, <1>5, <2>2, <2>3 DEF Left
  <2> QED BY <1>2, <1>4, <2>4, NDone
<1>6. CASE ~Changes(t)
  <2>1. Left'
    BY <1>2, <1>3, <1>4, <1>6 DEF Left, AsMade
  <2> QED BY <1>2, <1>4, <2>1, NDone
<1> QED BY <1>5, <1>6

LEMMA NextLinkLeft ==
  ASSUME TInv, NEW t \in Thread, pc[t] \in {"links", "linkUp"}
  PROVE  /\ NextVlan(t) \in vlansLeft[t]
         /\ NextLink(t) \in {config.nic} \X vlansLeft[t]
<1>1. vlansLeft[t] \subseteq Vlans /\ vlansLeft[t] # {}
  BY DEF TInv, LocalTypes, Fits
<1>2. NextVlan(t) \in vlansLeft[t]
  BY <1>1, NextVlanLeft
<1> QED BY <1>2 DEF NextLink

\* start and change: maps and network.
LEMMA NSetup ==
  ASSUME KernelOwned, NInv, TInv', NEW t \in Thread,
         BuildMaps(t) \/ Verify(t) \/ AddLink(t) \/ LinkUp(t)
  PROVE  NInv'
<1>1. /\ TInv /\ IInv /\ Types /\ ProcessTypes /\ ObjectTypes /\ LocalTypes
      /\ Fits(t) /\ Found(t) /\ Unmade
  BY DEF TInv, IInv, NInv, Unmade
<1>2. alive /\ pc[t] # "idle" /\ pc[t] \in {"maps", "verify", "links", "linkUp"} /\ alive' = alive
  BY DEF BuildMaps, Verify, AddLink, LinkUp, SetupFails, At
<1>3. /\ job[t].op \notin {"vlan", "restore"} /\ Secured /\ config # None
      /\ (Changes(t) => state = "RUNNING") /\ (~Changes(t) => state = "SETUP" /\ AsMade)
  BY <1>1, <1>2 DEF Wiping, Found, Fits, Making
<1>4. /\ "verify" \in Steps /\ "servers" \in Steps /\ "links" \in Steps
      /\ "addrs" \in Steps /\ "linkUp" \in Steps
  BY DEF Steps
<1>5. CASE BuildMaps(t)
  <2>1. /\ pc[t] = "maps"
        /\ UNCHANGED <<state, config, locked, lockFile, links, addrs>>
    BY <1>5 DEF BuildMaps, At, disk, machine
  <2>2. /\ Secured' /\ Unmade' /\ (Changes(t) => Clean') /\ (~Changes(t) => AsMade')
    BY <1>1, <1>3, <2>1 DEF Wiping, Secured, Unmade, AsMade, Clean, Found
  <2>3. CASE ~ManageNetwork
    <3>1. Go(t, "servers") /\ UNCHANGED <<job, network, managers>>
      BY <1>5, <2>3 DEF BuildMaps, Goes
    <3>2. ASSUME Moved(t, "servers") PROVE Found(t)'
      <4>1. pc'[t] = "servers"
        BY <3>2 DEF Moved
      <4>2. Known'
        BY <2>2, <2>3 DEF Unmade, Known
      <4> QED BY <1>3, <2>1, <2>2, <2>3, <3>1, <4>1, <4>2
          DEF Wiping, Found, Making, Saving, Sending, Changes
    <3> QED BY <1>2, <1>4, <2>2, <3>1, <3>2, NGoes
  <2>4. CASE ManageNetwork
    <3>1. Go(t, "verify") /\ UNCHANGED job /\ network' = t
      BY <1>5, <2>4 DEF BuildMaps, Goes
    <3>2. ASSUME Moved(t, "verify") PROVE Found(t)'
      <4>1. pc'[t] = "verify"
        BY <3>2 DEF Moved
      <4> QED BY <1>3, <2>1, <2>2, <2>4, <3>1, <4>1
          DEF Wiping, Found, Making, Saving, Sending, Changes
    <3> QED BY <1>2, <1>4, <2>2, <3>1, <3>2, NGoes
  <2> QED BY <2>3, <2>4
<1>6. CASE Verify(t)
  <2>1. CASE SetupFails(t)
    <3>1. pc[t] = "verify" /\ (Changes(t) => Clean)
      BY <1>1, <1>6 DEF Wiping, Verify, At, Found
    <3> QED BY <1>2, <2>1, <3>1, NSetupFails
  <2>2. CASE ~SetupFails(t)
    <3> DEFINE step == IF vlansLeft'[t] = {} THEN "addrs" ELSE "links"
    <3>1. /\ pc[t] = "verify" /\ Go(t, step)
          /\ vlansLeft' = [vlansLeft EXCEPT ![t] = VlansToMake(config)]
          /\ left' = [left EXCEPT ![t] = Devices]
          /\ UNCHANGED <<state, config, locked, network, managers, lockFile, links, addrs, job>>
      BY <1>6, <2>2 DEF Verify, At, process, objects, disk, machine
    <3>2. vlansLeft'[t] = VlansToMake(config) /\ left'[t] = Devices
      BY <1>1, <3>1 DEF LocalTypes
    <3>3. step = "links" \/ (step = "addrs" /\ VlansToMake(config) = {})
      BY <3>2
    <3> HIDE DEF step
    <3>4. ManageNetwork /\ network = t /\ (Changes(t) => Clean)
      BY <1>1, <3>1 DEF Wiping, Found, Making
    <3>5. Secured' /\ Unmade' /\ (~Changes(t) => AsMade')
      BY <1>1, <1>3, <3>1 DEF Secured, Unmade, AsMade, Clean
    <3>6. links' \subseteq {config'.nic} \X vlansLeft'[t]
      BY <1>3, <3>1, <3>2, <3>4 DEF AsMade, MadeLinks, Clean
    <3>7. addrs' \subseteq ToGive(t)'
      <4>1. ToGive(t)' = {<<Devices[i], Target(config, Devices[i])>> : i \in DOMAIN Devices}
        BY <3>1, <3>2 DEF ToGive
      <4>2. MadeAddrs(config) \subseteq ToGive(t)'
        BY <4>1 DEF MadeAddrs, Device
      <4> QED BY <1>3, <3>1, <3>4, <4>2 DEF AsMade, Clean
    <3>8. Changes(t) => links' = {} /\ addrs' = {}
      BY <3>1, <3>4 DEF Clean
    <3>9. VlansToMake(config)' = VlansToMake(config)
      BY <3>1
    <3>10. ASSUME Moved(t, step) PROVE Found(t)'
      <4>1. pc'[t] = step
        BY <3>10 DEF Moved
      <4>2. CASE step = "links"
        <5> QED BY <1>3, <3>1, <3>2, <3>4, <3>5, <3>6, <3>8, <3>9, <4>1, <4>2
            DEF Wiping, Found, Making, Saving, Sending, Changes
      <4>3. CASE step = "addrs" /\ VlansToMake(config) = {}
        <5>1. links' = {}
          BY <3>2, <3>6, <4>3
        <5> QED BY <1>3, <3>1, <3>4, <3>5, <3>7, <3>8, <4>1, <4>3, <5>1
            DEF Wiping, Found, Making, Saving, Sending, Changes
      <4> QED BY <3>3, <4>2, <4>3
    <3> QED BY <1>2, <1>4, <3>1, <3>3, <3>5, <3>10, NGoes
  <2> QED BY <2>1, <2>2
<1>7. CASE AddLink(t)
  <2>1. CASE SetupFails(t)
    <3>1. pc[t] = "links" /\ (Changes(t) => links \subseteq managers[t].links /\ addrs \subseteq managers[t].addrs)
      BY <1>1, <1>7 DEF Wiping, AddLink, At, Found
    <3> QED BY <1>2, <2>1, <3>1, NSetupFails
  <2>2. CASE ~SetupFails(t)
    <3>1. /\ pc[t] = "links" /\ Go(t, "linkUp") /\ links' = links \cup {NextLink(t)}
          /\ UNCHANGED <<state, config, locked, network, managers, lockFile, addrs, job, left, vlansLeft>>
      BY <1>7, <2>2 DEF AddLink, At, Goes, process, objects, disk
    <3>2. /\ ManageNetwork /\ network = t /\ left[t] = Devices /\ vlansLeft[t] \subseteq VlansToMake(config)
          /\ links \subseteq managers[t].links \cup {config.nic} \X vlansLeft[t]
          /\ (Changes(t) => links \subseteq managers[t].links /\ addrs \subseteq managers[t].addrs)
      BY <1>1, <3>1 DEF Wiping, Found, Making
    <3>3. NextLink(t) \in {config.nic} \X vlansLeft[t]
      BY <1>1, <3>1, NextLinkLeft
    <3>4. Secured' /\ Unmade'
      BY <1>3, <3>1, <3>2 DEF Secured, Unmade
    <3>5. ~Changes(t) => AsMade'
      BY <1>3, <3>1, <3>2, <3>3 DEF AsMade, MadeLinks
    <3>6. /\ links' \subseteq managers'[t].links \cup {config'.nic} \X vlansLeft'[t]
          /\ VlansToMake(config)' = VlansToMake(config) /\ NextLink(t)' = NextLink(t)
      BY <3>1, <3>2, <3>3 DEF NextLink, NextVlan
    <3>7. ASSUME Moved(t, "linkUp") PROVE Found(t)'
      <4>1. pc'[t] = "linkUp"
        BY <3>7 DEF Moved
      <4> QED BY <1>3, <3>1, <3>2, <3>4, <3>5, <3>6, <4>1
          DEF Wiping, Found, Making, Saving, Sending, Changes
    <3> QED BY <1>2, <1>4, <3>1, <3>4, <3>7, NGoes
  <2> QED BY <2>1, <2>2
<1>8. CASE LinkUp(t)
  <2>1. /\ pc[t] = "linkUp"
        /\ ManageNetwork /\ network = t /\ left[t] = Devices /\ vlansLeft[t] \subseteq VlansToMake(config)
        /\ links \subseteq managers[t].links \cup {config.nic} \X vlansLeft[t]
        /\ (Changes(t) => links \subseteq managers[t].links \cup {NextLink(t)} /\ addrs \subseteq managers[t].addrs)
    BY <1>1, <1>8 DEF Wiping, LinkUp, At, Found, Making
  <2>2. CASE SetupFails(t) /\ NextLink(t) \notin links
    BY <1>2, <2>1, <2>2, NSetupFails
  <2> DEFINE step == IF vlansLeft'[t] = {} THEN "addrs" ELSE "links"
  <2>3. CASE /\ Go(t, step) /\ managers' = [managers EXCEPT ![t].links = @ \cup {NextLink(t)}]
             /\ vlansLeft' = [vlansLeft EXCEPT ![t] = @ \ {NextVlan(t)}]
             /\ UNCHANGED <<alive, root, process, servers, listening, disk, machine, job, cfg, left, mine>>
    <3>1. /\ Go(t, step) /\ managers' = [managers EXCEPT ![t].links = @ \cup {NextLink(t)}]
          /\ vlansLeft' = [vlansLeft EXCEPT ![t] = @ \ {NextVlan(t)}]
          /\ UNCHANGED <<state, config, locked, network, lockFile, links, addrs, job, left>>
      BY <2>3 DEF process, disk, machine
    <3>2. /\ vlansLeft'[t] = vlansLeft[t] \ {NextVlan(t)}
          /\ managers'[t].links = managers[t].links \cup {NextLink(t)}
          /\ managers'[t].addrs = managers[t].addrs
      BY <1>1, <3>1 DEF LocalTypes, ObjectTypes, Managers
    <3>3. step = "links" \/ (step = "addrs" /\ vlansLeft'[t] = {})
      OBVIOUS
    <3> HIDE DEF step
    <3>4. Secured' /\ Unmade' /\ (~Changes(t) => AsMade')
      BY <1>1, <1>3, <3>1 DEF Secured, Unmade, AsMade, Clean
    <3>5. links' \subseteq managers'[t].links \cup {config'.nic} \X vlansLeft'[t]
      <4> SUFFICES ASSUME NEW l \in links, l \notin managers'[t].links
                   PROVE  l \in {config.nic} \X vlansLeft'[t]
        BY <3>1
      <4>1. l \in {config.nic} \X vlansLeft[t] /\ l # NextLink(t)
        BY <2>1, <3>2
      <4> QED BY <3>2, <4>1 DEF NextLink
    <3>6. addrs \subseteq MadeAddrs(config) => addrs' \subseteq ToGive(t)'
      <4>1. ToGive(t)' = {<<Devices[i], Target(config, Devices[i])>> : i \in DOMAIN Devices}
        BY <2>1, <3>1 DEF ToGive
      <4>2. MadeAddrs(config) \subseteq ToGive(t)'
        BY <4>1 DEF MadeAddrs, Device
      <4> QED BY <3>1, <4>2
    <3>7. Changes(t) => links' \subseteq managers'[t].links /\ addrs' \subseteq managers'[t].addrs
      BY <2>1, <3>1, <3>2
    <3>8. VlansToMake(config)' = VlansToMake(config) /\ vlansLeft'[t] \subseteq VlansToMake(config)
      BY <2>1, <3>1, <3>2
    <3>9. addrs' \subseteq managers'[t].addrs \cup ToGive(t)'
      BY <1>3, <3>6, <3>7 DEF AsMade
    <3>10. ASSUME Moved(t, step) PROVE Found(t)'
      <4>1. pc'[t] = step
        BY <3>10 DEF Moved
      <4>2. CASE step = "links"
        <5> QED BY <1>3, <2>1, <3>1, <3>4, <3>5, <3>7, <3>8, <4>1, <4>2
            DEF Wiping, Found, Making, Saving, Sending, Changes
      <4>3. CASE step = "addrs" /\ vlansLeft'[t] = {}
        <5>1. links' \subseteq managers'[t].links
          BY <3>5, <4>3
        <5> QED BY <1>3, <2>1, <3>1, <3>4, <3>7, <3>9, <4>1, <4>3, <5>1
            DEF Wiping, Found, Making, Saving, Sending, Changes
      <4> QED BY <3>3, <4>2, <4>3
    <3> QED BY <1>2, <1>4, <3>1, <3>3, <3>4, <3>10, NGoes
  <2> QED BY <1>8, <2>2, <2>3 DEF LinkUp, KernelOwned
<1> QED BY <1>5, <1>6, <1>7, <1>8

\* The addresses.
LEMMA NAssign ==
  ASSUME KernelOwned, NInv, TInv', NEW t \in Thread, AssignIp(t)
  PROVE  NInv'
<1> DEFINE d == Head(left[t])
           a == <<d, Target(config, d)>>
           step == IF Len(left[t]) > 1 THEN "addrs" ELSE "servers"
<1>1. /\ TInv /\ Types /\ ProcessTypes /\ ObjectTypes /\ LocalTypes
      /\ Fits(t) /\ Found(t) /\ Unmade
  BY DEF TInv, IInv, NInv, Unmade
<1>2. alive /\ pc[t] = "addrs" /\ alive' = alive
  BY DEF AssignIp, SetupFails, At
<1>3. /\ job[t].op \notin {"vlan", "restore"} /\ Secured /\ config # None
      /\ (Changes(t) => state = "RUNNING") /\ (~Changes(t) => state = "SETUP" /\ AsMade)
      /\ ManageNetwork /\ network = t /\ links \subseteq managers[t].links
      /\ addrs \subseteq managers[t].addrs \cup ToGive(t)
      /\ (Changes(t) => addrs \subseteq managers[t].addrs)
  BY <1>1, <1>2 DEF Wiping, Found, Fits, Making
<1>4. CASE SetupFails(t)
  BY <1>2, <1>3, <1>4, NSetupFails
<1>5. CASE ~SetupFails(t)
  <2>1. /\ Go(t, step) /\ addrs' = addrs \cup {a}
        /\ managers' = [managers EXCEPT ![t].addrs = @ \cup {a}]
        /\ left' = [left EXCEPT ![t] = Tail(@)]
        /\ UNCHANGED <<state, config, locked, network, lockFile, links, job, vlansLeft>>
    BY <1>5 DEF AssignIp, process, disk
  <2>2. left[t] \in Seq(Device) /\ left[t] # <<>>
    BY <1>1, <1>2 DEF LocalTypes, Fits
  <2>3. d \in Device /\ config \in Configs
    BY <1>1, <1>3, <2>2, HeadTail DEF ProcessTypes
  <2>4. /\ left'[t] = Tail(left[t])
        /\ managers'[t].addrs = managers[t].addrs \cup {a}
        /\ managers'[t].links = managers[t].links
    BY <1>1, <2>1 DEF LocalTypes, ObjectTypes, Managers
  <2>5. addrs' \subseteq managers'[t].addrs \cup ToGive(t)'
    <3> SUFFICES ASSUME NEW b \in addrs, b \notin managers'[t].addrs
                 PROVE  b \in ToGive(t)'
      BY <2>1, <2>4
    <3>1. PICK i \in DOMAIN left[t] : b = <<left[t][i], Target(config, left[t][i])>>
      BY <1>3, <2>4 DEF ToGive
    <3>2. left[t][i] # d
      BY <2>4, <3>1
    <3>3. PICK k \in DOMAIN Tail(left[t]) : Tail(left[t])[k] = left[t][i]
      BY <2>2, <3>2, InTail
    <3> QED BY <2>1, <2>4, <3>1, <3>3 DEF ToGive
  <2>6. step = "addrs" \/ (step = "servers" /\ Tail(left[t]) = <<>>)
    <3> DEFINE n == Len(left[t])
               rest == Tail(left[t])
    <3>1. n \in Nat /\ n # 0 /\ Len(rest) = n - 1 /\ rest \in Seq(Device)
      BY <2>2, HeadTail, EmptySeq
    <3>2. CASE ~(n > 1)
      <4> HIDE DEF n, rest
      <4>1. Len(rest) = 0
        BY <3>1, <3>2
      <4>2. rest = <<>>
        BY <3>1, <4>1, EmptySeq
      <4> USE DEF n, rest
      <4> QED BY <3>2, <4>2
    <3> QED BY <3>2
  <2>7. ~Changes(t) => AsMade'
    BY <1>3, <2>1, <2>3 DEF AsMade, MadeAddrs
  <2> HIDE DEF step, a, d
  <2>8. Secured' /\ Unmade'
    BY <1>3, <2>1 DEF Secured, Unmade
  <2>9. /\ links' \subseteq managers'[t].links
        /\ (Changes(t) => addrs' \subseteq managers'[t].addrs)
    BY <1>3, <2>1, <2>4
  <2>10. ASSUME Moved(t, step) PROVE Found(t)'
    <3>1. pc'[t] = step
      BY <2>10 DEF Moved
    <3>2. CASE step = "addrs"
      BY <1>3, <2>1, <2>5, <2>7, <2>8, <2>9, <3>1, <3>2
      DEF Wiping, Found, Making, Saving, Sending, Changes
    <3>3. CASE step = "servers" /\ Tail(left[t]) = <<>>
      <4>1. ToGive(t)' = {}
        BY <2>4, <3>3 DEF ToGive
      <4>2. network' # None /\ network' = t
        BY <1>3, <2>1, LifecycleAssumption
      <4>3. Known'
        BY <2>5, <2>9, <4>1, <4>2 DEF Known
      <4> QED BY <1>3, <2>1, <2>7, <2>8, <3>1, <3>3, <4>2, <4>3
          DEF Wiping, Found, Making, Saving, Sending, Changes
    <3> QED BY <2>6, <3>2, <3>3
  <2>11. "addrs" \in Steps /\ "servers" \in Steps
    BY DEF Steps
  <2> QED BY <1>2, <2>1, <2>6, <2>8, <2>10, <2>11, NGoes
<1> QED BY <1>4, <1>5

\* The sockets: the kernel's interfaces are not touched.
LEMMA NBind ==
  ASSUME NInv, TInv', NEW t \in Thread, ChooseServers(t) \/ Listen(t) \/ BindFails(t) \/ Serve(t)
  PROVE  NInv'
<1>1. /\ TInv /\ IInv /\ Types /\ LocalTypes /\ Fits(t) /\ Found(t) /\ Unmade
  BY DEF TInv, IInv, NInv, Unmade
<1>2. /\ alive /\ pc[t] # "idle" /\ pc[t] \in {"servers", "bind"} /\ alive' = alive
      /\ UNCHANGED <<config, locked, network, managers, lockFile, links, addrs>>
  BY DEF ChooseServers, Listen, BindFails, Serve, At, process, objects, disk, machine
<1>3. /\ job[t].op \notin {"vlan", "restore"} /\ Secured /\ config # None /\ Known
      /\ (Changes(t) => state = "RUNNING") /\ (~Changes(t) => state = "SETUP" /\ AsMade)
      /\ (ManageNetwork => network = t)
  BY <1>1, <1>2 DEF Wiping, Found, Fits, Making
<1>4. Secured' /\ Unmade' /\ Known' /\ (~Changes(t) => AsMade')
  BY <1>1, <1>2, <1>3 DEF Secured, Unmade, Known, Clean, AsMade
<1>5. CASE ChooseServers(t)
  <2>1. Go(t, "bind") /\ UNCHANGED <<state, job>> /\ "bind" \in Steps
    BY <1>5 DEF ChooseServers, Steps
  <2>2. ASSUME Moved(t, "bind") PROVE Found(t)'
    <3>1. pc'[t] = "bind"
      BY <2>2 DEF Moved
    <3> QED BY <1>2, <1>3, <1>4, <2>1, <3>1 DEF Wiping, Found, Making, Saving, Sending, Changes
  <2> QED BY <1>2, <1>4, <2>1, <2>2, NGoes
<1>6. CASE Listen(t)
  <2>1. UNCHANGED <<state, pc, job>> /\ pc[t] = "bind"
    BY <1>6 DEF Listen, At, process
  <2>2. Found(t)'
    BY <1>2, <1>3, <1>4, <2>1 DEF Wiping, Found, Making, Saving, Sending, Changes
  <2>3. ASSUME NEW u \in Thread, u # t PROVE Found(u)'
    <3>1. pc'[u] = "idle"
      BY <1>1, <1>2, <2>1, <2>3 DEF IInv, Alone
    <3> QED BY <3>1 DEF Wiping, Found, Making, Saving, Sending
  <2>4. ~Idle'
    BY <2>1 DEF Idle
  <2> QED BY <1>2, <1>4, <2>2, <2>3, <2>4 DEF NInv, Unmade
<1>7. CASE BindFails(t)
  <2>1. Done(t) /\ UNCHANGED state
    BY <1>7 DEF BindFails
  <2>2. Left'
    BY <1>2, <1>3, <1>4, <2>1 DEF Left
  <2> QED BY <1>2, <1>4, <2>1, <2>2, NDone
<1>8. CASE Serve(t)
  <2>1. Done(t) /\ state' = "RUNNING"
    BY <1>3, <1>8 DEF Serve, Changes
  <2>2. Left'
    BY <1>2, <1>3, <1>4, <2>1 DEF Left
  <2> QED BY <1>2, <1>4, <2>1, <2>2, NDone
<1> QED BY <1>5, <1>6, <1>7, <1>8

\* stop, reset and change of interface.
LEMMA NStop ==
  ASSUME KernelOwned, NInv, TInv', NEW t \in Thread,
         \/ StopServers(t) \/ Teardown(t) \/ Rename(t)
         \/ UnlinkLock(t) \/ UnlinkConfig(t) \/ RemoveDevices(t) \/ Clear(t)
  PROVE  NInv'
<1>1. /\ TInv /\ Types /\ ProcessTypes /\ ObjectTypes /\ Fits(t) /\ Found(t) /\ Unmade
  BY DEF TInv, IInv, NInv, Unmade
<1>2. alive /\ pc[t] # "idle" /\ alive' = alive
  BY DEF StopServers, Teardown, Rename, UnlinkLock, UnlinkConfig, RemoveDevices, Clear, At
<1>3. job[t].op \notin {"vlan", "restore"} /\ (Changes(t) => state = "RUNNING")
  BY <1>1, <1>2 DEF Wiping, Found
<1>4. /\ "teardown" \in Steps /\ "unlinkLock" \in Steps /\ "rename" \in Steps
      /\ "exit" \in Steps /\ "read" \in Steps /\ "unlinkConfig" \in Steps
      /\ "rmtree" \in Steps /\ "clear" \in Steps
  BY DEF Steps
<1>5. CASE StopServers(t)
  <2>1. /\ pc[t] = "stopServers" /\ Go(t, "teardown")
        /\ UNCHANGED <<state, job, config, locked, network, managers, lockFile, links, addrs>>
    BY <1>5 DEF StopServers, At, Goes, process, disk, machine
  <2>2. /\ Secured' /\ Unmade' /\ (job[t].op # "stop" => Known')
    BY <1>1, <2>1 DEF Wiping, Found, Secured, Unmade, Known, Clean
  <2>3. ASSUME Moved(t, "teardown") PROVE Found(t)'
    <3>1. pc'[t] = "teardown"
      BY <2>3 DEF Moved
    <3> QED BY <1>3, <2>1, <2>2, <3>1 DEF Wiping, Found, Making, Saving, Sending, Changes
  <2> QED BY <1>2, <1>4, <2>1, <2>2, <2>3, NGoes
<1>6. CASE Teardown(t)
  <2> DEFINE step == CASE job[t].op = "reset" -> "unlinkLock"
                       [] job[t].op = "change" -> "rename"
                       [] OTHER -> "exit"
  <2>1. /\ pc[t] = "teardown" /\ Go(t, step) /\ UNCHANGED <<state, job, config, locked, lockFile>>
    BY <1>6 DEF Teardown, At, Goes, disk
  <2>2. \/ job[t].op # "stop" /\ step = "unlinkLock" /\ ~Changes(t)
        \/ Changes(t) /\ step = "rename"
        \/ step = "exit" /\ ~Changes(t)
    <3>1. CASE job[t].op = "reset"
      BY <3>1, Zenon DEF Changes
    <3>2. CASE job[t].op = "change"
      BY <3>2, Zenon DEF Changes
    <3>3. CASE job[t].op # "reset" /\ job[t].op # "change"
      BY <3>3, Zenon DEF Changes
    <3> QED BY <3>1, <3>2, <3>3
  <2> HIDE DEF step
  <2>3. links' \subseteq links /\ addrs' \subseteq addrs
    BY <1>6 DEF Teardown, WithoutLinks
  <2>4. Secured /\ Secured' /\ Unmade'
    BY <1>1, <2>1, <2>3 DEF Wiping, Found, Secured, Unmade, Clean
  <2>5. Known => Clean'
    <3>1. CASE Clean
      BY <2>3, <3>1 DEF Clean
    <3>2. CASE network # None /\ links \subseteq managers[network].links
                              /\ addrs \subseteq managers[network].addrs
      <4>1. /\ links' = links \ managers[network].links
            /\ addrs' = WithoutLinks(addrs \ managers[network].addrs, managers[network].links)
        BY <1>6, <3>2, LifecycleAssumption DEF Teardown, Removed, KernelOwned
      <4> QED BY <3>2, <4>1 DEF WithoutLinks, Clean
    <3> QED BY <3>1, <3>2 DEF Known
  <2>6. job[t].op # "stop" => Clean'
    BY <1>1, <2>1, <2>5 DEF Wiping, Found
  <2>7. Changes(t) => job[t].op # "stop"
    BY DEF Changes
  <2>8. ASSUME Moved(t, step) PROVE Found(t)'
    <3>1. pc'[t] = step
      BY <2>8 DEF Moved
    <3>2. CASE job[t].op # "stop" /\ step = "unlinkLock" /\ ~Changes(t)
      BY <1>3, <2>1, <2>4, <2>6, <3>1, <3>2 DEF Wiping, Found, Making, Saving, Sending, Changes
    <3>3. CASE Changes(t) /\ step = "rename"
      BY <1>3, <2>1, <2>4, <2>6, <2>7, <3>1, <3>3 DEF Wiping, Found, Making, Saving, Sending, Changes
    <3>4. CASE step = "exit" /\ ~Changes(t)
      BY <1>3, <2>1, <2>4, <3>1, <3>4 DEF Wiping, Found, Making, Saving, Sending, Changes
    <3> QED BY <2>2, <3>2, <3>3, <3>4
  <2>9. step \in Steps /\ step # "idle"
    BY <1>4, <2>2
  <2> QED BY <1>2, <2>1, <2>4, <2>8, <2>9, NGoes
<1>7. CASE Rename(t)
  <2>1. /\ pc[t] = "rename" /\ Go(t, "read")
        /\ job' = [job EXCEPT ![t] = [op |-> "change", nic |-> job[t].nic, old |-> config.nic]]
        /\ UNCHANGED <<state, locked, lockFile, links, addrs>>
    BY <1>7 DEF Rename, At, disk, machine
  <2>2. Changes(t) /\ Changes(t)'
    BY <1>1, <2>1 DEF Wiping, Found, Types, Changes
  <2>3. config # None /\ Secured /\ Clean
    BY <1>1, <2>1 DEF Wiping, Fits, Found
  <2>4. Secured' /\ Unmade' /\ Clean'
    BY <1>1, <2>1, <2>3 DEF Secured, Unmade, Clean
  <2>5. ASSUME Moved(t, "read") PROVE Found(t)'
    <3>1. pc'[t] = "read" /\ job'[t].op = "change"
      BY <2>2, <2>5 DEF Moved, Changes
    <3> QED BY <1>3, <2>1, <2>2, <2>4, <3>1 DEF Wiping, Found, Making, Saving, Sending
  <2> QED BY <1>2, <1>4, <2>1, <2>4, <2>5, NGoes
<1>8. CASE UnlinkLock(t) \/ UnlinkConfig(t) \/ RemoveDevices(t)
  <2>1. PICK step \in {"unlinkConfig", "rmtree", "clear"} : Go(t, step)
    BY <1>8 DEF UnlinkLock, UnlinkConfig, RemoveDevices, Goes
  <2>2. /\ UNCHANGED <<state, job, links, addrs>> /\ pc[t] \in {"unlinkLock", "unlinkConfig", "rmtree"}
    BY <1>8 DEF UnlinkLock, UnlinkConfig, RemoveDevices, Goes, At, process, machine
  <2>3. Clean' /\ Unmade'
    BY <1>1, <2>2 DEF Wiping, Found, Clean, Unmade
  <2>4. ASSUME Moved(t, step) PROVE Found(t)'
    <3>1. pc'[t] = step
      BY <2>4 DEF Moved
    <3> QED BY <1>3, <2>1, <2>2, <2>3, <3>1 DEF Wiping, Found, Making, Saving, Sending, Changes
  <2> QED BY <1>2, <1>4, <2>1, <2>3, <2>4, NGoes
<1>9. CASE Clear(t)
  <2>1. /\ pc[t] = "clear" /\ config' = None /\ state' = "SETUP" /\ Done(t)
        /\ UNCHANGED <<links, addrs>>
    BY <1>9 DEF Clear, At, machine
  <2>2. Clean' /\ Unmade'
    BY <1>1, <2>1 DEF Wiping, Found, Clean, Unmade
  <2>3. Left'
    BY <2>1, <2>2 DEF Left, Secured
  <2> QED BY <1>2, <2>1, <2>2, <2>3, NDone
<1> QED BY <1>5, <1>6, <1>7, <1>8, <1>9

LEMMA NMachine ==
  ASSUME KernelOwned, NInv, TInv', Machine
  PROVE  NInv'
<1>1. CASE Crash
  BY <1>1, NDies DEF Crash
<1>2. CASE BootPlain
  BY <1>2, NShrinks DEF BootPlain, process, objects, disk, machine, thread
<1>3. CASE BootReset \/ BootRestore
  BY <1>3 DEF BootReset, BootRestore, KernelOwned
<1>4. CASE \/ \E n \in Nic : Unplug(n) \/ Plug(n)
          \/ \E d \in Device : TakePort(d) \/ FreePort(d)
  <2>1. UNCHANGED <<alive, root, process, objects, disk, thread>>
    BY <1>4 DEF Unplug, Plug, TakePort, FreePort
  <2>2. links' \subseteq links /\ addrs' \subseteq addrs
    BY <1>4 DEF Unplug, Plug, TakePort, FreePort
  <2> QED BY <2>1, <2>2, NShrinks DEF process, objects, disk, thread
<1> QED BY <1>1, <1>2, <1>3, <1>4 DEF Machine

LEMMA NStep ==
  ASSUME OneClient, KernelOwned, NInv, [Next]_vars
  PROVE  NInv'
<1>1. TInv'
  BY TypesStep DEF NInv
<1>2. CASE \E t \in Worker : \E j \in Jobs[t] : Begin(t, j)
  BY <1>1, <1>2, NBegin
<1>3. ASSUME NEW t \in Thread, Step(t) PROVE NInv'
  <2>1. CASE Exit(t)
    BY <1>1, <2>1, NDies DEF Exit
  <2>2. CASE RestoreFile(t) \/ RestoreStart(t)
    BY <2>2 DEF Wiping, RestoreFile, RestoreStart, At, NInv, Found
  <2>3. CASE WipeConfig(t) \/ WipeLock(t) \/ WipeSignals(t) \/ Wiped(t)
    BY <2>3 DEF Wiping, WipeConfig, WipeLock, WipeSignals, Wiped, At, NInv, Found
  <2> QED BY <1>1, <1>3, <2>1, <2>2, <2>3, NWrite, NSetup, NAssign, NBind, NStop DEF Step
<1>4. CASE Machine
  BY <1>1, <1>4, NMachine
<1>5. CASE UNCHANGED vars
  BY <1>1, <1>5, NShrinks DEF vars
<1> QED BY <1>2, <1>3, <1>4, <1>5 DEF Next

LEMMA NInductive ==
  ASSUME OneClient, KernelOwned PROVE Spec => []NInv
<1>1. NInv /\ [Next]_vars => NInv'
  BY NStep
<1> QED BY <1>1, NInvInit, PTL DEF Spec

\* A reset leaves nothing of the simulation in the kernel, whatever starts failed and
\* whatever interface it was moved to before, with one client that does not switch
\* VLANs off, plain starts only, and an `ip` that fails only for a missing interface.
THEOREM ResetLeavesNothing ==
  ASSUME OneClient, KernelOwned PROVE Spec => ResetCleansNetwork
<1>1. NInv /\ [Next]_vars =>
        [\A t \in Thread : At(t, "clear") /\ alive' /\ pc'[t] = "idle" =>
           links = {} /\ addrs = {}]_vars
  BY DEF Wiping, NInv, Found, At, Clean
<1> QED BY <1>1, NInductive, PTL DEF Spec, ResetCleansNetwork
=============================================================================
