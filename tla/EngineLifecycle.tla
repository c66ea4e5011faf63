--------------------------- MODULE EngineLifecycle ---------------------------
(***************************************************************************)
(* The engine process (main.py, state_machine.py, and how they use         *)
(* network_manager.py and the manager of modbus_server.py): setup, start,  *)
(* reset, change of the traffic interface, stop, and the three ways of     *)
(* starting the process again over what it left on disk and in the kernel. *)
(*                                                                         *)
(* Flask serves each request in its own thread; reset alone takes the lock *)
(* for its first step.  Thread "main" restores a project before Flask      *)
(* serves.  A request refused by a guard changes nothing and is not a      *)
(* step.  Signal lists are values of Lists, in files of devices/: their    *)
(* contents and hot reload are the subject of HotReload, simulation.json   *)
(* too, and files elsewhere of ProjectReset.                               *)
(***************************************************************************)
EXTENDS NetworkOps

CONSTANTS
  Worker,         \* Flask threads
  Jobs,           \* Jobs[t]: the requests a worker may be asked to serve
  Boots,          \* ways the process is started: "plain", "reset", "restore"
  Lists,          \* valid signal lists
  Rights,         \* whether it may be started with (TRUE) and without (FALSE) root
  Privileged,     \* some device has a port below 1024
  ManageNetwork,  \* not started with --no-network
  IpMayFail,      \* an `ip` command may fail though the NIC is there
  Busy,           \* ports another program may be listening on
  None, Torn

Thread == Worker \cup {"main"}

ASSUME LifecycleAssumption ==
  /\ "main" \notin Worker /\ "first" \notin Thread /\ None \notin Thread
  /\ Rights \subseteq BOOLEAN /\ Privileged \in BOOLEAN
  /\ ManageNetwork \in BOOLEAN /\ IpMayFail \in BOOLEAN
  /\ Busy \subseteq Device
  /\ None \notin Lists /\ Torn \notin Lists
  /\ None \notin Configs /\ Torn \notin Configs /\ None # Torn
  /\ Boots \subseteq {"plain", "reset", "restore"}

\* Requests.
Config(c) == [op |-> "config", cfg |-> c]
Signals(d, l) == [op |-> "signals", dev |-> d, list |-> l]
VlanMode(v) == [op |-> "vlan", vlan |-> v]
Start == [op |-> "start"]
Reset == [op |-> "reset"]
ChangeNic(n) == [op |-> "change", nic |-> n]
Stop == [op |-> "stop"]
NoJob == [op |-> "none"]
Restoring == [op |-> "restore"]

\* Texts are validated before anything is written.
ASSUME JobsAssumption ==
  \A t \in Worker : \A j \in Jobs[t] :
    /\ j.op = "config" => j.cfg \in Configs
    /\ j.op = "signals" => j.dev \in Device /\ j.list \in Lists
    /\ j.op = "vlan" => j.vlan \in BOOLEAN
    /\ j.op = "change" => j.nic \in Nic

VARIABLES
  \* the process
  alive, root, state, config, locked, loaded, live, startError,
  network,    \* _network: the thread that made that NetworkManager, or None
  current,    \* _servers: the thread that made that ModbusServerManager
  managers,   \* the NetworkManager each thread made last
  servers,    \* the devices each ModbusServerManager has recorded a server for
  listening,  \* the devices this process holds a listening socket for
  \* the project directory
  configFile, lockFile, sigFile,
  wiping,     \* a --reset has begun to wipe it, and nothing was uploaded since
  \* the machine
  nics, links, addrs,
  taken,      \* ports held by another program
  \* each thread
  pc, job,
  cfg,        \* the config it writes, or the one it must go back to
  left,       \* the devices it has not dealt with yet
  vlansLeft,  \* the VLANs it has not made yet
  mine        \* the ModbusServerManager it binds with

process == <<state, config, locked, loaded, live, startError, network, current>>
objects == <<managers, servers, listening>>
disk == <<configFile, lockFile, sigFile, wiping>>
machine == <<nics, links, addrs, taken>>
thread == <<pc, job, cfg, left, vlansLeft, mine>>
vars == <<alive, root, state, config, locked, loaded, live, startError, network, current,
          managers, servers, listening, configFile, lockFile, sigFile, wiping,
          nics, links, addrs, taken, pc, job, cfg, left, vlansLeft, mine>>

Steps == {"idle", "next", "config", "writeConfig", "lock", "setConfig",
          "signals", "writeSignals", "setSignals", "read",
          "maps", "verify", "links", "linkUp", "addrs", "servers", "bind",
          "stopServers", "teardown", "unlinkLock", "unlinkConfig", "rmtree", "clear",
          "rename", "exit", "wipe", "wipeDevices"}

TypeOK ==
  /\ alive \in BOOLEAN /\ root \in BOOLEAN /\ state \in {"SETUP", "RUNNING", "STOPPING"}
  /\ config \in Configs \cup {None} /\ locked \in BOOLEAN /\ startError \in BOOLEAN
  /\ loaded \in [Device -> Lists \cup {None}]
  /\ live \in [Device -> Lists \cup {None}]
  /\ network \in Thread \cup {None} /\ current \in Thread \cup {"first"}
  /\ managers \in [Thread -> Managers]
  /\ servers \in [Thread \cup {"first"} -> SUBSET Device]
  /\ listening \subseteq Device /\ taken \subseteq Busy
  /\ configFile \in Configs \cup {None, Torn} /\ lockFile \in BOOLEAN
  /\ sigFile \in [Device -> Lists \cup {None, Torn}] /\ wiping \in BOOLEAN
  /\ nics \subseteq Nic /\ links \subseteq Links /\ addrs \subseteq Addrs
  /\ pc \in [Thread -> Steps]
  /\ cfg \in [Thread -> Configs \cup {None, Torn}]
  /\ vlansLeft \in [Thread -> SUBSET Vlans]
  /\ mine \in [Thread -> Thread \cup {"first"}]
  /\ left \in [Thread -> Seq(Device)]

-----------------------------------------------------------------------------
Nothing == [d \in Device |-> None]

Init ==
  /\ alive = FALSE /\ root = FALSE /\ state = "SETUP" /\ config = None /\ locked = FALSE
  /\ loaded = Nothing /\ live = Nothing /\ startError = FALSE
  /\ network = None /\ current = "first"
  /\ managers = [t \in Thread |-> NewManager]
  /\ servers = [t \in Thread \cup {"first"} |-> {}]
  /\ listening = {}
  /\ configFile = None /\ lockFile = FALSE /\ sigFile = Nothing /\ wiping = FALSE
  /\ nics = Nic /\ links = {} /\ addrs = {} /\ taken = {}
  /\ pc = [t \in Thread |-> "idle"] /\ job = [t \in Thread |-> NoJob]
  /\ cfg = [t \in Thread |-> None]
  /\ left = [t \in Thread |-> <<>>] /\ vlansLeft = [t \in Thread |-> {}]
  /\ mine = [t \in Thread |-> "first"]

At(t, step) == alive /\ pc[t] = step
Go(t, step) == pc' = [pc EXCEPT ![t] = step]
Goes(t, step) == Go(t, step) /\ UNCHANGED <<job, cfg, left, vlansLeft, mine>>
\* The thread has answered, or raised; its locals go.
Done(t) ==
  /\ Go(t, "idle")
  /\ job' = [job EXCEPT ![t] = NoJob]
  /\ cfg' = [cfg EXCEPT ![t] = None]
  /\ left' = [left EXCEPT ![t] = <<>>]
  /\ vlansLeft' = [vlansLeft EXCEPT ![t] = {}]
  /\ mine' = [mine EXCEPT ![t] = "first"]

\* A request is taken on by an idle worker once Flask serves.
Take(t, j, step) ==
  /\ alive /\ t \in Worker /\ pc[t] = "idle" /\ pc["main"] = "idle"
  /\ job' = [job EXCEPT ![t] = j]
  /\ Go(t, step)

Restores(t) == job[t].op = "restore"
Ready == config # None /\ \A d \in Device : loaded[d] # None

(***************************************************************************)
(* SETUP: upload_config, upload_signals, set_vlan_mode.                    *)
(***************************************************************************)
BeginConfig(t, j) ==
  /\ Take(t, j, "config") /\ j.op = "config"
  /\ state = "SETUP" /\ ~locked
  /\ cfg' = [cfg EXCEPT ![t] = j.cfg]
  /\ UNCHANGED <<alive, root, process, objects, disk, machine, left, vlansLeft, mine>>

\* write_text: the file is emptied, then written.
EmptyConfig(t) ==
  /\ At(t, "config")
  /\ configFile' = Torn /\ wiping' = FALSE
  /\ Goes(t, "writeConfig")
  /\ UNCHANGED <<alive, root, process, objects, lockFile, sigFile, machine>>

\* The rest of the request that writes it: an upload goes on to the lock file,
\* a change of interface to the network, set_vlan_mode has done its work.
AfterWrite(t) ==
  \/ job[t].op = "vlan" /\ Done(t)
  \/ /\ job[t].op # "vlan"
     /\ Goes(t, IF job[t].op = "change" THEN "maps" ELSE "lock")

WriteConfig(t) ==
  /\ At(t, "writeConfig")
  /\ configFile' = cfg[t]
  /\ AfterWrite(t)
  /\ UNCHANGED <<alive, root, process, objects, lockFile, sigFile, wiping, machine>>

WriteLock(t) ==
  /\ At(t, "lock")
  /\ lockFile' = TRUE
  /\ Goes(t, "setConfig")
  /\ UNCHANGED <<alive, root, process, objects, configFile, sigFile, wiping, machine>>

SetConfig(t) ==
  /\ At(t, "setConfig")
  /\ config' = cfg[t]
  /\ locked' = TRUE
  /\ \/ /\ Restores(t)
        /\ Go(t, "next")
        /\ left' = [left EXCEPT ![t] = Devices]
        /\ UNCHANGED <<job, cfg, vlansLeft, mine>>
     \/ ~Restores(t) /\ Done(t)
  /\ UNCHANGED <<alive, root, state, loaded, live, startError, network, current,
                 objects, disk, machine>>

\* Signals are a file to write and a list to keep; the config must be there.
BeginSignals(t, j) ==
  /\ Take(t, j, "signals") /\ j.op = "signals"
  /\ state = "SETUP" /\ config # None
  /\ UNCHANGED <<alive, root, process, objects, disk, machine, cfg, left, vlansLeft, mine>>

EmptySignals(t) ==
  /\ At(t, "signals")
  /\ sigFile' = [sigFile EXCEPT ![job[t].dev] = Torn]
  /\ Goes(t, "writeSignals")
  /\ UNCHANGED <<alive, root, process, objects, configFile, lockFile, wiping, machine>>

WriteSignals(t) ==
  /\ At(t, "writeSignals")
  /\ sigFile' = [sigFile EXCEPT ![job[t].dev] = job[t].list]
  /\ Goes(t, "setSignals")
  /\ UNCHANGED <<alive, root, process, objects, configFile, lockFile, wiping, machine>>

SetSignals(t) ==
  /\ At(t, "setSignals")
  /\ loaded' = [loaded EXCEPT ![job[t].dev] = job[t].list]
  /\ \/ /\ Restores(t)
        /\ Go(t, "next")
        /\ left' = [left EXCEPT ![t] = Tail(@)]
        /\ UNCHANGED <<job, cfg, vlansLeft, mine>>
     \/ ~Restores(t) /\ Done(t)
  /\ UNCHANGED <<alive, root, state, config, locked, live, startError, network, current,
                 objects, disk, machine>>

\* set_vlan_mode: the config in memory first, then the file.
BeginVlanMode(t, j) ==
  /\ Take(t, j, "read") /\ j.op = "vlan"
  /\ state = "SETUP" /\ config # None
  /\ config' = [config EXCEPT !.vlan = j.vlan]
  /\ UNCHANGED <<alive, root, state, locked, loaded, live, startError, network, current,
                 objects, disk, machine, cfg, left, vlansLeft, mine>>

\* Faulty variant: the value is only found in a text that asks for VLANs.
EditedOnce(text, j) ==
  IF text = Torn \/ text.vlanLine # "found" \/ j.op # "vlan" \/ ~text.vlan THEN text
  ELSE [text EXCEPT !.vlan = j.vlan]
\* _rewrite_vlan_mode and _rewrite_traffic_interface read the file and edit what their
\* patterns find: a text without the expected line is written back as it is, and a new
\* line that does not stand as its neighbours do makes the text unreadable.
Edited(text, j) ==
  IF text = Torn THEN Torn
  ELSE IF j.op = "vlan"
  THEN CASE text.vlanLine = "found" -> [text EXCEPT !.vlan = j.vlan]
         [] text.vlanLine = "missed" -> text
         [] OTHER -> Torn
  ELSE IF text.nicLine /\ text.nic = j.old THEN [text EXCEPT !.nic = j.nic] ELSE text

ReadConfig(t) ==
  /\ At(t, "read")
  /\ \/ configFile = None /\ Done(t)   \* FileNotFoundError
     \/ /\ configFile # None
        /\ cfg' = [cfg EXCEPT ![t] = Edited(configFile, job[t])]
        /\ Go(t, "config")
        /\ UNCHANGED <<job, left, vlansLeft, mine>>
  /\ UNCHANGED <<alive, root, process, objects, disk, machine>>

(***************************************************************************)
(* start.                                                                  *)
(***************************************************************************)
NeedsRoot == Privileged \/ config.vlan

MissingRoot == ManageNetwork /\ NeedsRoot /\ ~root

\* The guards; a start without the rights it needs only leaves its error.
StartRefused(t, j) ==
  /\ j.op = "start" /\ alive /\ t \in Worker /\ pc[t] = "idle" /\ pc["main"] = "idle"
  /\ state = "SETUP" /\ Ready /\ MissingRoot
  /\ startError' = TRUE
  /\ UNCHANGED <<alive, root, state, config, locked, loaded, live, network, current,
                 objects, disk, machine, thread>>

BeginStart(t, j) ==
  /\ Take(t, j, "maps") /\ j.op = "start"
  /\ state = "SETUP" /\ Ready /\ ~MissingRoot
  /\ startError' = FALSE
  /\ UNCHANGED <<alive, root, state, config, locked, loaded, live, network, current,
                 objects, disk, machine, cfg, left, vlansLeft, mine>>

\* Register maps of the lists uploaded, and a NetworkManager; a change of
\* interface keeps the maps.
BuildMaps(t) ==
  /\ At(t, "maps")
  /\ live' = IF job[t].op = "change" THEN live ELSE loaded
  /\ \/ /\ ManageNetwork
        /\ network' = t
        /\ managers' = [managers EXCEPT ![t] = NewManager]
        /\ Goes(t, "verify")
     \/ /\ ~ManageNetwork
        /\ Goes(t, "servers")
        /\ UNCHANGED <<network, managers>>
  /\ UNCHANGED <<alive, root, state, config, locked, loaded, startError, current,
                 servers, listening, disk, machine>>

\* setup raised: a start forgets its maps and keeps the reason, a change puts the
\* old interface back in memory.  Neither undoes what setup has done so far.
SetupFails(t) ==
  /\ IF job[t].op = "change"
     THEN /\ config' = [config EXCEPT !.nic = job[t].old]
          /\ UNCHANGED <<live, startError>>
     ELSE live' = Nothing /\ startError' = TRUE /\ UNCHANGED config
  /\ Done(t)
  /\ UNCHANGED <<alive, root, state, locked, loaded, network, current,
                 objects, disk, machine>>

Verify(t) ==
  /\ At(t, "verify")
  /\ \/ config.nic \notin nics /\ SetupFails(t)
     \/ /\ config.nic \in nics
        /\ vlansLeft' = [vlansLeft EXCEPT ![t] = VlansToMake(config)]
        /\ left' = [left EXCEPT ![t] = Devices]
        /\ Go(t, IF vlansLeft'[t] = {} THEN "addrs" ELSE "links")
        /\ UNCHANGED <<alive, root, process, objects, disk, machine, job, cfg, mine>>

NextVlan(t) == CHOOSE v \in vlansLeft[t] : \A w \in vlansLeft[t] : v <= w
NextLink(t) == <<config.nic, NextVlan(t)>>

\* _create_vlan: added unless it is there already, then brought up.
AddLink(t) ==
  /\ At(t, "links")
  /\ \/ /\ NextLink(t) \in links \/ config.nic \in nics
        /\ links' = links \cup {NextLink(t)}
        /\ Goes(t, "linkUp")
        /\ UNCHANGED <<alive, root, process, objects, disk, nics, addrs, taken>>
     \/ /\ NextLink(t) \notin links
        /\ config.nic \notin nics \/ IpMayFail
        /\ SetupFails(t)

\* Only now does the manager remember it.
LinkUp(t) ==
  /\ At(t, "linkUp")
  /\ \/ /\ NextLink(t) \in links
        /\ managers' = [managers EXCEPT ![t].links = @ \cup {NextLink(t)}]
        /\ vlansLeft' = [vlansLeft EXCEPT ![t] = @ \ {NextVlan(t)}]
        /\ Go(t, IF vlansLeft'[t] = {} THEN "addrs" ELSE "links")
        /\ UNCHANGED <<alive, root, process, servers, listening, disk, machine,
                       job, cfg, left, mine>>
     \/ /\ NextLink(t) \notin links \/ IpMayFail
        /\ SetupFails(t)

Exists(i) == IF i[2] = 0 THEN i[1] \in nics ELSE i \in links

\* _assign_ip; an address that is there already is fine.
AssignIp(t) ==
  /\ At(t, "addrs")
  /\ LET d == Head(left[t])
         target == Target(config, d)
     IN \/ /\ Exists(target)
           /\ addrs' = addrs \cup {<<d, target>>}
           /\ managers' = [managers EXCEPT ![t].addrs = @ \cup {<<d, target>>}]
           /\ left' = [left EXCEPT ![t] = Tail(@)]
           /\ Go(t, IF Len(left[t]) > 1 THEN "addrs" ELSE "servers")
           /\ UNCHANGED <<alive, root, process, servers, listening, disk, nics, links, taken,
                          job, cfg, vlansLeft, mine>>
        \/ /\ ~Exists(target) \/ (IpMayFail /\ <<d, target>> \notin addrs)
           /\ SetupFails(t)

\* A start binds with the manager the engine has, a change with a new one.
ChooseServers(t) ==
  /\ At(t, "servers")
  /\ \/ /\ job[t].op = "change"
        /\ current' = t
        /\ servers' = [servers EXCEPT ![t] = {}]
        /\ mine' = [mine EXCEPT ![t] = t]
     \/ /\ job[t].op # "change"
        /\ mine' = [mine EXCEPT ![t] = current]
        /\ UNCHANGED <<current, servers>>
  /\ left' = [left EXCEPT ![t] = Devices]
  /\ Go(t, "bind")
  /\ UNCHANGED <<alive, root, state, config, locked, loaded, live, startError, network,
                 managers, listening, disk, machine, job, cfg, vlansLeft>>

\* A socket needs a port nobody listens on, this process included, and an
\* address of this machine.
CanListen(d) ==
  /\ d \notin taken /\ d \notin listening
  /\ ManageNetwork => \E a \in addrs : a[1] = d

Listen(t) ==
  /\ At(t, "bind") /\ left[t] # <<>> /\ CanListen(Head(left[t]))
  /\ listening' = listening \cup {Head(left[t])}
  /\ servers' = [servers EXCEPT ![mine[t]] = @ \cup {Head(left[t])}]
  /\ left' = [left EXCEPT ![t] = Tail(@)]
  /\ UNCHANGED <<alive, root, process, managers, disk, machine, pc, job, cfg, vlansLeft, mine>>

BindFailsGoingOn(t) ==
  /\ At(t, "bind") /\ left[t] # <<>> /\ ~CanListen(Head(left[t]))
  /\ left' = [left EXCEPT ![t] = Tail(@)]
  /\ UNCHANGED <<alive, root, process, objects, disk, machine, pc, job, cfg, vlansLeft, mine>>
\* bind raised: the servers that listen already go on listening.
BindFails(t) ==
  /\ At(t, "bind") /\ left[t] # <<>> /\ ~CanListen(Head(left[t]))
  /\ IF job[t].op = "change" THEN UNCHANGED <<live, startError>>
                             ELSE live' = Nothing /\ startError' = TRUE
  /\ Done(t)
  /\ UNCHANGED <<alive, root, state, config, locked, loaded, network, current,
                 objects, disk, machine>>

Serve(t) ==
  /\ At(t, "bind") /\ left[t] = <<>>
  /\ IF job[t].op = "change" THEN UNCHANGED <<state, startError>>
                             ELSE state' = "RUNNING" /\ startError' = FALSE
  /\ Done(t)
  /\ UNCHANGED <<alive, root, config, locked, loaded, live, network, current,
                 objects, disk, machine>>

(***************************************************************************)
(* reset, change_traffic_interface, stop.                                  *)
(***************************************************************************)
BeginReset(t, j) ==
  /\ Take(t, j, "stopServers") /\ j.op = "reset"
  /\ state = "RUNNING"
  /\ state' = "STOPPING"
  /\ UNCHANGED <<alive, root, config, locked, loaded, live, startError, network, current,
                 objects, disk, machine, cfg, left, vlansLeft, mine>>

BeginChange(t, j) ==
  /\ Take(t, j, "stopServers") /\ j.op = "change"
  /\ state = "RUNNING"
  /\ UNCHANGED <<alive, root, process, objects, disk, machine, cfg, left, vlansLeft, mine>>

BeginStop(t, j) ==
  /\ Take(t, j, "stopServers") /\ j.op = "stop"
  /\ state' = "STOPPING"
  /\ UNCHANGED <<alive, root, config, locked, loaded, live, startError, network, current,
                 objects, disk, machine, cfg, left, vlansLeft, mine>>

StopServers(t) ==
  /\ At(t, "stopServers")
  /\ listening' = listening \ servers[current]
  /\ Goes(t, "teardown")
  /\ UNCHANGED <<alive, root, process, managers, servers, disk, machine>>

TeardownLinksOnly(t) ==
  /\ At(t, "teardown")
  /\ \/ network = None /\ UNCHANGED <<links, addrs, managers>>
     \/ /\ network # None
        /\ links' = links \ managers[network].links
        /\ addrs' = WithoutLinks(addrs, managers[network].links)
        /\ managers' = [managers EXCEPT ![network] = NewManager]
  /\ network' = IF job[t].op = "change" THEN None ELSE network
  /\ Goes(t, CASE job[t].op = "reset" -> "unlinkLock"
               [] job[t].op = "change" -> "rename"
               [] OTHER -> "exit")
  /\ UNCHANGED <<alive, root, state, config, locked, loaded, live, startError, current,
                 servers, listening, disk, nics, taken>>
\* NetworkManager.teardown: what it remembers is removed, and forgotten also where
\* an `ip` that removes it fails.
Removed(made) == {gone \in SUBSET made : IpMayFail \/ gone = made}
Teardown(t) ==
  /\ At(t, "teardown")
  /\ \/ network = None /\ UNCHANGED <<links, addrs, managers>>
     \/ /\ network # None
        /\ \E subifs \in Removed(managers[network].links),
              ips \in Removed(managers[network].addrs) :
             /\ links' = links \ subifs
             /\ addrs' = WithoutLinks(addrs \ ips, subifs)
        /\ managers' = [managers EXCEPT ![network] = NewManager]
  /\ network' = IF job[t].op = "change" THEN None ELSE network
  /\ Goes(t, CASE job[t].op = "reset" -> "unlinkLock"
               [] job[t].op = "change" -> "rename"
               [] OTHER -> "exit")
  /\ UNCHANGED <<alive, root, state, config, locked, loaded, live, startError, current,
                 servers, listening, disk, nics, taken>>

LockStays(t) ==
  /\ At(t, "unlinkLock")
  /\ Goes(t, "unlinkConfig")
  /\ UNCHANGED <<alive, root, process, objects, disk, machine>>
UnlinkLock(t) ==
  /\ At(t, "unlinkLock")
  /\ lockFile' = FALSE
  /\ Goes(t, "unlinkConfig")
  /\ UNCHANGED <<alive, root, process, objects, configFile, sigFile, wiping, machine>>

UnlinkConfig(t) ==
  /\ At(t, "unlinkConfig")
  /\ configFile' = None
  /\ Goes(t, "rmtree")
  /\ UNCHANGED <<alive, root, process, objects, lockFile, sigFile, wiping, machine>>

RemoveDevices(t) ==
  /\ At(t, "rmtree")
  /\ sigFile' = Nothing
  /\ Goes(t, "clear")
  /\ UNCHANGED <<alive, root, process, objects, configFile, lockFile, wiping, machine>>

Clear(t) ==
  /\ At(t, "clear")
  /\ config' = None /\ locked' = FALSE
  /\ loaded' = Nothing /\ live' = Nothing
  /\ current' = t /\ servers' = [servers EXCEPT ![t] = {}]
  /\ network' = None
  /\ state' = "SETUP"
  /\ Done(t)
  /\ UNCHANGED <<alive, root, startError, managers, listening, disk, machine>>

\* change_traffic_interface: the config in memory, then the file.
Rename(t) ==
  /\ At(t, "rename")
  /\ job' = [job EXCEPT ![t] = [op |-> "change", nic |-> @.nic, old |-> config.nic]]
  /\ config' = [config EXCEPT !.nic = job[t].nic]
  /\ Go(t, "read")
  /\ UNCHANGED <<alive, root, state, locked, loaded, live, startError, network, current,
                 objects, disk, machine, cfg, left, vlansLeft, mine>>

(***************************************************************************)
(* The process ends, and is started again.                                 *)
(***************************************************************************)
\* Memory and sockets go; the project directory and the kernel stay.
Died ==
  /\ alive' = FALSE /\ root' = FALSE /\ state' = "SETUP" /\ config' = None /\ locked' = FALSE
  /\ loaded' = Nothing /\ live' = Nothing /\ startError' = FALSE
  /\ network' = None /\ current' = "first"
  /\ managers' = [t \in Thread |-> NewManager]
  /\ servers' = [t \in Thread \cup {"first"} |-> {}]
  /\ listening' = {}
  /\ pc' = [t \in Thread |-> "idle"] /\ job' = [t \in Thread |-> NoJob]
  /\ cfg' = [t \in Thread |-> None]
  /\ left' = [t \in Thread |-> <<>>] /\ vlansLeft' = [t \in Thread |-> {}]
  /\ mine' = [t \in Thread |-> "first"]
  /\ UNCHANGED <<disk, machine>>

Crash == alive /\ Died
Exit(t) == At(t, "exit") /\ Died

\* enforce_lock: a locked project is not overwritten ...
BootPlain ==
  /\ ~alive /\ "plain" \in Boots
  /\ ~lockFile
  /\ alive' = TRUE /\ root' \in Rights
  /\ UNCHANGED <<process, objects, disk, machine, thread>>

\* ... unless it is thrown away.  The NetworkManager made for that occasion has
\* made nothing, so its teardown removes nothing.
BootReset ==
  /\ ~alive /\ "reset" \in Boots
  /\ alive' = TRUE /\ root' \in Rights
  /\ IF lockFile
     THEN wiping' = TRUE /\ pc' = [pc EXCEPT !["main"] = "wipe"]
     ELSE UNCHANGED <<wiping, pc>>
  /\ UNCHANGED <<process, objects, configFile, lockFile, sigFile, machine,
                 job, cfg, left, vlansLeft, mine>>

\* The files of the project directory are removed one by one, in the order the
\* directory lists them: those of devices/ in between, or before or after the others.
WipeConfig(t) ==
  /\ At(t, "wipe") /\ configFile # None
  /\ configFile' = None
  /\ UNCHANGED <<alive, root, process, objects, lockFile, sigFile, wiping, machine, thread>>

WipeLock(t) ==
  /\ At(t, "wipe") /\ lockFile
  /\ lockFile' = FALSE
  /\ UNCHANGED <<alive, root, process, objects, configFile, sigFile, wiping, machine, thread>>

WipeSignals(t) ==
  /\ At(t, "wipe") \/ At(t, "wipeDevices")
  /\ \E d \in Device : sigFile[d] # None /\ sigFile' = [sigFile EXCEPT ![d] = None]
  /\ Goes(t, IF sigFile' = Nothing THEN "wipe" ELSE "wipeDevices")
  /\ UNCHANGED <<alive, root, process, objects, configFile, lockFile, wiping, machine>>

Wiped(t) ==
  /\ At(t, "wipe")
  /\ configFile = None /\ ~lockFile /\ sigFile = Nothing
  /\ wiping' = FALSE
  /\ Goes(t, "idle")
  /\ UNCHANGED <<alive, root, process, objects, configFile, lockFile, sigFile, machine>>

\* _restore_from_disk uploads what it finds there, like a client, then starts.
BootRestore ==
  /\ ~alive /\ "restore" \in Boots
  /\ alive' = TRUE /\ root' \in Rights
  /\ \/ configFile \in {None, Torn} /\ UNCHANGED thread
     \/ /\ configFile \notin {None, Torn}
        /\ job' = [job EXCEPT !["main"] = Restoring]
        /\ cfg' = [cfg EXCEPT !["main"] = configFile]
        /\ pc' = [pc EXCEPT !["main"] = "config"]
        /\ UNCHANGED <<left, vlansLeft, mine>>
  /\ UNCHANGED <<process, objects, disk, machine>>

RestoreAnyFile(t) ==
  /\ At(t, "next") /\ left[t] # <<>>
  /\ LET d == Head(left[t])
     IN \/ /\ sigFile[d] = None
           /\ left' = [left EXCEPT ![t] = Tail(@)]
           /\ UNCHANGED <<pc, job, cfg, vlansLeft, mine>>
        \/ /\ sigFile[d] # None
           /\ job' = [job EXCEPT ![t] = [op |-> "restore", dev |-> d, list |-> sigFile[d]]]
           /\ Go(t, "signals")
           /\ UNCHANGED <<cfg, left, vlansLeft, mine>>
  /\ UNCHANGED <<alive, root, process, objects, disk, machine>>
\* The next device's signal file: absent ones are skipped, a bad one ends it.
RestoreFile(t) ==
  /\ At(t, "next") /\ left[t] # <<>>
  /\ LET d == Head(left[t])
     IN \/ /\ sigFile[d] = None
           /\ left' = [left EXCEPT ![t] = Tail(@)]
           /\ UNCHANGED <<pc, job, cfg, vlansLeft, mine>>
        \/ sigFile[d] = Torn /\ Done(t)
        \/ /\ sigFile[d] \notin {None, Torn}
           /\ job' = [job EXCEPT ![t] = [op |-> "restore", dev |-> d, list |-> sigFile[d]]]
           /\ Go(t, "signals")
           /\ UNCHANGED <<cfg, left, vlansLeft, mine>>
  /\ UNCHANGED <<alive, root, process, objects, disk, machine>>

\* All are dealt with: start, which may refuse.
RestoreStart(t) ==
  /\ At(t, "next") /\ left[t] = <<>>
  /\ IF Ready /\ ~MissingRoot
     THEN Goes(t, "maps")
     ELSE Done(t)
  /\ startError' = (Ready /\ MissingRoot)
  /\ UNCHANGED <<alive, root, state, config, locked, loaded, live, network, current,
                 objects, disk, machine>>

-----------------------------------------------------------------------------
(***************************************************************************)
(* The machine: an adapter is unplugged or plugged in, another program     *)
(* opens or closes a port.                                                 *)
(***************************************************************************)
Unplug(n) ==
  /\ n \in nics
  /\ nics' = nics \ {n}
  /\ links' = {l \in links : l[1] # n}
  /\ addrs' = {a \in addrs : a[2][1] # n}
  /\ UNCHANGED <<alive, root, process, objects, disk, taken, thread>>

Plug(n) ==
  /\ n \notin nics
  /\ nics' = nics \cup {n}
  /\ UNCHANGED <<alive, root, process, objects, disk, links, addrs, taken, thread>>

TakePort(d) ==
  /\ d \in Busy \ (taken \cup listening)
  /\ taken' = taken \cup {d}
  /\ UNCHANGED <<alive, root, process, objects, disk, nics, links, addrs, thread>>

FreePort(d) ==
  /\ d \in taken
  /\ taken' = taken \ {d}
  /\ UNCHANGED <<alive, root, process, objects, disk, nics, links, addrs, thread>>

Begin(t, j) ==
  \/ BeginConfig(t, j) \/ BeginSignals(t, j) \/ BeginVlanMode(t, j)
  \/ StartRefused(t, j) \/ BeginStart(t, j)
  \/ BeginReset(t, j) \/ BeginChange(t, j) \/ BeginStop(t, j)

Step(t) ==
  \/ EmptyConfig(t) \/ WriteConfig(t) \/ WriteLock(t) \/ SetConfig(t)
  \/ EmptySignals(t) \/ WriteSignals(t) \/ SetSignals(t) \/ ReadConfig(t)
  \/ BuildMaps(t) \/ Verify(t) \/ AddLink(t) \/ LinkUp(t)
  \/ AssignIp(t) \/ ChooseServers(t)
  \/ Listen(t) \/ BindFails(t) \/ Serve(t)
  \/ StopServers(t) \/ Teardown(t) \/ Rename(t)
  \/ UnlinkLock(t) \/ UnlinkConfig(t) \/ RemoveDevices(t) \/ Clear(t)
  \/ Exit(t) \/ RestoreFile(t) \/ RestoreStart(t)
  \/ WipeConfig(t) \/ WipeLock(t) \/ WipeSignals(t) \/ Wiped(t)

Machine ==
  \/ Crash \/ BootPlain \/ BootReset \/ BootRestore
  \/ \E n \in Nic : Unplug(n) \/ Plug(n)
  \/ \E d \in Device : TakePort(d) \/ FreePort(d)

Next ==
  \/ \E t \in Worker : \E j \in Jobs[t] : Begin(t, j)
  \/ \E t \in Thread : Step(t)
  \/ Machine

Spec == Init /\ [][Next]_vars

-----------------------------------------------------------------------------
(***************************************************************************)
(* Properties.                                                             *)
(***************************************************************************)
Idle == \A t \in Thread : pc[t] = "idle"

\* RUNNING means running: once the requests are answered every device has the
\* register map of the list uploaded for it and a listening socket, and the
\* server manager knows all of those, so that a reset or stop closes them.  A start
\* that failed, wherever it did, and a reset leave no register map behind.
RunningServes ==
  alive /\ Idle =>
    /\ state = "RUNNING" => /\ \A d \in Device : live[d] # None /\ live[d] = loaded[d]
                            /\ listening = Device /\ servers[current] = Device
    /\ state = "SETUP" => live = Nothing

\* A text is as good as a config if it differs only in what no rewriting could put
\* right in it.
Holds(text, c) ==
  IF text = Torn THEN c.vlanLine = "breaks"
  ELSE /\ text # None
       /\ c.vlanLine # "missed" => text.vlan = c.vlan
       /\ c.nicLine => text.nic = c.nic

\* Between requests the project directory holds what the engine works with, so
\* that a crash followed by --restore brings the same project back, but for what
\* set_vlan_mode and change_traffic_interface look for in its text in vain.
DiskMatches ==
  alive /\ Idle =>
    /\ config # None => locked /\ lockFile /\ Holds(configFile, config)
    /\ \A d \in Device : loaded[d] # None => sigFile[d] = loaded[d]

\* The same without exception: _rewrite_vlan_mode says that it sets the value in the
\* file, or inserts it.  TLC refutes it.
ConfigSaved == alive /\ Idle /\ config # None => configFile = config

\* At every step, also where the process may die: a lock file, which makes every
\* plain start refuse and the GUI restore, stands without a config file only where
\* a --reset is wiping both, or has died over it and nothing was uploaded since.
LockMeansProject == lockFile /\ configFile = None => wiping

\* enforce_lock is to "refuse to start if a locked config exists", so when the process
\* is dead no lock should be there without one.  TLC refutes it: a wipe may be cut short.
LockIsOfConfig == ~alive /\ lockFile => configFile # None

\* A reset leaves nothing of the simulation in the kernel, whatever starts, failures
\* and changes of interface came before.
ResetCleansNetwork ==
  [][\A t \in Thread : At(t, "clear") /\ alive' /\ pc'[t] = "idle" =>
       links = {} /\ addrs = {}]_vars

\* A start fails to bind only where another program holds the port or the address
\* is gone, so that it succeeds once that is fixed.
\* TLC refutes it: README, "Disagreements".
BindFailsForCause ==
  [][\A t \in Thread : At(t, "bind") /\ left[t] # <<>> /\ alive' /\ pc'[t] = "idle" =>
       \/ Head(left[t]) \in taken
       \/ ManageNetwork /\ \A a \in addrs : a[1] # Head(left[t])]_vars

\* Starting with --reset over a locked project leaves the kernel clean.
\* TLC refutes it.
BootResetCleans ==
  [][At("main", "wipe") /\ wiping /\ ~wiping' => links' = {} /\ addrs' = {}]_vars
=============================================================================
