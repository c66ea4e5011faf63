-------------------------- MODULE HotReloadProofs --------------------------
(***************************************************************************)
(* Proofs about HotReload, for any devices, signals, threads and requests. *)
(*                                                                         *)
(* First, for any requests at once: what is served is valid.  That is not  *)
(* inductive: the map a thread is about to hand over must be valid, and a  *)
(* sim_* edit must hold the maps of the devices it still has to write.     *)
(*                                                                         *)
(* Then the types, and that a map belongs to one device; then the          *)
(* properties that hold between edits.  Those about one edit, the file and *)
(* the profiles take no hypothesis on the clients: they except the devices *)
(* the history variables name, where a second edit or a failing swap came  *)
(* in between.  That the references of a device agree, and that the        *)
(* settings are saved, need one client at a time (OneReloader, OneSetter); *)
(* without it HotReload's other runs refute them.                          *)
(***************************************************************************)
EXTENDS HotReload, FiniteSetTheorems, TLAPS

IsList(list) == DOMAIN list = Name /\ \A n \in Name : "addr" \in DOMAIN list[n]
IsMap(map) == "rows" \in DOMAIN map /\ IsList(map.rows)

\* What is good enough to be served, if it is a map.
Good(m) == m \in MapId => Valid(maps[m].rows)

Shape ==
  /\ DOMAIN maps = MapId /\ \A m \in MapId : IsMap(maps[m])
  /\ regmaps \in [Device -> MapId \cup {NoMap}]
  /\ server \in [Device -> MapId \cup {NoMap}]
  /\ signals \in [Device -> MapId \cup {NoMap}]
  /\ refs \in [Editor -> [Device -> MapId \cup {NoMap}]]
  /\ DOMAIN csv = Device /\ \A d \in Device : csv[d] # Torn => IsList(csv[d])
  /\ DOMAIN rows = Editor /\ \A e \in Editor : IsList(rows[e])
  /\ DOMAIN pc = Editor /\ DOMAIN job = Editor /\ DOMAIN queue = Editor

Running ==
  /\ up => \A d \in Device : regmaps[d] \in MapId /\ server[d] \in MapId
  /\ \A e \in Editor : pc[e] # "idle" => up
  /\ ~up => \A e \in Editor, d \in Device : refs[e][d] = NoMap

GoodMaps ==
  /\ \A d \in Device : Good(regmaps[d]) /\ Good(server[d]) /\ Good(signals[d])
  /\ \A e \in Editor, d \in Device : Good(refs[e][d])
GoodFiles == \A d \in Device : csv[d] # Torn => Valid(csv[d])

\* The requests that are served at a step.
Kinds(e) ==
  /\ pc[e] \in {"check", "build", "swap", "regmap", "signals"} => job[e].kind \in Reloads
  /\ pc[e] \in {"apply", "match", "dump"} => job[e].kind \in {"signal", "bulk"}
  /\ pc[e] \in {"assign", "erase", "save", "visit"} => job[e].kind = "settings"
  /\ pc[e] \in {"resolve", "install"} => job[e].kind \in {"signal", "bulk", "settings"}
  /\ pc[e] \in {"truncate", "write"} => job[e].kind \in Reloads \cup {"signal", "bulk"}

\* What a thread is about to write or to hand over.
Checked(e) == pc[e] \in {"truncate", "write", "build"} => Valid(rows[e])
Swapping(e) ==
  pc[e] \in {"swap", "regmap", "signals"} /\ Dev(e) \in Device => Mine(e) \in MapId

\* The maps of the devices a sim_* edit still has to deal with are in its hands.
Turn(e) ==
  /\ pc[e] \in {"apply", "resolve", "install", "dump", "truncate", "write"}
  /\ job[e].kind \in {"signal", "bulk"}
  => /\ queue[e] \in Seq(Device) /\ queue[e] # <<>>
     /\ \A i \in DOMAIN queue[e] : refs[e][queue[e][i]] \in MapId

Threads == \A e \in Editor : Kinds(e) /\ Checked(e) /\ Swapping(e) /\ Turn(e)
IInv == Shape /\ Running /\ GoodMaps /\ GoodFiles /\ Threads

-----------------------------------------------------------------------------
\* sim_* fields leave the address of a signal, and so the validity of a list, alone.
LEMMA ApplyKeepsAddr ==
  ASSUME NEW row, NEW patch, "addr" \in DOMAIN row
  PROVE  /\ "addr" \in DOMAIN ApplyFields(row, patch)
         /\ ApplyFields(row, patch).addr = row.addr
BY DEF ApplyFields

\* The lists that can be written to a new map or found on disk.
LEMMA RowsAreLists == ASSUME NEW list \in Rows PROVE IsList(list)
BY DEF Rows, Row, IsList

LEMMA NoRowsIsList == IsList(NoRows)
BY DEF NoRows, IsList

LEMMA NewMapIsMap ==
  ASSUME NEW list, IsList(list), NEW settings
  PROVE  IsMap(NewMap(list, settings)) /\ NewMap(list, settings).rows = list
BY DEF NewMap, IsMap

\* A step after which every map has the addresses it had serves what it served.
SameAddresses ==
  /\ DOMAIN maps' = MapId
  /\ \A m \in MapId : /\ IsMap(maps[m])'
                      /\ \A n \in Name : maps'[m].rows[n].addr = maps[m].rows[n].addr

LEMMA SameValidity ==
  ASSUME SameAddresses, NEW m \in MapId PROVE Valid(maps'[m].rows) <=> Valid(maps[m].rows)
BY DEF SameAddresses, Valid

\* In the order of the devices: the elements of the set, and at least one if it has any.
LEMMA OrderedElements ==
  ASSUME NEW S, S \subseteq Device, S # {}, NEW q \in InOrder(S)
  PROVE  q \in Seq(Device) /\ q # <<>> /\ \A i \in DOMAIN q : q[i] \in S
<1>1. IsFiniteSet(Device)
  <2>1. Devices \in Seq(Device)
    BY HotReloadAssumption
  <2>2. IsFiniteSet(1 .. Len(Devices))
    BY <2>1, FS_Interval
  <2>3. Devices \in Surjection(1 .. Len(Devices), Device)
    BY <2>1 DEF Device, Surjection
  <2> QED BY <2>2, <2>3, FS_Surjection
<1>2. IsFiniteSet(S)
  BY <1>1, FS_Subset
<1>3. Cardinality(S) \in Nat /\ Cardinality(S) # 0
  BY <1>2, FS_CardinalityType, FS_EmptySet
<1>4. q \in [1 .. Cardinality(S) -> S]
  BY DEF InOrder
<1> DEFINE n == Cardinality(S)
<1> HIDE DEF n
<1>5. n \in Nat /\ n # 0 /\ q \in [1 .. n -> S]
  BY <1>3, <1>4 DEF n
<1>6. q \in Seq(Device) /\ Len(q) = n
  BY <1>5
<1> QED BY <1>5, <1>6

-----------------------------------------------------------------------------
(***************************************************************************)
(* A request arrives.                                                      *)
(***************************************************************************)
\* A step of a thread e that leaves everything the engine and the disk hold.
OnlyLocals(e) ==
  /\ UNCHANGED <<engine, disk>>
  /\ \A x \in Editor \ {e} : /\ pc'[x] = pc[x] /\ job'[x] = job[x]
                             /\ rows'[x] = rows[x] /\ queue'[x] = queue[x]
                             /\ refs'[x] = refs[x]

\* Other threads do not notice it.
LEMMA LocalStep ==
  ASSUME IInv, NEW e \in Editor, OnlyLocals(e), up,
         DOMAIN rows' = Editor, DOMAIN pc' = Editor, DOMAIN job' = Editor,
         DOMAIN queue' = Editor, IsList(rows'[e]),
         refs' \in [Editor -> [Device -> MapId \cup {NoMap}]],
         \A d \in Device : Good(refs'[e][d]),
         (Kinds(e) /\ Checked(e) /\ Swapping(e) /\ Turn(e))'
  PROVE  IInv'
<1>1. Shape'
  BY DEF IInv, Shape, OnlyLocals, engine, disk
<1>2. Running'
  BY DEF IInv, Running, OnlyLocals, engine
<1>3. GoodMaps'
  BY DEF IInv, GoodMaps, Good, OnlyLocals, engine
<1>4. GoodFiles'
  BY DEF IInv, GoodFiles, OnlyLocals, disk
<1>5. ASSUME NEW x \in Editor \ {e} PROVE (Kinds(x) /\ Checked(x) /\ Swapping(x) /\ Turn(x))'
  BY <1>5 DEF IInv, Threads, Kinds, Checked, Swapping, Turn, Dev, Mine, OnlyLocals
<1> QED BY <1>1, <1>2, <1>3, <1>4, <1>5 DEF IInv, Threads

LEMMA BeginStep ==
  ASSUME IInv, NEW e \in Editor, NEW j \in Jobs[e], Begin(e, j) PROVE IInv'
<1>1. up
  BY DEF Begin, BeginReload, BeginUpdate, BeginDeviceSim, BeginSignalSim, BeginBulkSim,
         BeginSettings, Ready
<1>2. OnlyLocals(e)
  BY DEF Begin, BeginReload, BeginUpdate, BeginDeviceSim, BeginSignalSim, BeginBulkSim,
         BeginSettings, OnlyLocals, Put, Go, IInv, Shape
<1>3. DOMAIN rows' = Editor /\ DOMAIN pc' = Editor /\ DOMAIN job' = Editor /\ DOMAIN queue' = Editor
  BY DEF Begin, BeginReload, BeginUpdate, BeginDeviceSim, BeginSignalSim, BeginBulkSim,
         BeginSettings, Put, Go, IInv, Shape
<1>4. job'[e] = j /\ j.kind = job'[e].kind
  BY DEF Begin, BeginReload, BeginUpdate, BeginDeviceSim, BeginSignalSim, BeginBulkSim,
         BeginSettings, Put, IInv, Shape
<1>5. CASE BeginReload(e, j) \/ BeginUpdate(e, j) \/ BeginDeviceSim(e, j)
  <2>1. pc'[e] = "check" /\ j.kind \in Reloads /\ refs' = refs
    BY <1>5 DEF BeginReload, BeginUpdate, BeginDeviceSim, Ready, Reloads, Go, IInv, Shape
  <2>2. IsList(rows'[e])
    <3>1. CASE BeginReload(e, j)
      <4>1. j.rows \in Rows
        BY <3>1, HotReloadAssumption DEF BeginReload, Ready
      <4> QED BY <3>1, <4>1, RowsAreLists DEF BeginReload, Put, IInv, Shape
    <3>2. ASSUME BeginUpdate(e, j) \/ BeginDeviceSim(e, j)
          PROVE  IsList(maps[regmaps[j.dev]].rows)
      <4>1. j.dev \in Device
        BY <3>2, HotReloadAssumption DEF BeginUpdate, BeginDeviceSim, Ready
      <4>2. regmaps[j.dev] \in MapId
        BY <1>1, <4>1 DEF IInv, Running
      <4> QED BY <4>2 DEF IInv, Shape, IsMap
    <3> DEFINE live == maps[regmaps[j.dev]].rows
    <3>3. CASE BeginUpdate(e, j)
      <4>1. rows'[e] = [live EXCEPT ![j.name].addr = j.addr]
        BY <3>3 DEF BeginUpdate, Put, IInv, Shape
      <4> HIDE DEF live
      <4> QED BY <3>2, <3>3, <4>1 DEF IsList, live
    <3>4. CASE BeginDeviceSim(e, j)
      <4>1. rows'[e] = [n \in Name |-> [live[n] EXCEPT !.mode = j.mode]]
        BY <3>4 DEF BeginDeviceSim, Put, IInv, Shape
      <4> HIDE DEF live
      <4> QED BY <3>2, <3>4, <4>1 DEF IsList, live
    <3> QED BY <1>5, <3>1, <3>3, <3>4
  <2>3. (Kinds(e) /\ Checked(e) /\ Swapping(e) /\ Turn(e))'
    BY <1>4, <2>1 DEF Kinds, Checked, Swapping, Turn
  <2>4. /\ refs' \in [Editor -> [Device -> MapId \cup {NoMap}]]
        /\ \A d \in Device : Good(refs'[e][d])
    BY <2>1 DEF IInv, Shape, GoodMaps
  <2> QED BY <1>1, <1>2, <1>3, <2>2, <2>3, <2>4, LocalStep
<1>6. CASE BeginSignalSim(e, j)
  <2>1. /\ pc'[e] = "apply" /\ j.kind = "signal" /\ rows' = rows /\ queue'[e] = <<j.dev>>
        /\ refs' = [refs EXCEPT ![e][j.dev] = regmaps[j.dev]]
    BY <1>6 DEF BeginSignalSim, Ready, Go, Put, IInv, Shape
  <2>2. j.dev \in Device
    BY <2>1, HotReloadAssumption
  <2>3. regmaps[j.dev] \in MapId
    BY <1>1, <2>2 DEF IInv, Running
  <2>4. refs' \in [Editor -> [Device -> MapId \cup {NoMap}]]
    BY <2>1, <2>3 DEF IInv, Shape
  <2>5. \A d \in Device : refs'[e][d] = IF d = j.dev THEN regmaps[d] ELSE refs[e][d]
    BY <2>1, <2>2 DEF IInv, Shape
  <2>6. \A d \in Device : Good(refs'[e][d])
    BY <2>2, <2>5 DEF IInv, GoodMaps
  <2>7. Turn(e)'
    <3>1. queue'[e] \in Seq(Device) /\ queue'[e] # <<>>
      BY <2>1, <2>2
    <3>2. \A i \in DOMAIN queue'[e] : queue'[e][i] = j.dev
      BY <2>1
    <3>3. refs'[e][j.dev] \in MapId
      BY <2>2, <2>3, <2>5
    <3> QED BY <3>1, <3>2, <3>3 DEF Turn
  <2>8. (Kinds(e) /\ Checked(e) /\ Swapping(e))'
    BY <1>4, <2>1 DEF Kinds, Checked, Swapping
  <2>9. IsList(rows'[e])
    BY <2>1 DEF IInv, Shape
  <2> QED BY <1>1, <1>2, <1>3, <2>4, <2>6, <2>7, <2>8, <2>9, LocalStep
<1>7. CASE BeginBulkSim(e, j) \/ BeginSettings(e, j)
  <2>1. /\ rows' = rows /\ refs' = refs
        /\ \/ pc'[e] = "match" /\ j.kind = "bulk"
           \/ pc'[e] = "assign" /\ j.kind = "settings"
    BY <1>7 DEF BeginBulkSim, BeginSettings, Ready, Go, IInv, Shape
  <2>2. (Kinds(e) /\ Checked(e) /\ Swapping(e) /\ Turn(e))'
    BY <1>4, <2>1 DEF Kinds, Checked, Swapping, Turn
  <2>3. /\ IsList(rows'[e]) /\ refs' \in [Editor -> [Device -> MapId \cup {NoMap}]]
        /\ \A d \in Device : Good(refs'[e][d])
    BY <2>1 DEF IInv, Shape, GoodMaps
  <2> QED BY <1>1, <1>2, <1>3, <2>2, <2>3, LocalStep
<1> QED BY <1>5, <1>6, <1>7 DEF Begin

-----------------------------------------------------------------------------
(***************************************************************************)
(* The steps of a thread that leave engine and disk alone.                 *)
(***************************************************************************)
LEMMA QuietStep ==
  ASSUME IInv, NEW e \in Editor,
         Accept(e) \/ Reject(e) \/ SwapFails(e) \/ Iterate(e) \/ Matched(e) \/ BuildProfiles(e) \/ Dump(e)
  PROVE  IInv'
<1>1. pc[e] # "idle" /\ up
  BY DEF Accept, Reject, SwapFails, Iterate, Matched, BuildProfiles, Dump, IInv, Running
<1>2. OnlyLocals(e)
  BY DEF Accept, Reject, SwapFails, Iterate, Matched, BuildProfiles, Dump, Goes, Go, Put, OnlyLocals,
         IInv, Shape
<1>3. /\ DOMAIN rows' = Editor /\ DOMAIN pc' = Editor /\ DOMAIN job' = Editor
      /\ DOMAIN queue' = Editor /\ job' = job
  BY DEF Accept, Reject, SwapFails, Iterate, Matched, BuildProfiles, Dump, Goes, Go, Put, IInv, Shape
<1>4. Kinds(e) /\ Checked(e) /\ Swapping(e) /\ Turn(e)
  BY DEF IInv, Threads
<1>5. CASE Accept(e) \/ Reject(e)
  <2>1. /\ rows' = rows /\ refs' = refs /\ queue' = queue /\ pc[e] = "check"
        /\ \/ pc'[e] = "truncate" /\ Valid(rows[e])
           \/ pc'[e] = "reply"
    BY <1>5 DEF Accept, Reject, SwapFails, Goes, Go, IInv, Shape
  <2>2. job[e].kind \in Reloads /\ job[e].kind \notin {"signal", "bulk"}
    BY <1>4, <2>1 DEF Kinds, Reloads
  <2>3. (Kinds(e) /\ Checked(e) /\ Swapping(e) /\ Turn(e))'
    BY <1>3, <2>1, <2>2 DEF Kinds, Checked, Swapping, Turn
  <2> QED BY <1>1, <1>2, <1>3, <2>1, <2>3, LocalStep DEF IInv, Shape, GoodMaps
<1>10. CASE SwapFails(e)
  <2>1. /\ rows' = rows /\ refs' = refs /\ queue' = queue /\ pc[e] = "swap" /\ pc'[e] = "reply"
    BY <1>10 DEF SwapFails, Goes, Go, IInv, Shape
  <2>2. (Kinds(e) /\ Checked(e) /\ Swapping(e) /\ Turn(e))'
    BY <1>3, <2>1 DEF Kinds, Checked, Swapping, Turn
  <2> QED BY <1>1, <1>2, <1>3, <2>1, <2>2, LocalStep DEF IInv, Shape, GoodMaps
<1>6. CASE Iterate(e)
  <2>1. PICK d : /\ rows' = rows /\ queue' = queue /\ pc[e] = "match" /\ pc'[e] = "match"
                 /\ refs' = [refs EXCEPT ![e][d] = regmaps[d]]
    BY <1>6 DEF Iterate
  <2>2. \A x \in Device : refs'[e][x] = IF x = d THEN regmaps[x] ELSE refs[e][x]
    BY <2>1 DEF IInv, Shape
  <2>3. refs' \in [Editor -> [Device -> MapId \cup {NoMap}]]
    <3>1. d \in Device => regmaps[d] \in MapId \cup {NoMap}
      BY DEF IInv, Shape
    <3> QED BY <2>1, <3>1 DEF IInv, Shape
  <2>4. \A x \in Device : Good(refs'[e][x])
    BY <2>2 DEF IInv, GoodMaps
  <2>5. (Kinds(e) /\ Checked(e) /\ Swapping(e) /\ Turn(e))'
    BY <1>3, <1>4, <2>1 DEF Kinds, Checked, Swapping, Turn
  <2> QED BY <1>1, <1>2, <1>3, <2>1, <2>3, <2>4, <2>5, LocalStep DEF IInv, Shape
<1>7. CASE Matched(e)
  <2> DEFINE affected == {d \in Device : refs[e][d] # NoMap}
  <2>1. PICK q \in InOrder(affected) : queue' = Put(e, queue, q)
    BY <1>7 DEF Matched
  <2>2. /\ rows' = rows /\ refs' = refs /\ pc[e] = "match" /\ queue'[e] = q
        /\ pc'[e] = IF affected # {} THEN "resolve" ELSE "reply"
    BY <1>7, <2>1 DEF Matched, Go, Put, IInv, Shape
  <2>3. ASSUME affected # {}
        PROVE  q \in Seq(Device) /\ q # <<>> /\ \A i \in DOMAIN q : refs[e][q[i]] \in MapId
    <3>1. q \in Seq(Device) /\ q # <<>> /\ \A i \in DOMAIN q : q[i] \in affected
      BY <2>3, OrderedElements
    <3> QED BY <3>1 DEF IInv, Shape
  <2> HIDE DEF affected
  <2>4. (Kinds(e) /\ Checked(e) /\ Swapping(e) /\ Turn(e))'
    BY <1>3, <1>4, <2>2, <2>3 DEF Kinds, Checked, Swapping, Turn
  <2> QED BY <1>1, <1>2, <1>3, <2>2, <2>4, LocalStep DEF IInv, Shape, GoodMaps
<1>8. CASE BuildProfiles(e)
  <2>1. /\ rows' = rows /\ refs' = refs /\ queue' = queue
        /\ pc[e] = "resolve" /\ pc'[e] = "install"
    BY <1>8 DEF BuildProfiles, Go, IInv, Shape
  <2>2. (Kinds(e) /\ Checked(e) /\ Swapping(e) /\ Turn(e))'
    BY <1>3, <1>4, <2>1 DEF Kinds, Checked, Swapping, Turn
  <2> QED BY <1>1, <1>2, <1>3, <2>1, <2>2, LocalStep DEF IInv, Shape, GoodMaps
<1>9. CASE Dump(e)
  <2>1. /\ refs' = refs /\ queue' = queue /\ pc[e] = "dump" /\ pc'[e] = "truncate"
        /\ rows'[e] = maps[Mine(e)].rows
    BY <1>9 DEF Dump, Go, Put, IInv, Shape
  <2>2. /\ queue[e] \in Seq(Device) /\ queue[e] # <<>>
        /\ \A i \in DOMAIN queue[e] : refs[e][queue[e][i]] \in MapId
        /\ job[e].kind \in {"signal", "bulk"}
    BY <1>4, <2>1 DEF Turn, Kinds
  <2>3. Dev(e) \in Device /\ Mine(e) \in MapId
    BY <2>2 DEF Dev, Mine
  <2>4. Valid(rows'[e]) /\ IsList(rows'[e])
    BY <2>1, <2>3 DEF IInv, Shape, IsMap, GoodMaps, Good, Mine
  <2>5. (Kinds(e) /\ Checked(e) /\ Swapping(e) /\ Turn(e))'
    BY <1>3, <2>1, <2>2, <2>4 DEF Kinds, Checked, Swapping, Turn
  <2> QED BY <1>1, <1>2, <1>3, <2>1, <2>4, <2>5, LocalStep DEF IInv, Shape, GoodMaps
<1> QED BY <1>5, <1>6, <1>7, <1>8, <1>9, <1>10

-----------------------------------------------------------------------------
(***************************************************************************)
(* The steps of a thread that others see.                                  *)
(***************************************************************************)
OthersWait(e) ==
  \A x \in Editor \ {e} : /\ pc'[x] = pc[x] /\ job'[x] = job[x] /\ rows'[x] = rows[x]
                          /\ queue'[x] = queue[x] /\ refs'[x] = refs[x]

LEMMA SharedStep ==
  ASSUME IInv, NEW e \in Editor, OthersWait(e), up, up' = up,
         Shape', GoodMaps', GoodFiles',
         \A d \in Device : regmaps'[d] \in MapId /\ server'[d] \in MapId,
         (Kinds(e) /\ Checked(e) /\ Swapping(e) /\ Turn(e))'
  PROVE  IInv'
<1>1. Running'
  BY DEF Running
<1>2. ASSUME NEW x \in Editor \ {e} PROVE (Kinds(x) /\ Checked(x) /\ Swapping(x) /\ Turn(x))'
  BY <1>2 DEF IInv, Threads, Kinds, Checked, Swapping, Turn, Dev, Mine, OthersWait
<1> QED BY <1>1, <1>2 DEF IInv, Threads

\* Rewriting a signal file, and simulation.json.
LEMMA FileStep ==
  ASSUME IInv, NEW e \in Editor, Truncate(e) \/ WriteCsv(e) \/ Erase(e) \/ Save(e) \/ Assign(e)
  PROVE  IInv'
<1>1. /\ pc[e] # "idle" /\ up /\ up' = up /\ maps' = maps /\ regmaps' = regmaps
      /\ server' = server /\ signals' = signals /\ refs' = refs /\ rows' = rows
      /\ job' = job /\ DOMAIN pc' = Editor /\ DOMAIN queue' = Editor
  BY DEF Truncate, WriteCsv, Erase, Save, Assign, Goes, Go, Put, engine, IInv, Shape, Running
<1>2. OthersWait(e)
  BY DEF Truncate, WriteCsv, Erase, Save, Assign, Goes, Go, Put, OthersWait, IInv, Shape
<1>3. /\ \A d \in Device : regmaps'[d] \in MapId /\ server'[d] \in MapId
      /\ GoodMaps'
  BY <1>1 DEF IInv, Running, GoodMaps, Good
<1>4. Kinds(e) /\ Checked(e) /\ Swapping(e) /\ Turn(e)
  BY DEF IInv, Threads
<1>5. Shape' /\ GoodFiles'
  <2>1. CASE Truncate(e)
    BY <1>1, <2>1 DEF Truncate, IInv, Shape, GoodFiles
  <2>2. CASE WriteCsv(e)
    <3>1. Valid(rows[e]) /\ IsList(rows[e])
      BY <1>4, <2>2 DEF WriteCsv, Checked, IInv, Shape
    <3> QED BY <1>1, <2>2, <3>1 DEF WriteCsv, IInv, Shape, GoodFiles
  <2>3. CASE Erase(e) \/ Save(e) \/ Assign(e)
    BY <1>1, <2>3 DEF Erase, Save, Assign, disk, IInv, Shape, GoodFiles
  <2> QED BY <2>1, <2>2, <2>3
<1>6. (Kinds(e) /\ Checked(e) /\ Swapping(e) /\ Turn(e))'
  <2>1. CASE Truncate(e)
    <3>1. pc[e] = "truncate" /\ pc'[e] = "write" /\ queue' = queue
      BY <2>1 DEF Truncate, Goes, Go, IInv, Shape
    <3> QED BY <1>1, <1>4, <3>1 DEF Kinds, Checked, Swapping, Turn
  <2>2. CASE WriteCsv(e) /\ job[e].kind \in Reloads
    <3>1. pc[e] = "write" /\ pc'[e] = "build" /\ queue' = queue
      BY <2>2 DEF WriteCsv, Go, IInv, Shape
    <3> QED BY <1>1, <1>4, <2>2, <3>1 DEF Kinds, Checked, Swapping, Turn
  <2>3. CASE WriteCsv(e) /\ job[e].kind \notin Reloads
    <3>1. /\ pc[e] = "write" /\ queue'[e] = Tail(queue[e])
          /\ pc'[e] = IF Len(queue[e]) > 1 THEN "resolve" ELSE "reply"
      BY <2>3 DEF WriteCsv, Go, Put, IInv, Shape
    <3>2. job[e].kind \in {"signal", "bulk"}
      BY <1>4, <2>3, <3>1 DEF Kinds
    <3>3. /\ queue[e] \in Seq(Device) /\ queue[e] # <<>>
          /\ \A i \in DOMAIN queue[e] : refs[e][queue[e][i]] \in MapId
      BY <1>4, <3>1, <3>2 DEF Turn
    <3>4. /\ Tail(queue[e]) \in Seq(Device)
          /\ \A i \in DOMAIN Tail(queue[e]) : /\ i + 1 \in DOMAIN queue[e]
                                             /\ Tail(queue[e])[i] = queue[e][i + 1]
          /\ Len(queue[e]) > 1 => Tail(queue[e]) # <<>>
      BY <3>3
    <3>5. Turn(e)'
      BY <1>1, <3>1, <3>3, <3>4 DEF Turn
    <3> QED BY <1>1, <3>1, <3>2, <3>5 DEF Kinds, Checked, Swapping
  <2>4. CASE Assign(e) \/ Erase(e) \/ Save(e)
    <3>1. /\ pc[e] \in {"assign", "erase", "save"}
          /\ pc'[e] \in {"erase", "save", "visit"}
      BY <2>4 DEF Assign, Erase, Save, Goes, Go, IInv, Shape
    <3> QED BY <1>1, <1>4, <3>1 DEF Kinds, Checked, Swapping, Turn
  <2> QED BY <2>1, <2>2, <2>3, <2>4
<1> QED BY <1>1, <1>2, <1>3, <1>5, <1>6, SharedStep

\* The new map.
LEMMA BuildStep == ASSUME IInv, NEW e \in Editor, Build(e) PROVE IInv'
<1>1. PICK m \in MapId \ Live :
        /\ maps' = [maps EXCEPT ![m] = NewMap(rows[e], simDefaults)]
        /\ refs' = [refs EXCEPT ![e][Dev(e)] = m]
  BY DEF Build
<1>2. /\ up /\ up' = up /\ regmaps' = regmaps /\ server' = server /\ signals' = signals
      /\ csv' = csv /\ rows' = rows /\ job' = job /\ queue' = queue
      /\ pc[e] = "build" /\ pc' = [pc EXCEPT ![e] = "swap"]
  BY DEF Build, Go, disk, IInv, Running
<1>3. Valid(rows[e]) /\ IsList(rows[e]) /\ job[e].kind \in Reloads
  BY <1>2 DEF IInv, Threads, Checked, Kinds, Shape
<1>4. /\ IsMap(maps'[m]) /\ maps'[m].rows = rows[e] /\ DOMAIN maps' = MapId
      /\ \A k \in MapId \ {m} : maps'[k] = maps[k]
  BY <1>1, <1>3, NewMapIsMap DEF IInv, Shape
<1>5. /\ refs' \in [Editor -> [Device -> MapId \cup {NoMap}]]
      /\ \A x \in Editor, d \in Device :
           refs'[x][d] = IF x = e /\ d = Dev(e) THEN m ELSE refs[x][d]
  BY <1>1 DEF IInv, Shape
<1>6. Shape'
  BY <1>2, <1>4, <1>5 DEF IInv, Shape
<1>7. GoodMaps'
  <2>1. /\ \A d \in Device : regmaps[d] # m /\ server[d] # m /\ signals[d] # m
        /\ \A x \in Editor, d \in Device : refs[x][d] # m
    BY DEF Live
  <2>2. ASSUME NEW k, k # m, Good(k) PROVE Good(k)'
    BY <1>4, <2>2 DEF Good
  <2>3. Good(m)'
    BY <1>3, <1>4 DEF Good
  <2> QED BY <1>2, <1>5, <2>1, <2>2, <2>3 DEF IInv, GoodMaps
<1>8. OthersWait(e)
  BY <1>2, <1>5, <1>1 DEF OthersWait, IInv, Shape
<1>9. (Kinds(e) /\ Checked(e) /\ Swapping(e) /\ Turn(e))'
  <2>1. pc'[e] = "swap"
    BY <1>2 DEF IInv, Shape
  <2> QED BY <1>2, <1>3, <1>5, <2>1 DEF Kinds, Checked, Swapping, Turn, Dev, Mine, Reloads
<1>10. GoodFiles' /\ \A d \in Device : regmaps'[d] \in MapId /\ server'[d] \in MapId
  BY <1>2 DEF IInv, GoodFiles, Running
<1> QED BY <1>2, <1>6, <1>7, <1>8, <1>9, <1>10, SharedStep

\* Handing it over.
LEMMA SwapStep ==
  ASSUME IInv, NEW e \in Editor, SwapServer(e) \/ SetRegmap(e) \/ SetSignals(e) PROVE IInv'
<1>1. /\ up /\ up' = up /\ maps' = maps /\ csv' = csv /\ rows' = rows /\ job' = job
      /\ queue' = queue /\ refs' = refs
      /\ pc[e] \in {"swap", "regmap", "signals"} /\ DOMAIN pc' = Editor
      /\ pc'[e] \in {"regmap", "signals", "reply"}
  BY DEF SwapServer, SetRegmap, SetSignals, Goes, Go, disk, IInv, Running, Shape
<1>2. /\ Dev(e) \in Device => Mine(e) \in MapId /\ Good(Mine(e))
      /\ job[e].kind \in Reloads
  BY <1>1 DEF IInv, Threads, Swapping, Kinds, GoodMaps, Mine
<1>3. \/ /\ server' = [server EXCEPT ![Dev(e)] = Mine(e)]
         /\ regmaps' = regmaps /\ signals' = signals
      \/ /\ regmaps' = [regmaps EXCEPT ![Dev(e)] = Mine(e)]
         /\ server' = server /\ signals' = signals
      \/ /\ signals' = [signals EXCEPT ![Dev(e)] = Mine(e)]
         /\ server' = server /\ regmaps' = regmaps
  BY DEF SwapServer, SetRegmap, SetSignals
<1>4. Shape'
  BY <1>1, <1>2, <1>3 DEF IInv, Shape
<1>5. GoodMaps' /\ \A d \in Device : regmaps'[d] \in MapId /\ server'[d] \in MapId
  BY <1>1, <1>2, <1>3 DEF IInv, Shape, GoodMaps, Good, Running
<1>6. OthersWait(e)
  BY <1>1 DEF SwapServer, SetRegmap, SetSignals, Goes, Go, OthersWait, IInv, Shape
<1>7. (Kinds(e) /\ Checked(e) /\ Swapping(e) /\ Turn(e))'
  BY <1>1, <1>2 DEF IInv, Threads, Kinds, Checked, Swapping, Turn, Dev, Mine, Reloads
<1>8. GoodFiles'
  BY <1>1 DEF IInv, GoodFiles
<1> QED BY <1>1, <1>4, <1>5, <1>6, <1>7, <1>8, SharedStep

\* Editing a map in place leaves the addresses.
LEMMA InPlace ==
  ASSUME IInv, NEW k, NEW n, NEW patch, NEW value,
         \/ maps' = [maps EXCEPT ![k].rows[n] = ApplyFields(@, patch)]
         \/ maps' = [maps EXCEPT ![k].profiles = value]
         \/ maps' = [maps EXCEPT ![k].defaults = value]
  PROVE  SameAddresses
<1>1. DOMAIN maps' = MapId
  BY DEF IInv, Shape
<1>2. ASSUME NEW m \in MapId, m # k PROVE maps'[m] = maps[m]
  BY <1>2 DEF IInv, Shape
<1>3. ASSUME k \in MapId
      PROVE  /\ IsMap(maps'[k])
             /\ \A x \in Name : maps'[k].rows[x].addr = maps[k].rows[x].addr
  <2>1. IsMap(maps[k]) /\ DOMAIN maps = MapId
    BY <1>3 DEF IInv, Shape
  <2>2. CASE maps' = [maps EXCEPT ![k].rows[n] = ApplyFields(@, patch)]
    <3>1. maps'[k].rows = [maps[k].rows EXCEPT ![n] = ApplyFields(maps[k].rows[n], patch)]
          /\ "rows" \in DOMAIN maps'[k]
      BY <1>3, <2>1, <2>2 DEF IsMap
    <3>2. IsList(maps[k].rows)
      BY <2>1 DEF IsMap
    <3> DEFINE old == maps[k].rows
               new == maps'[k].rows
    <3>3. new = [old EXCEPT ![n] = ApplyFields(old[n], patch)] /\ IsList(old)
      BY <3>1, <3>2
    <3> HIDE DEF old, new
    <3>4. IsList(new) /\ \A x \in Name : new[x].addr = old[x].addr
      BY <3>3, ApplyKeepsAddr DEF IsList
    <3> QED BY <3>1, <3>4 DEF IsMap, old, new
  <2>3. CASE maps' = [maps EXCEPT ![k].profiles = value]
    BY <1>3, <2>1, <2>3 DEF IsMap
  <2>4. CASE maps' = [maps EXCEPT ![k].defaults = value]
    BY <1>3, <2>1, <2>4 DEF IsMap
  <2> QED BY <2>2, <2>3, <2>4
<1>4. \A m \in MapId : IsMap(maps[m])
  BY DEF IInv, Shape
<1> QED BY <1>1, <1>2, <1>3, <1>4 DEF SameAddresses

LEMMA InPlaceStep ==
  ASSUME IInv, NEW e \in Editor, ApplySim(e) \/ ApplyMatch(e) \/ SwapProfiles(e) \/ Visit(e)
  PROVE  IInv'
<1>1. /\ up /\ up' = up /\ csv' = csv /\ rows' = rows /\ job' = job
      /\ regmaps' = regmaps /\ server' = server /\ signals' = signals
      /\ DOMAIN pc' = Editor /\ DOMAIN queue' = Editor
  BY DEF ApplySim, ApplyMatch, SwapProfiles, Visit, Goes, Go, Put, disk, IInv, Running, Shape
<1>2. SameAddresses
  <2>1. CASE ApplySim(e)
    BY <2>1, InPlace DEF ApplySim
  <2>2. CASE ApplyMatch(e)
    <3>1. PICK p \in todo[e] :
            maps' = [maps EXCEPT ![refs[e][Devices[p[1]]]].rows[Names[p[2]]] =
                       ApplyFields(@, job[e].patch)]
      BY <2>2 DEF ApplyMatch
    <3> QED BY <3>1, InPlace
  <2>3. CASE SwapProfiles(e)
    BY <2>3, InPlace DEF SwapProfiles
  <2>4. CASE Visit(e)
    BY <2>4, InPlace DEF Visit
  <2> QED BY <2>1, <2>2, <2>3, <2>4
<1>3. \A m : Good(m)' <=> Good(m)
  BY <1>2, SameValidity DEF Good
<1>4. /\ refs' \in [Editor -> [Device -> MapId \cup {NoMap}]]
      /\ \A x \in Editor, d \in Device : Good(refs'[x][d])
      /\ \A x \in Editor \ {e} : refs'[x] = refs[x]
  <2>1. CASE refs' = refs
    BY <2>1 DEF IInv, Shape, GoodMaps
  <2>2. CASE Visit(e)
    <3>1. refs' = [refs EXCEPT ![e] = [NoRefs EXCEPT ![Dev(e)] = regmaps[Dev(e)]]]
      BY <2>2 DEF Visit, Put
    <3>2. Good(NoMap)
      BY HotReloadAssumption DEF Good
    <3>3. \A d \in Device : refs'[e][d] = IF d = Dev(e) THEN regmaps[d] ELSE NoMap
      BY <3>1 DEF NoRefs, IInv, Shape
    <3>4. refs' \in [Editor -> [Device -> MapId \cup {NoMap}]]
      <4>1. Dev(e) \in Device => regmaps[Dev(e)] \in MapId \cup {NoMap}
        BY DEF IInv, Shape
      <4> QED BY <3>1, <4>1 DEF NoRefs, IInv, Shape
    <3>5. \A x \in Editor \ {e} : refs'[x] = refs[x]
      BY <3>1 DEF IInv, Shape
    <3> QED BY <3>2, <3>3, <3>4, <3>5 DEF IInv, GoodMaps
  <2> QED BY <2>1, <2>2 DEF ApplySim, ApplyMatch, SwapProfiles, Goes
<1>5. Shape'
  BY <1>1, <1>2, <1>4 DEF IInv, Shape, SameAddresses
<1>6. GoodMaps'
  BY <1>1, <1>3, <1>4 DEF IInv, GoodMaps
<1>7. OthersWait(e)
  BY <1>1, <1>4 DEF ApplySim, ApplyMatch, SwapProfiles, Visit, Goes, Go, Put, OthersWait,
                    IInv, Shape
<1>8. Kinds(e) /\ Checked(e) /\ Swapping(e) /\ Turn(e)
  BY DEF IInv, Threads
<1>9. (Kinds(e) /\ Checked(e) /\ Swapping(e) /\ Turn(e))'
  <2>1. CASE ApplySim(e)
    <3>1. /\ pc[e] = "apply" /\ pc'[e] \in {"reply", "resolve"}
          /\ refs' = refs /\ queue' = queue
      BY <2>1 DEF ApplySim, Goes, Go, IInv, Shape
    <3> QED BY <1>1, <1>8, <3>1 DEF Kinds, Checked, Swapping, Turn
  <2>2. CASE ApplyMatch(e)
    <3>1. pc[e] = "match" /\ pc' = pc /\ refs' = refs /\ queue' = queue
      BY <2>2 DEF ApplyMatch
    <3> QED BY <1>1, <1>8, <3>1 DEF Kinds, Checked, Swapping, Turn
  <2>3. CASE SwapProfiles(e) /\ job[e].kind = "settings"
    <3>1. pc'[e] \in {"visit", "reply"}
      BY <2>3 DEF SwapProfiles, Go, IInv, Shape
    <3> QED BY <1>1, <2>3, <3>1 DEF Kinds, Checked, Swapping, Turn
  <2>4. CASE SwapProfiles(e) /\ job[e].kind # "settings"
    <3>1. pc[e] = "install" /\ pc'[e] = "dump" /\ refs' = refs /\ queue' = queue
      BY <2>4 DEF SwapProfiles, Go, IInv, Shape
    <3> QED BY <1>1, <1>8, <2>4, <3>1 DEF Kinds, Checked, Swapping, Turn
  <2>5. CASE Visit(e)
    <3>1. pc[e] = "visit" /\ pc'[e] = "resolve"
      BY <2>5 DEF Visit, Go, IInv, Shape
    <3> QED BY <1>1, <1>8, <3>1 DEF Kinds, Checked, Swapping, Turn
  <2> QED BY <2>1, <2>2, <2>3, <2>4, <2>5
<1>10. GoodFiles' /\ \A d \in Device : regmaps'[d] \in MapId /\ server'[d] \in MapId
  BY <1>1 DEF IInv, GoodFiles, Running
<1> QED BY <1>1, <1>5, <1>6, <1>7, <1>9, <1>10, SharedStep

\* The answer: what nobody holds is garbage.
LEMMA ReplyStep == ASSUME IInv, NEW e \in Editor, Reply(e) PROVE IInv'
<1>1. /\ up /\ up' = up /\ csv' = csv
      /\ regmaps' = regmaps /\ server' = server /\ signals' = signals
      /\ DOMAIN pc' = Editor /\ pc'[e] = "idle" /\ refs' = [refs EXCEPT ![e] = NoRefs]
      /\ DOMAIN job' = Editor /\ DOMAIN queue' = Editor
      /\ rows' = [rows EXCEPT ![e] = NoRows]
  BY DEF Reply, Forget, Put, disk, IInv, Running, Shape
<1>2. OthersWait(e)
  BY DEF Reply, Forget, Put, OthersWait, IInv, Shape
<1>3. /\ DOMAIN maps' = MapId
      /\ \A m \in MapId : maps'[m] = IF m \in Live' THEN maps[m] ELSE Blank
  BY DEF Reply
<1>4. IsMap(Blank)
  BY NoRowsIsList, NewMapIsMap DEF Blank
<1>5. refs' \in [Editor -> [Device -> MapId \cup {NoMap}]]
  BY <1>1 DEF NoRefs, IInv, Shape
<1>6. \A x \in Editor : IsList(rows'[x])
  BY <1>1, NoRowsIsList DEF IInv, Shape
<1>7. Shape'
  BY <1>1, <1>3, <1>4, <1>5, <1>6 DEF IInv, Shape
<1>8. /\ \A d \in Device : regmaps[d] \in Live' /\ server[d] \in Live' /\ signals[d] \in Live'
      /\ \A x \in Editor, d \in Device : refs'[x][d] \in Live'
  BY <1>1 DEF Live
<1>9. \A m \in Live' : Good(m) => Good(m)'
  BY <1>3 DEF Good
<1>10. \A x \in Editor, d \in Device : Good(refs'[x][d])
  <2>1. Good(NoMap)
    BY HotReloadAssumption DEF Good
  <2>2. \A x \in Editor, d \in Device : refs'[x][d] = IF x = e THEN NoMap ELSE refs[x][d]
    BY <1>1 DEF NoRefs, IInv, Shape
  <2> QED BY <2>1, <2>2 DEF IInv, GoodMaps
<1>11. GoodMaps'
  BY <1>1, <1>8, <1>9, <1>10 DEF IInv, GoodMaps
<1>12. GoodFiles' /\ \A d \in Device : regmaps'[d] \in MapId /\ server'[d] \in MapId
  BY <1>1 DEF IInv, GoodFiles, Running
<1>13. (Kinds(e) /\ Checked(e) /\ Swapping(e) /\ Turn(e))'
  BY <1>1 DEF Kinds, Checked, Swapping, Turn
<1> QED BY <1>1, <1>2, <1>7, <1>11, <1>12, <1>13, SharedStep

-----------------------------------------------------------------------------
(***************************************************************************)
(* The process dies and comes back.                                        *)
(***************************************************************************)
\* There is a map for every device.
LEMMA DevicesFit == \A m \in DOMAIN Devices : m \in MapId /\ Devices[m] \in Device
<1>1. Devices \in Seq(Device) /\ MaxMaps \in Nat /\ Len(Devices) \in 1 .. MaxMaps
  BY HotReloadAssumption
<1>2. DOMAIN Devices = 1 .. Len(Devices)
  BY <1>1
<1> QED BY <1>1, <1>2 DEF MapId, Device

\* What a process that has just been started holds.
Started(new, places, files, settings) ==
  /\ new = [m \in MapId |->
             IF m \in DOMAIN Devices THEN NewMap(files[Devices[m]], settings) ELSE Blank]
  /\ places = [d \in Device |-> MapOf(d)]

LEMMA StartedWell ==
  ASSUME NEW files, NEW settings, NEW new, NEW places,
         \A d \in Device : IsList(files[d]) /\ Valid(files[d]),
         Started(new, places, files, settings)
  PROVE  /\ DOMAIN new = MapId /\ \A m \in MapId : IsMap(new[m])
         /\ places \in [Device -> MapId]
         /\ \A d \in Device : Valid(new[places[d]].rows)
<1>1. \A m \in DOMAIN Devices : m \in MapId /\ Devices[m] \in Device
  BY DevicesFit
<1>2. \A d \in Device : MapOf(d) \in DOMAIN Devices /\ Devices[MapOf(d)] = d
  BY DEF MapOf, Device
<1>3. IsMap(Blank)
  BY NoRowsIsList, NewMapIsMap DEF Blank
<1>4. \A m \in DOMAIN Devices : /\ IsMap(new[m])
                               /\ new[m].rows = files[Devices[m]]
  BY <1>1, NewMapIsMap DEF Started
<1>5. DOMAIN new = MapId /\ \A m \in MapId : IsMap(new[m])
  BY <1>3, <1>4 DEF Started
<1>6. places \in [Device -> MapId] /\ \A d \in Device : places[d] \in DOMAIN Devices
                                                      /\ Devices[places[d]] = d
  BY <1>1, <1>2 DEF Started
<1> QED BY <1>4, <1>5, <1>6

LEMMA InitInv == Init => IInv
<1> SUFFICES ASSUME Init PROVE IInv
  OBVIOUS
<1>1. \A d \in Device : /\ csv[d] # Torn /\ IsList(csv[d]) /\ Valid(csv[d])
  BY HotReloadAssumption, RowsAreLists DEF Init
<1>2. DOMAIN csv = Device
  BY DEF Init
<1>3. /\ DOMAIN maps = MapId /\ \A m \in MapId : IsMap(maps[m])
      /\ regmaps \in [Device -> MapId]
      /\ \A d \in Device : Valid(maps[regmaps[d]].rows)
  <2>1. Started(maps, regmaps, csv, simFile)
    BY DEF Init, Started
  <2> QED BY <1>1, <2>1, StartedWell
<1>4. /\ refs \in [Editor -> [Device -> MapId \cup {NoMap}]]
      /\ \A e \in Editor, d \in Device : refs[e][d] = NoMap
  BY DEF Init, NoRefs
<1>5. Shape
  BY <1>1, <1>2, <1>3, <1>4, NoRowsIsList DEF Init, Shape
<1>6. GoodMaps
  BY <1>3, <1>4, HotReloadAssumption DEF Init, GoodMaps, Good
<1>7. Threads
  BY DEF Init, Threads, Kinds, Checked, Swapping, Turn
<1> QED BY <1>1, <1>3, <1>5, <1>6, <1>7 DEF IInv, Init, Running, GoodFiles

LEMMA CrashStep == ASSUME IInv, Crash PROVE IInv'
<1>1. IsMap(Blank)
  BY NoRowsIsList, NewMapIsMap DEF Blank
<1>2. /\ refs' \in [Editor -> [Device -> MapId \cup {NoMap}]]
      /\ \A e \in Editor, d \in Device : refs'[e][d] = NoMap
  BY DEF Crash, NoRefs
<1>3. Shape'
  BY <1>1, <1>2, NoRowsIsList DEF Crash, disk, IInv, Shape
<1>4. GoodMaps'
  BY <1>2, HotReloadAssumption DEF Crash, GoodMaps, Good
<1>5. Threads'
  BY DEF Crash, Threads, Kinds, Checked, Swapping, Turn
<1>6. Running'
  BY <1>2 DEF Crash, Running
<1>7. GoodFiles'
  BY DEF Crash, disk, IInv, GoodFiles
<1> QED BY <1>3, <1>4, <1>5, <1>6, <1>7 DEF IInv

LEMMA RestoreStep == ASSUME IInv, Restore PROVE IInv'
<1>1. \A d \in Device : /\ csv[d] # Torn /\ IsList(csv[d]) /\ Valid(csv[d])
  BY DEF Restore, Usable, IInv, Shape
<1>2. DOMAIN csv = Device
  BY DEF IInv, Shape
<1>3. /\ DOMAIN maps' = MapId /\ \A m \in MapId : IsMap(maps'[m])
      /\ regmaps' \in [Device -> MapId] /\ server' = regmaps' /\ signals' = regmaps'
      /\ \A d \in Device : Valid(maps'[regmaps'[d]].rows)
  <2>1. Started(maps', regmaps', csv, LoadDefaults(simFile))
    BY DEF Restore, Loaded, Started
  <2>2. server' = regmaps' /\ signals' = regmaps'
    BY DEF Restore, Loaded
  <2> QED BY <1>1, <2>1, <2>2, StartedWell
<1>4. UNCHANGED <<csv, pc, job, rows, queue, refs>> /\ up' /\ ~up
  BY DEF Restore, disk, locals
<1>5. \A e \in Editor : pc[e] = "idle"
  BY <1>4 DEF IInv, Running
<1>6. Shape'
  BY <1>3, <1>4 DEF IInv, Shape
<1>7. Running' /\ GoodFiles'
  BY <1>3, <1>4 DEF IInv, Running, GoodFiles
<1>8. Threads'
  BY <1>4, <1>5 DEF Threads, Kinds, Checked, Swapping, Turn
<1>9. GoodMaps'
  <2>1. \A e \in Editor, d \in Device : refs'[e][d] = NoMap
    BY <1>4 DEF IInv, Running
  <2> QED BY <1>3, <2>1, HotReloadAssumption DEF GoodMaps, Good
<1> QED BY <1>6, <1>7, <1>8, <1>9 DEF IInv

LEMMA ReuploadStep == ASSUME IInv, NEW d \in Device, Reupload(d) PROVE IInv'
<1>1. PICK list \in Files : csv' = [csv EXCEPT ![d] = list]
  BY DEF Reupload
<1>2. IsList(list) /\ Valid(list)
  BY HotReloadAssumption, RowsAreLists
<1>3. UNCHANGED <<up, maps, regmaps, server, signals, pc, job, rows, queue, refs>>
  BY DEF Reupload, engine, locals
<1>4. Shape' /\ GoodFiles'
  BY <1>1, <1>2, <1>3 DEF IInv, Shape, GoodFiles
<1>5. Running' /\ GoodMaps' /\ Threads'
  BY <1>3 DEF IInv, Running, GoodMaps, Good, Threads, Kinds, Checked, Swapping, Turn, Dev, Mine
<1> QED BY <1>4, <1>5 DEF IInv

-----------------------------------------------------------------------------
LEMMA IInvStep == ASSUME IInv, [Next]_vars PROVE IInv'
<1>1. ASSUME NEW e \in Editor, Step(e) PROVE IInv'
  BY <1>1, BeginStep, QuietStep, FileStep, BuildStep, SwapStep, InPlaceStep, ReplyStep DEF Step
<1>2. CASE UNCHANGED vars
  BY <1>2 DEF vars, IInv, Shape, Running, GoodMaps, Good, GoodFiles, Threads, Kinds, Checked,
              Swapping, Turn, Dev, Mine
<1> QED BY <1>1, <1>2, CrashStep, RestoreStep, ReuploadStep DEF Next

LEMMA IInvAlways == Spec => []IInv
BY InitInv, IInvStep, PTL DEF Spec

\* For any devices, signals, threads and requests: whatever edits race, and wherever
\* the process dies, no list with two signals on one register is served or left in a
\* file that a restart can read.
THEOREM OnlyValidServed == Spec => []ServedValid
<1>1. IInv => ServedValid
  BY DEF IInv, Running, GoodMaps, Good, GoodFiles, ServedValid
<1> QED BY <1>1, IInvAlways, PTL

(***************************************************************************)
(* Whose map is whose, and where requests are.                             *)
(***************************************************************************)
Holds(d, m) ==
  \/ regmaps[d] = m \/ server[d] = m \/ signals[d] = m
  \/ \E e \in Editor : refs[e][d] = m

\* A map belongs to one device.
Separate == \A m \in MapId : \A d, x \in Device : Holds(d, m) /\ Holds(x, m) => d = x

ForOne == Reloads \cup {"signal"}

\* The devices a request still has to deal with, and the maps it has taken hold of.
Placed(e) ==
  /\ pc[e] # "idle" => job[e] \in Jobs[e]
  /\ pc[e] = "match" => job[e].kind = "bulk"
  /\ pc[e] = "apply" => job[e].kind = "signal"
  /\ pc[e] \notin {"idle", "reply"} /\ job[e].kind \in ForOne => queue[e] = <<job[e].dev>>
  /\ pc[e] \in {"visit", "resolve", "install"} /\ job[e].kind = "settings" => queue[e] # <<>>
  /\ pc[e] \in {"resolve", "install"} => Mine(e) \in MapId
  /\ \A d \in Device : refs[e][d] # NoMap =>
       pc[e] # "idle" /\ (job[e].kind = "settings" \/ d \in Edits(job[e]))

SInv == StateOK /\ IInv /\ Separate /\ \A e \in Editor : Placed(e)

Ran(q) == {q[i] : i \in DOMAIN q}

\* The devices a request is editing: begun and not yet finished.
Hands(e) ==
  IF pc[e] \in {"idle", "reply"} \/ job[e].kind = "settings" THEN {}
  ELSE IF pc[e] = "match" THEN {d \in Device : refs[e][d] # NoMap}
  ELSE Ran(queue[e])

-----------------------------------------------------------------------------
\* No two threads reload the same device.
OneReloader ==
  \A e, f \in Editor : e # f =>
    \A j \in Jobs[e], k \in Jobs[f] : j.kind \in Reloads /\ k.kind \in Reloads => j.dev # k.dev

\* Only one thread changes the project's simulation settings.
OneSetter ==
  \A e, f \in Editor : e # f =>
    \A j \in Jobs[e], k \in Jobs[f] : ~(j.kind = "settings" /\ k.kind = "settings")

\* A step of a thread, and what history makes of it.
Moves(e) == Step(e) /\ NoteCrossed(e) /\ NoteMixed(e) /\ NoteParted(e)

\* Two requests under way that edit one device have crossed there, and so has a
\* set_simulation under way with any other.
CrossInv ==
  \A e, x \in Editor : e # x /\ Working(e) /\ Working(x) =>
    Edits(job[e]) \cap Edits(job[x]) \subseteq crossed
MixInv ==
  \A e, x \in Editor : e # x /\ Working(e) /\ Working(x) /\ job[e].kind = "settings" => mixed

-----------------------------------------------------------------------------
\* The engine, the server and the list hold one map, but for a reload between its swaps.
Swaps(e, d) == pc[e] \in {"regmap", "signals"} /\ job[e].dev = d
Agreed(d) == server[d] = regmaps[d] /\ signals[d] = regmaps[d]
AgreeInv ==
  /\ up => \A d \in Device : Agreed(d) \/ \E e \in Editor : Swaps(e, d)
  /\ \A e \in Editor : /\ pc[e] \in {"regmap", "signals"} => server[Dev(e)] = Mine(e)
                       /\ pc[e] = "signals" => regmaps[Dev(e)] = Mine(e)

\* The settings in force are those on disk, but while a thread is replacing the file.
SavedInv ==
  /\ \A e \in Editor : pc[e] \in {"erase", "save"} => simDefaults = chosen[e]
  /\ up /\ (\A e \in Editor : pc[e] \notin {"erase", "save"}) =>
       LoadDefaults(simFile) = simDefaults

Current(d) == csv[d] = maps[regmaps[d]].rows
RowsAt(e) ==
  /\ pc[e] \in {"check", "apply"} /\ Dev(e) \notin crossed \cup parted => Current(Dev(e))
  /\ pc[e] = "signals" /\ Dev(e) \notin crossed => Current(Dev(e))
  /\ pc[e] \in {"build", "swap", "regmap"} /\ Dev(e) \notin crossed => csv[Dev(e)] = rows[e]
  /\ pc[e] \in {"swap", "regmap"} /\ Dev(e) \notin crossed => maps[Mine(e)].rows = rows[e]
  /\ Busy(e) /\ job[e].kind \in {"signal", "bulk"} =>
       /\ \A x \in Hands(e) \ crossed : refs[e][x] = regmaps[x]
       /\ pc[e] \in {"truncate", "write"} /\ Dev(e) \notin crossed =>
            rows[e] = maps[Mine(e)].rows
RowsInv ==
  up => /\ \A d \in Device \ (crossed \cup parted) :
             (\A e \in Editor : d \notin Hands(e)) => Current(d)
        /\ \A e \in Editor : RowsAt(e)

EditAt(e) ==
  /\ pc[e] \in {"check", "truncate", "write", "build", "swap", "regmap"}
  /\ job[e].kind = "update" /\ Dev(e) \notin crossed
  => rows[e] = [maps[regmaps[Dev(e)]].rows EXCEPT ![job[e].name].addr = job[e].addr]
EditInv == \A e \in Editor : EditAt(e)

\* The devices a set_simulation has still to tell of the settings.
Late(e) ==
  IF pc[e] \in {"erase", "save"} THEN Device
  ELSE IF pc[e] = "visit" \/ (pc[e] \in {"resolve", "install"} /\ job[e].kind = "settings")
       THEN Ran(queue[e]) ELSE {}
Resolved(m) == maps[m].profiles = ResolveAll(maps[m].rows, simDefaults)
Settled(m) == maps[m].defaults = simDefaults
Alone(e) == job[e].kind = "settings" \/ Dev(e) \notin crossed
ProfilesAt(e) ==
  /\ pc[e] \in {"check", "apply"} /\ Dev(e) \notin crossed \cup parted => Resolved(regmaps[Dev(e)])
  /\ \/ pc[e] \in {"signals", "dump"}
     \/ pc[e] \in {"truncate", "write"} /\ job[e].kind \in {"signal", "bulk"}
     => Dev(e) \in crossed \/ Resolved(regmaps[Dev(e)])
  /\ pc[e] \in {"swap", "regmap"} => Settled(Mine(e)) /\ (Dev(e) \in crossed \/ Resolved(Mine(e)))
  /\ pc[e] \in {"resolve", "install"} /\ Alone(e) => Mine(e) = regmaps[Dev(e)] /\ Settled(Mine(e))
  /\ pc[e] = "install" /\ Alone(e) => built[e] = ResolveAll(maps[Mine(e)].rows, simDefaults)
  /\ \/ pc[e] \in {"erase", "save", "visit"}
     \/ pc[e] \in {"resolve", "install"} /\ job[e].kind = "settings"
     => simDefaults = chosen[e]
ProfilesInv ==
  up /\ ~mixed =>
    /\ \A d \in Device \ (crossed \cup parted) :
         (\A e \in Editor : d \notin Hands(e) \cup Late(e)) => Resolved(regmaps[d])
    /\ \A d \in Device : (\A e \in Editor : d \notin Late(e)) => Settled(regmaps[d])
    /\ \A e \in Editor : ProfilesAt(e)

-----------------------------------------------------------------------------
(***************************************************************************)
(* Types.                                                                  *)
(***************************************************************************)
LEMMA NoRowsType == NoRows \in Rows
<1>1. (CHOOSE a \in Addr : TRUE) \in Addr
  BY HotReloadAssumption
<1> QED BY <1>1 DEF NoRows, Rows, Row, Modes

LEMMA ResolveType ==
  ASSUME NEW list \in Rows, NEW settings \in Settings
  PROVE  ResolveAll(list, settings) \in Profiles
<1>1. \A n \in Name : ResolveProfile(list[n], settings) \in Modes \ {""}
  BY DEF ResolveProfile, Rows, Row, Settings, Modes
<1> QED BY <1>1 DEF ResolveAll, Profiles

LEMMA NewMapType ==
  ASSUME NEW list \in Rows, NEW settings \in Settings
  PROVE  /\ NewMap(list, settings) \in Maps
         /\ NewMap(list, settings).rows = list
         /\ NewMap(list, settings).defaults = settings
         /\ NewMap(list, settings).profiles = ResolveAll(list, settings)
BY ResolveType DEF NewMap, Maps

LEMMA DefaultsType == DefaultSettings \in Settings
BY DEF DefaultSettings, Settings, Modes

LEMMA BlankType == Blank \in Maps /\ NoProfiles \in Profiles
<1>1. Blank \in Maps
  BY NoRowsType, DefaultsType, NewMapType DEF Blank
<1> QED BY <1>1 DEF NoProfiles, Maps

LEMMA ApplyType ==
  ASSUME NEW row \in Row, NEW patch,
         "mode" \in DOMAIN patch => patch["mode"] \in Modes \cup {"bad"}
  PROVE  ApplyFields(row, patch) \in Row
<1>1. CASE "mode" \in DOMAIN patch /\ patch["mode"] # "bad"
  BY <1>1 DEF ApplyFields, Row
<1>2. CASE ~("mode" \in DOMAIN patch /\ patch["mode"] # "bad")
  BY <1>2 DEF ApplyFields, Row
<1> QED BY <1>1, <1>2

LEMMA MergeType ==
  ASSUME NEW settings \in Settings, NEW patch,
         "enabled" \in DOMAIN patch => patch["enabled"] \in BOOLEAN,
         "mode" \in DOMAIN patch => patch["mode"] \in Modes \ {""}
  PROVE  Merge(settings, patch) \in Settings
BY DEF Merge, Settings

\* What an edit in place makes of the maps: one map changes, in one field.
LEMMA EditMaps ==
  ASSUME maps \in [MapId -> Maps], NEW k \in MapId, NEW n \in Name, NEW patch,
         "mode" \in DOMAIN patch => patch["mode"] \in Modes \cup {"bad"},
         maps' = [maps EXCEPT ![k].rows[n] = ApplyFields(@, patch)]
  PROVE  /\ maps' \in [MapId -> Maps]
         /\ \A m \in MapId : m # k => maps'[m] = maps[m]
         /\ maps'[k].defaults = maps[k].defaults /\ maps'[k].profiles = maps[k].profiles
         /\ maps'[k].rows = [maps[k].rows EXCEPT ![n] = ApplyFields(maps[k].rows[n], patch)]
<1> DEFINE new == [maps[k].rows EXCEPT ![n] = ApplyFields(maps[k].rows[n], patch)]
<1>1. maps[k] \in Maps /\ maps[k].rows \in Rows
  BY DEF Maps
<1>2. new \in Rows
  <2>1. ApplyFields(maps[k].rows[n], patch) \in Row
    BY <1>1, ApplyType DEF Rows
  <2> QED BY <1>1, <2>1 DEF Rows
<1>3. maps' = [maps EXCEPT ![k] = [maps[k] EXCEPT !.rows = new]]
  OBVIOUS
<1>4. [maps[k] EXCEPT !.rows = new] \in Maps
  BY <1>1, <1>2 DEF Maps
<1> HIDE DEF new
<1>5. /\ maps' \in [MapId -> Maps] /\ maps'[k] = [maps[k] EXCEPT !.rows = new]
      /\ \A m \in MapId : m # k => maps'[m] = maps[m]
  BY <1>3, <1>4
<1> QED BY <1>1, <1>5 DEF Maps, new

LEMMA EditType ==
  ASSUME maps \in [MapId -> Maps], NEW k \in MapId, NEW n, NEW patch,
         "mode" \in DOMAIN patch => patch["mode"] \in Modes \cup {"bad"}
  PROVE  [maps EXCEPT ![k].rows[n] = ApplyFields(@, patch)] \in [MapId -> Maps]
<1> DEFINE list == maps[k].rows
           new == [list EXCEPT ![n] = ApplyFields(list[n], patch)]
<1>1. maps[k] \in Maps /\ list \in Rows
  BY DEF Maps
<1> HIDE DEF list
<1>2. new \in Rows
  <2>1. n \in Name => ApplyFields(list[n], patch) \in Row
    BY <1>1, ApplyType DEF Rows
  <2> QED BY <1>1, <2>1 DEF Rows
<1> HIDE DEF new
<1>3. [maps[k] EXCEPT !.rows = new] \in Maps
  BY <1>1, <1>2 DEF Maps
<1>4. [maps EXCEPT ![k] = [maps[k] EXCEPT !.rows = new]] \in [MapId -> Maps]
  BY <1>3
<1> QED BY <1>4 DEF new, list

LEMMA SetMaps ==
  ASSUME maps \in [MapId -> Maps], NEW k \in MapId, NEW value,
         \/ value \in Profiles /\ maps' = [maps EXCEPT ![k].profiles = value]
         \/ value \in Settings /\ maps' = [maps EXCEPT ![k].defaults = value]
  PROVE  /\ maps' \in [MapId -> Maps]
         /\ \A m \in MapId : m # k => maps'[m] = maps[m]
         /\ maps'[k].rows = maps[k].rows
         /\ maps' = [maps EXCEPT ![k].profiles = value] =>
              maps'[k].profiles = value /\ maps'[k].defaults = maps[k].defaults
         /\ maps' = [maps EXCEPT ![k].defaults = value] =>
              maps'[k].defaults = value /\ maps'[k].profiles = maps[k].profiles
BY DEF Maps

-----------------------------------------------------------------------------
(***************************************************************************)
(* SInv is an invariant.                                                   *)
(***************************************************************************)
\* Where a request is, the device and the map it is at exist.
LEMMA AtDevice ==
  ASSUME SInv, NEW e \in Editor
  PROVE  /\ Busy(e) => up /\ job[e] \in Jobs[e]
         /\ up => \A d \in Device : regmaps[d] \in MapId /\ server[d] \in MapId
         /\ pc[e] \in {"check", "truncate", "write", "build", "swap", "regmap", "signals",
                       "apply", "resolve", "install", "dump", "visit"} =>
              queue[e] # <<>> /\ Dev(e) \in Device
         /\ pc[e] \in {"swap", "regmap", "signals", "apply", "resolve", "install", "dump"} =>
              Mine(e) \in MapId /\ Mine(e) = refs[e][Dev(e)]
<1> DEFINE P == pc[e] \in {"check", "truncate", "write", "build", "swap", "regmap", "signals",
                       "apply", "resolve", "install", "dump", "visit"}
<1>1. Busy(e) => up /\ job[e] \in Jobs[e]
  BY DEF SInv, IInv, Running, Placed, Busy
<1>2. up => \A d \in Device : regmaps[d] \in MapId /\ server[d] \in MapId
  BY DEF SInv, IInv, Running
<1>3. Kinds(e) /\ Turn(e) /\ Swapping(e) /\ Placed(e) /\ queue[e] \in Seq(Device)
  BY DEF SInv, IInv, Threads, StateOK
<1>4. ASSUME P PROVE queue[e] # <<>> /\ Dev(e) \in Device
  <2>1. CASE job[e].kind \in ForOne
    <3>1. queue[e] = <<job[e].dev>>
      BY <1>3, <1>4, <2>1 DEF Placed
    <3> QED BY <1>3, <3>1 DEF Dev
  <2>2. CASE job[e].kind = "bulk"
    <3>1. queue[e] # <<>>
      BY <1>3, <1>4, <2>2 DEF Kinds, Turn, Reloads
    <3> QED BY <1>3, <3>1 DEF Dev
  <2>3. CASE job[e].kind = "settings"
    <3>1. queue[e] # <<>>
      BY <1>3, <1>4, <2>3 DEF Kinds, Placed, Reloads
    <3> QED BY <1>3, <3>1 DEF Dev
  <2> QED BY <1>3, <1>4, <2>1, <2>2, <2>3 DEF Kinds, ForOne, Reloads
<1>5. ASSUME pc[e] \in {"swap", "regmap", "signals", "apply", "resolve", "install", "dump"}
      PROVE  Mine(e) \in MapId /\ Mine(e) = refs[e][Dev(e)]
  <2>1. P
    BY <1>5
  <2>2. queue[e] # <<>> /\ Dev(e) \in Device
    BY <1>4, <2>1
  <2>3. CASE pc[e] \in {"swap", "regmap", "signals"}
    BY <1>3, <2>2, <2>3 DEF Swapping, Mine
  <2>4. CASE pc[e] \in {"resolve", "install"}
    BY <1>3, <2>4 DEF Placed, Mine
  <2>5. CASE pc[e] \in {"apply", "dump"}
    <3>1. \A i \in DOMAIN queue[e] : refs[e][queue[e][i]] \in MapId
      BY <1>3, <2>5 DEF Kinds, Turn
    <3>2. refs[e][queue[e][1]] \in MapId
      BY <1>3, <2>2, <3>1
    <3> QED BY <1>3, <2>2, <3>2 DEF Mine, Dev
  <2> QED BY <1>5, <2>3, <2>4, <2>5
<1> QED BY <1>1, <1>2, <1>4, <1>5

\* What a thread does changes nothing about another one's request.
OthersKeep(e) ==
  \A x \in Editor \ {e} :
    /\ pc'[x] = pc[x] /\ job'[x] = job[x] /\ rows'[x] = rows[x] /\ queue'[x] = queue[x]
    /\ refs'[x] = refs[x] /\ built'[x] = built[x] /\ chosen'[x] = chosen[x]

LEMMA StepOthers == ASSUME SInv, NEW e \in Editor, Step(e) PROVE OthersKeep(e)
<1> USE DEF OthersKeep, SInv, StateOK, Go, Put
<1>1. ASSUME NEW j \in Jobs[e], Begin(e, j) PROVE OthersKeep(e)
  BY <1>1 DEF Begin, BeginReload, BeginUpdate, BeginDeviceSim, BeginSignalSim, BeginBulkSim,
              BeginSettings, IInv, Shape
<1>2. CASE Accept(e) \/ Reject(e) \/ SwapFails(e) \/ Truncate(e) \/ WriteCsv(e) \/ Build(e)
  BY <1>2 DEF Accept, Reject, SwapFails, Truncate, WriteCsv, Build, Goes, IInv, Shape
<1>3. CASE SwapServer(e) \/ SetRegmap(e) \/ SetSignals(e) \/ ApplySim(e) \/ Iterate(e)
  BY <1>3 DEF SwapServer, SetRegmap, SetSignals, ApplySim, Iterate, Goes, IInv, Shape
<1>4. CASE ApplyMatch(e) \/ Matched(e) \/ BuildProfiles(e) \/ SwapProfiles(e) \/ Dump(e)
  BY <1>4 DEF ApplyMatch, Matched, BuildProfiles, SwapProfiles, Dump, IInv, Shape
<1>5. CASE Assign(e) \/ Erase(e) \/ Save(e) \/ Visit(e) \/ Reply(e)
  BY <1>5 DEF Assign, Erase, Save, Visit, Reply, Goes, Forget, IInv, Shape
<1> QED BY <1>1, <1>2, <1>3, <1>4, <1>5 DEF Step

LEMMA TypeBegin == ASSUME SInv, NEW e \in Editor, NEW j \in Jobs[e], Begin(e, j) PROVE StateOK'
<1> USE DEF StateOK, Ready, Go, Put, engine, disk
<1>1. CASE BeginReload(e, j)
  <2>1. j.rows \in Rows /\ j.dev \in Device
    BY <1>1, HotReloadAssumption DEF BeginReload
  <2> QED BY <1>1, <2>1 DEF BeginReload, SInv, Steps
<1>2. ASSUME up, j.dev \in Device PROVE maps[regmaps[j.dev]].rows \in Rows
  BY <1>2, AtDevice DEF SInv, Maps
<1>3. CASE BeginUpdate(e, j)
  <2>1. j.addr \in Addr /\ j.dev \in Device /\ up
    BY <1>3, HotReloadAssumption DEF BeginUpdate
  <2>2. rows'[e] = [maps[regmaps[j.dev]].rows EXCEPT ![j.name].addr = j.addr]
    BY <1>3 DEF BeginUpdate, SInv
  <2> DEFINE live == maps[regmaps[j.dev]].rows
  <2>3. live \in Rows
    BY <1>2, <2>1
  <2> HIDE DEF live
  <2>4. [live EXCEPT ![j.name].addr = j.addr] \in Rows
    BY <2>1, <2>3 DEF Rows, Row
  <2> QED BY <1>3, <2>1, <2>2, <2>4 DEF BeginUpdate, SInv, Steps, live
<1>4. CASE BeginDeviceSim(e, j)
  <2>1. j.mode \in Modes /\ j.dev \in Device /\ up
    BY <1>4, HotReloadAssumption DEF BeginDeviceSim
  <2> DEFINE live == maps[regmaps[j.dev]].rows
  <2>2. live \in Rows
    BY <1>2, <2>1
  <2>3. rows' = [rows EXCEPT ![e] = [n \in Name |-> [live[n] EXCEPT !.mode = j.mode]]]
    BY <1>4 DEF BeginDeviceSim, SInv
  <2> HIDE DEF live
  <2>4. [n \in Name |-> [live[n] EXCEPT !.mode = j.mode]] \in Rows
    BY <2>1, <2>2 DEF Rows, Row
  <2>5. rows' \in [Editor -> Rows]
    BY <2>3, <2>4 DEF SInv
  <2> QED BY <1>4, <2>1, <2>5 DEF BeginDeviceSim, SInv, Steps
<1>5. CASE BeginSignalSim(e, j)
  <2>1. j.dev \in Device /\ up
    BY <1>5, HotReloadAssumption DEF BeginSignalSim
  <2> QED BY <1>5, <2>1 DEF BeginSignalSim, SInv, Steps
<1>6. CASE BeginBulkSim(e, j)
  BY <1>6 DEF BeginBulkSim, SInv, Steps
<1>7. CASE BeginSettings(e, j)
  <2>1. Merge(simDefaults, j.patch) \in Settings
    BY <1>7, HotReloadAssumption, MergeType DEF BeginSettings, SInv
  <2> QED BY <1>7, <2>1 DEF BeginSettings, SInv, Steps
<1> QED BY <1>1, <1>3, <1>4, <1>5, <1>6, <1>7 DEF Begin

LEMMA PcStep == ASSUME SInv, NEW e \in Editor, Step(e) PROVE pc' \in [Editor -> Steps]
<1> USE DEF Go, Goes, Steps
<1>1. pc \in [Editor -> Steps]
  BY DEF SInv, StateOK
<1>2. ASSUME NEW s \in Steps, pc' = [pc EXCEPT ![e] = s] PROVE pc' \in [Editor -> Steps]
  BY <1>1, <1>2
<1>3. \E s \in Steps : pc' = [pc EXCEPT ![e] = s]
  <2>1. ASSUME NEW j \in Jobs[e], Begin(e, j) PROVE \E s \in Steps : pc' = [pc EXCEPT ![e] = s]
    BY <2>1 DEF Begin, BeginReload, BeginUpdate, BeginDeviceSim, BeginSignalSim,
                BeginBulkSim, BeginSettings
  <2>2. CASE Accept(e) \/ Reject(e) \/ SwapFails(e) \/ Truncate(e) \/ WriteCsv(e) \/ Build(e)
    BY <2>2 DEF Accept, Reject, SwapFails, Truncate, WriteCsv, Build
  <2>3. CASE SwapServer(e) \/ SetRegmap(e) \/ SetSignals(e) \/ ApplySim(e)
    BY <2>3 DEF SwapServer, SetRegmap, SetSignals, ApplySim
  <2>4. CASE Iterate(e) \/ ApplyMatch(e)
    <3>1. pc' = pc /\ pc[e] \in Steps
      BY <1>1, <2>4 DEF Iterate, ApplyMatch
    <3> QED BY <1>1, <3>1
  <2>5. CASE Matched(e)
    <3>1. \/ pc' = [pc EXCEPT ![e] = "resolve"] \/ pc' = [pc EXCEPT ![e] = "reply"]
      BY <2>5 DEF Matched
    <3> QED BY <3>1
  <2>6. CASE BuildProfiles(e) \/ SwapProfiles(e) \/ Dump(e)
    BY <2>6 DEF BuildProfiles, SwapProfiles, Dump
  <2>7. CASE Assign(e) \/ Erase(e) \/ Save(e) \/ Visit(e) \/ Reply(e)
    BY <2>7 DEF Assign, Erase, Save, Visit, Reply, Forget
  <2> QED BY <2>1, <2>2, <2>3, <2>4, <2>5, <2>6, <2>7 DEF Step
<1> QED BY <1>2, <1>3

LEMMA TypeStep == ASSUME SInv, NEW e \in Editor, Step(e) PROVE StateOK'
<1> USE DEF Go, Goes, Put, engine, disk
<1>1. StateOK
  BY DEF SInv
<1>pc. pc' \in [Editor -> Steps]
  BY <1>1, PcStep
<1> USE DEF StateOK
<1>2. CASE Accept(e) \/ Reject(e) \/ SwapFails(e) \/ Erase(e) \/ Assign(e) \/ Truncate(e)
  <2>1. CASE Accept(e) \/ Reject(e) \/ SwapFails(e)
    BY <1>1, <1>pc, <2>1 DEF Accept, Reject, SwapFails
  <2>2. CASE Erase(e)
    BY <1>1, <1>pc, <2>2 DEF Erase
  <2>3. CASE Assign(e)
    BY <1>1, <1>pc, <2>3 DEF Assign
  <2>4. CASE Truncate(e)
    BY <1>1, <1>pc, <2>4 DEF Truncate
  <2> QED BY <1>2, <2>1, <2>2, <2>3, <2>4
<1>2a. CASE Iterate(e)
  <2>1. PICK d : /\ refs' = [refs EXCEPT ![e][d] = regmaps[d]]
                 /\ UNCHANGED <<engine, disk, pc, job, rows, queue, todo, built, chosen>>
    BY <1>2a DEF Iterate
  <2>2. refs' \in [Editor -> [Device -> MapId \cup {NoMap}]]
    BY <1>1, <2>1
  <2> QED BY <1>1, <1>pc, <2>1, <2>2
<1>3. CASE WriteCsv(e)
  <2>1. queue[e] # <<>>
    BY <1>3, AtDevice DEF WriteCsv
  <2>2. Tail(queue[e]) \in Seq(Device)
    BY <1>1, <2>1
  <2>3. queue' \in [Editor -> Seq(Device)]
    BY <1>1, <1>3, <2>2 DEF WriteCsv
  <2>4. csv' \in [Device -> Rows \cup {Torn}]
    BY <1>1, <1>3 DEF WriteCsv
  <2>5. UNCHANGED <<engine, simFile, job, rows, todo, refs, built, chosen>>
    BY <1>3 DEF WriteCsv
  <2> QED BY <1>1, <1>pc, <2>3, <2>4, <2>5
<1>4. CASE Build(e)
  <2>1. NewMap(rows[e], simDefaults) \in Maps
    BY <1>1, NewMapType
  <2>2. PICK m \in MapId : /\ maps' = [maps EXCEPT ![m] = NewMap(rows[e], simDefaults)]
                           /\ refs' = [refs EXCEPT ![e][Dev(e)] = m]
    BY <1>4 DEF Build
  <2>3. maps' \in [MapId -> Maps] /\ refs' \in [Editor -> [Device -> MapId \cup {NoMap}]]
    BY <1>1, <2>1, <2>2
  <2>4. UNCHANGED <<up, regmaps, server, signals, simDefaults, disk,
                    job, rows, queue, todo, built, chosen>>
    BY <1>4 DEF Build
  <2> QED BY <1>1, <1>pc, <2>3, <2>4
<1>5. CASE SwapServer(e) \/ SetRegmap(e) \/ SetSignals(e)
  <2>1. Mine(e) \in MapId
    BY <1>5, AtDevice DEF SwapServer, SetRegmap, SetSignals
  <2> QED BY <1>1, <1>pc, <1>5, <2>1 DEF SwapServer, SetRegmap, SetSignals
<1>6. ASSUME pc[e] \in {"apply", "match"}
      PROVE  "mode" \in DOMAIN job[e].patch => job[e].patch["mode"] \in Modes \cup {"bad"}
  <2>1. job[e] \in Jobs[e] /\ job[e].kind \in {"signal", "bulk"}
    BY <1>6, AtDevice DEF SInv, IInv, Threads, Kinds, Busy
  <2> QED BY <2>1, HotReloadAssumption
<1>7. CASE ApplySim(e)
  <2>1. Mine(e) \in MapId
    BY <1>7, AtDevice DEF ApplySim
  <2>2. maps' \in [MapId -> Maps]
    <3>1. maps' = [maps EXCEPT ![Mine(e)].rows[job[e].name] = ApplyFields(@, job[e].patch)]
      BY <1>7 DEF ApplySim
    <3>2. "mode" \in DOMAIN job[e].patch => job[e].patch["mode"] \in Modes \cup {"bad"}
      BY <1>6, <1>7 DEF ApplySim
    <3>3. [maps EXCEPT ![Mine(e)].rows[job[e].name] = ApplyFields(@, job[e].patch)]
            \in [MapId -> Maps]
      BY <1>1, <2>1, <3>2, EditType
    <3> QED BY <3>1, <3>3
  <2> QED BY <1>1, <1>pc, <1>7, <2>2 DEF ApplySim
<1>8. CASE ApplyMatch(e)
  <2>1. PICK p \in todo[e] :
          /\ refs[e][Devices[p[1]]] # NoMap
          /\ maps' = [maps EXCEPT ![refs[e][Devices[p[1]]]].rows[Names[p[2]]] =
                        ApplyFields(@, job[e].patch)]
          /\ todo' = [todo EXCEPT ![e] = todo[e] \ {p}]
    BY <1>8 DEF ApplyMatch
  <2>2. Devices[p[1]] \in Device
    BY <1>1, <2>1 DEF Places, Device
  <2>3. refs[e][Devices[p[1]]] \in MapId
    BY <1>1, <2>1, <2>2
  <2> DEFINE k == refs[e][Devices[p[1]]]
             n == Names[p[2]]
  <2>4. maps' \in [MapId -> Maps]
    <3>1. "mode" \in DOMAIN job[e].patch => job[e].patch["mode"] \in Modes \cup {"bad"}
      BY <1>6, <1>8 DEF ApplyMatch
    <3>2. maps' = [maps EXCEPT ![k].rows[n] = ApplyFields(@, job[e].patch)] /\ k \in MapId
      BY <2>1, <2>3
    <3> HIDE DEF k, n
    <3>3. [maps EXCEPT ![k].rows[n] = ApplyFields(@, job[e].patch)] \in [MapId -> Maps]
      BY <1>1, <3>1, <3>2, EditType
    <3> QED BY <3>2, <3>3
  <2>5. \A x \in Editor : todo'[x] \subseteq Places
    BY <1>1, <2>1, <1>8 DEF ApplyMatch
  <2> QED BY <1>1, <1>pc, <1>8, <2>4, <2>5 DEF ApplyMatch
<1>9. CASE Matched(e)
  <2> DEFINE affected == {d \in Device : refs[e][d] # NoMap}
  <2>1. PICK q \in InOrder(affected) : queue' = [queue EXCEPT ![e] = q]
    BY <1>9 DEF Matched
  <2>2. q \in Seq(Device)
    <3>1. CASE affected # {}
      BY <3>1, OrderedElements
    <3>2. CASE affected = {}
      <4>1. q \in [1 .. 0 -> {}]
        BY <2>1, <3>2, FS_EmptySet DEF InOrder
      <4> QED BY <4>1
    <3> QED BY <3>1, <3>2
  <2> HIDE DEF affected
  <2>3. pc'[e] \in {"resolve", "reply"} /\ pc' = [pc EXCEPT ![e] = pc'[e]]
    BY <1>1, <1>9 DEF Matched
  <2> QED BY <1>1, <1>pc, <1>9, <2>1, <2>2, <2>3 DEF Matched
<1>10. CASE BuildProfiles(e)
  <2>1. maps[Mine(e)] \in Maps
    BY <1>1, <1>10, AtDevice DEF BuildProfiles
  <2>2. ResolveAll(maps[Mine(e)].rows, maps[Mine(e)].defaults) \in Profiles
    BY <2>1, ResolveType DEF Maps
  <2> QED BY <1>1, <1>pc, <1>10, <2>2 DEF BuildProfiles
<1>11. CASE SwapProfiles(e)
  <2>1. Mine(e) \in MapId /\ queue[e] # <<>>
    BY <1>11, AtDevice DEF SwapProfiles
  <2>2. maps' \in [MapId -> Maps]
    BY <1>1, <1>11, <2>1, SetMaps DEF SwapProfiles
  <2>3. Tail(queue[e]) \in Seq(Device)
    BY <1>1, <2>1
  <2>4. queue' \in [Editor -> Seq(Device)]
    BY <1>1, <1>11, <2>3 DEF SwapProfiles
  <2>5. UNCHANGED <<up, regmaps, server, signals, simDefaults, disk,
                    job, rows, todo, refs, built, chosen>>
    BY <1>11 DEF SwapProfiles
  <2> QED BY <1>1, <1>pc, <2>2, <2>4, <2>5
<1>12. CASE Dump(e)
  <2>1. maps[Mine(e)].rows \in Rows
    BY <1>1, <1>12, AtDevice DEF Dump, Maps
  <2> QED BY <1>1, <1>pc, <1>12, <2>1 DEF Dump
<1>13. CASE Save(e)
  <2>1. Devices \in Seq(Device)
    BY HotReloadAssumption
  <2> QED BY <1>1, <1>pc, <1>13, <2>1 DEF Save
<1>14. CASE Visit(e)
  <2>1. Dev(e) \in Device /\ regmaps[Dev(e)] \in MapId
    BY <1>14, AtDevice DEF Visit, Busy
  <2>2. maps' \in [MapId -> Maps]
    BY <1>1, <1>14, <2>1, SetMaps DEF Visit
  <2> QED BY <1>1, <1>pc, <1>14, <2>1, <2>2 DEF Visit, NoRefs
<1>15. CASE Reply(e)
  <2>1. maps' \in [MapId -> Maps]
    BY <1>1, <1>15, BlankType DEF Reply
  <2>2. NoRefs \in [Device -> MapId \cup {NoMap}]
    BY DEF NoRefs
  <2> QED BY <1>1, <1>pc, <1>15, <2>1, <2>2, NoRowsType, BlankType, DefaultsType DEF Reply, Forget
<1> QED BY <1>2, <1>2a, <1>3, <1>4, <1>5, <1>7, <1>8, <1>9, <1>10, <1>11, <1>12, <1>13, <1>14, <1>15,
           TypeBegin DEF Step

\* A step makes a device hold a map it held before, or a map nobody held.
LEMMA HoldsStep ==
  ASSUME SInv, NEW e \in Editor, Step(e), NEW d \in Device, NEW m \in MapId, Holds(d, m)'
  PROVE  Holds(d, m) \/ (m \notin Live /\ d = Dev(e))
<1> USE DEF Holds
<1>1. /\ regmaps \in [Device -> MapId \cup {NoMap}]
      /\ server \in [Device -> MapId \cup {NoMap}]
      /\ signals \in [Device -> MapId \cup {NoMap}]
      /\ refs \in [Editor -> [Device -> MapId \cup {NoMap}]]
      /\ m # NoMap
  BY HotReloadAssumption DEF SInv, StateOK
<1>2. CASE UNCHANGED <<regmaps, server, signals, refs>>
  BY <1>2
<1>3. CASE UNCHANGED <<regmaps, server, signals>>
  <2> SUFFICES ASSUME NEW x \in Editor, refs'[x][d] = m, refs[x][d] # m
               PROVE  regmaps[d] = m \/ (m \notin Live /\ d = Dev(e))
    BY <1>3
  <2>1. x = e
    BY StepOthers DEF OthersKeep
  <2>2. refs' # refs
    OBVIOUS
  <2>3. ASSUME NEW j \in Jobs[e], BeginSignalSim(e, j) PROVE regmaps[d] = m
    BY <1>1, <2>1, <2>3 DEF BeginSignalSim
  <2>4. CASE Iterate(e)
    <3>1. PICK y : refs' = [refs EXCEPT ![e][y] = regmaps[y]]
      BY <2>4 DEF Iterate
    <3> QED BY <1>1, <2>1, <3>1
  <2>5. CASE Visit(e)
    <3>1. refs'[e] = [NoRefs EXCEPT ![Dev(e)] = regmaps[Dev(e)]]
      BY <1>1, <2>5 DEF Visit, Put
    <3> QED BY <1>1, <2>1, <3>1 DEF NoRefs
  <2>6. CASE Build(e)
    <3>1. PICK k \in MapId \ Live : refs' = [refs EXCEPT ![e][Dev(e)] = k]
      BY <2>6 DEF Build
    <3> QED BY <1>1, <2>1, <3>1
  <2>7. CASE Reply(e)
    <3>1. refs'[e] = NoRefs
      BY <1>1, <2>7 DEF Reply, Forget, Put
    <3> QED BY <1>1, <2>1, <3>1 DEF NoRefs
  <2> QED BY <2>2, <2>3, <2>4, <2>5, <2>6, <2>7
       DEF Step, Begin, BeginReload, BeginUpdate, BeginDeviceSim, BeginBulkSim, BeginSettings,
           Accept, Reject, SwapFails, Truncate, WriteCsv, SwapServer, SetRegmap, SetSignals, ApplySim,
           ApplyMatch, Matched, BuildProfiles, SwapProfiles, Dump, Assign, Erase, Save, Goes
<1>4. CASE SwapServer(e)
  BY <1>1, <1>4 DEF SwapServer, Goes, Mine
<1>5. CASE SetRegmap(e)
  BY <1>1, <1>5 DEF SetRegmap, Goes, Mine
<1>6. CASE SetSignals(e)
  BY <1>1, <1>6 DEF SetSignals, Goes, Mine
<1>7. UNCHANGED <<regmaps, server, signals>> \/ SwapServer(e) \/ SetRegmap(e) \/ SetSignals(e)
  BY DEF Step, Begin, BeginReload, BeginUpdate, BeginDeviceSim, BeginSignalSim, BeginBulkSim,
         BeginSettings, Accept, Reject, SwapFails, Truncate, WriteCsv, Build, ApplySim, Iterate,
         ApplyMatch, Matched, BuildProfiles, SwapProfiles, Dump, Assign, Erase, Save, Visit,
         Reply, engine
<1> QED BY <1>3, <1>4, <1>5, <1>6, <1>7

LEMMA SeparateStep == ASSUME SInv, NEW e \in Editor, Step(e) PROVE Separate'
<1> SUFFICES ASSUME NEW m \in MapId, NEW d \in Device, NEW x \in Device,
                    Holds(d, m)', Holds(x, m)'
             PROVE  d = x
  BY DEF Separate
<1>1. CASE Holds(d, m) /\ Holds(x, m)
  BY <1>1 DEF SInv, Separate
<1>2. ASSUME NEW y \in Device, Holds(y, m) PROVE m \in Live
  BY <1>2 DEF Holds, Live
<1> QED BY <1>1, <1>2, HoldsStep

LEMMA PlacedOthers ==
  ASSUME SInv, NEW e \in Editor, OthersKeep(e), Placed(e)' PROVE \A x \in Editor : Placed(x)'
<1>1. ASSUME NEW x \in Editor, x # e PROVE Placed(x)'
  <2>1. Placed(x)
    BY DEF SInv
  <2> QED BY <1>1, <2>1 DEF Placed, OthersKeep, Mine, Dev
<1> QED BY <1>1

LEMMA TailLeft ==
  ASSUME NEW q \in Seq(Device), q # <<>>
  PROVE  /\ Tail(q) \in Seq(Device) /\ (Len(q) > 1 => Tail(q) # <<>>)
         /\ \A i \in DOMAIN Tail(q) : i + 1 \in DOMAIN q /\ Tail(q)[i] = q[i + 1]
<1>1. Tail(q) \in Seq(Device) /\ Len(Tail(q)) = Len(q) - 1 /\ Len(q) \in Nat
  OBVIOUS
<1>2. Len(q) > 1 => Tail(q) # <<>>
  <2>1. Len(<<>>) = 0
    OBVIOUS
  <2>2. Tail(q) = <<>> => Len(q) - 1 = 0
    BY <1>1, <2>1, Zenon
  <2> QED BY <1>1, <2>2
<1>3. ASSUME NEW i \in DOMAIN Tail(q) PROVE i + 1 \in DOMAIN q /\ Tail(q)[i] = q[i + 1]
  OBVIOUS
<1> QED BY <1>1, <1>2, <1>3

LEMMA SingleLen == ASSUME NEW q, NEW x, q = <<x>> PROVE ~(Len(q) > 1)
<1>1. Len(<<x>>) = 1
  OBVIOUS
<1>2. ~(Len(<<x>>) > 1)
  BY <1>1
<1> QED BY <1>2, Zenon

LEMMA PlacedStep == ASSUME SInv, NEW e \in Editor, Step(e) PROVE Placed(e)'
<1> USE DEF Go, Goes, Put
<1>1. /\ pc \in [Editor -> Steps] /\ DOMAIN job = Editor /\ queue \in [Editor -> Seq(Device)]
      /\ refs \in [Editor -> [Device -> MapId \cup {NoMap}]]
      /\ Placed(e) /\ Kinds(e) /\ Turn(e)
  BY DEF SInv, StateOK, IInv, Threads
<1>2. ASSUME NEW j \in Jobs[e], Begin(e, j) PROVE Placed(e)'
  <2>1. /\ pc[e] = "idle" /\ job'[e] = j /\ up
        /\ pc'[e] \in {"check", "apply", "match", "assign"}
        /\ pc'[e] \in {"check", "apply"} => queue'[e] = <<j.dev>>
        /\ pc'[e] \in {"match", "assign"} => j.kind \notin ForOne
        /\ pc'[e] = "match" => j.kind = "bulk"
        /\ pc'[e] = "apply" => j.kind = "signal"
    BY <1>1, <1>2 DEF Begin, BeginReload, BeginUpdate, BeginDeviceSim, BeginSignalSim,
                      BeginBulkSim, BeginSettings, Ready, ForOne, Reloads
  <2>2. \A d \in Device : refs'[e][d] # NoMap => j.kind = "signal" /\ d = j.dev
    <3>1. \A d \in Device : refs[e][d] = NoMap
      BY <1>1, <2>1 DEF Placed
    <3>2. CASE BeginSignalSim(e, j)
      BY <1>1, <3>1, <3>2 DEF BeginSignalSim, Ready
    <3>3. CASE ~BeginSignalSim(e, j)
      BY <1>2, <3>1, <3>3 DEF Begin, BeginReload, BeginUpdate, BeginDeviceSim,
                              BeginBulkSim, BeginSettings
    <3> QED BY <3>2, <3>3
  <2>3. \A d \in Device : refs'[e][d] # NoMap => d \in Edits(j)
    BY <2>2 DEF Edits
  <2> QED BY <2>1, <2>3 DEF Placed
<1>3. ASSUME pc[e] # "idle", job' = job, refs'[e] = refs[e], queue'[e] = queue[e],
             pc'[e] # "idle",
             pc'[e] \in {"visit", "resolve", "install"} =>
               \/ pc[e] \in {"visit", "resolve", "install"}
               \/ queue[e] # <<>>,
             pc'[e] \in {"resolve", "install"} => Mine(e) \in MapId,
             pc[e] # "reply", pc'[e] \notin {"match", "apply"}
      PROVE  Placed(e)'
  BY <1>1, <1>3 DEF Placed, Mine, Dev
<1>4. CASE Accept(e) \/ Reject(e) \/ SwapFails(e) \/ Truncate(e) \/ Assign(e) \/ Erase(e)
  BY <1>1, <1>3, <1>4 DEF Accept, Reject, SwapFails, Truncate, Assign, Erase
<1>5. CASE SwapServer(e) \/ SetRegmap(e) \/ SetSignals(e) \/ BuildProfiles(e) \/ Dump(e)
  BY <1>1, <1>3, <1>5, AtDevice DEF SwapServer, SetRegmap, SetSignals, BuildProfiles, Dump
<1>6. CASE ApplySim(e)
  <2>1. pc[e] = "apply" /\ pc'[e] \in {"resolve", "reply"} /\ job' = job /\ refs' = refs
        /\ queue' = queue
    BY <1>1, <1>6 DEF ApplySim
  <2> QED BY <1>3, <2>1, AtDevice
<1>7. CASE WriteCsv(e)
  <2>1. pc[e] = "write" /\ job' = job /\ refs' = refs
    BY <1>7 DEF WriteCsv
  <2>2. CASE job[e].kind \in Reloads
    BY <1>1, <1>3, <1>7, <2>1, <2>2 DEF WriteCsv
  <2>3. CASE job[e].kind \notin Reloads
    <3>1. /\ job[e].kind \in {"signal", "bulk"}
          /\ queue[e] \in Seq(Device) /\ queue[e] # <<>>
          /\ \A i \in DOMAIN queue[e] : refs[e][queue[e][i]] \in MapId
      BY <1>1, <2>1, <2>3 DEF Kinds, Turn
    <3>2. queue'[e] = Tail(queue[e])
          /\ pc'[e] = IF Len(queue[e]) > 1 THEN "resolve" ELSE "reply"
      BY <1>1, <1>7, <2>3 DEF WriteCsv
    <3>3. job[e].kind = "signal" => pc'[e] = "reply"
      <4>1. ASSUME job[e].kind = "signal" PROVE queue[e] = <<job[e].dev>>
        BY <1>1, <2>1, <4>1 DEF Placed, ForOne
      <4> QED BY <3>2, <4>1, SingleLen
    <3>4. ASSUME Len(queue[e]) > 1 PROVE refs[e][Head(Tail(queue[e]))] \in MapId
      <4>1. Head(Tail(queue[e])) = queue[e][2] /\ 2 \in DOMAIN queue[e]
        BY <1>1, <3>4
      <4> QED BY <3>1, <4>1
    <3> QED BY <1>1, <2>1, <3>1, <3>2, <3>3, <3>4 DEF Placed, Mine, Dev, ForOne, Reloads
  <2> QED BY <2>2, <2>3
<1>8. CASE Build(e)
  <2>1. PICK k \in MapId : refs' = [refs EXCEPT ![e][Dev(e)] = k]
    BY <1>8 DEF Build
  <2>2. /\ pc[e] = "build" /\ pc'[e] = "swap" /\ job' = job /\ queue' = queue
        /\ job[e].kind \in Reloads
    BY <1>1, <1>8 DEF Build, Kinds
  <2>3. Dev(e) = job[e].dev
    BY <1>1, <2>2 DEF Placed, ForOne, Dev
  <2>4. \A d \in Device : refs'[e][d] # NoMap => refs[e][d] # NoMap \/ d = job[e].dev
    BY <1>1, <2>1, <2>3
  <2> QED BY <1>1, <2>2, <2>4 DEF Placed, Edits, Reloads
<1>9. CASE Iterate(e)
  <2>1. PICK y : refs' = [refs EXCEPT ![e][y] = regmaps[y]]
    BY <1>9 DEF Iterate
  <2>2. /\ pc[e] = "match" /\ pc' = pc /\ job' = job /\ queue' = queue
        /\ job[e].kind = "bulk"
    BY <1>1, <1>9 DEF Iterate, Placed
  <2> QED BY <1>1, <2>2 DEF Placed, Edits, ForOne, Reloads
<1>10. CASE ApplyMatch(e)
  BY <1>1, <1>10 DEF ApplyMatch, Placed, Mine, Dev
<1>11. CASE Matched(e)
  <2> DEFINE affected == {d \in Device : refs[e][d] # NoMap}
  <2>1. PICK q \in InOrder(affected) : queue' = [queue EXCEPT ![e] = q]
    BY <1>11 DEF Matched
  <2>2. /\ pc[e] = "match" /\ pc'[e] = (IF affected # {} THEN "resolve" ELSE "reply")
        /\ job' = job /\ refs' = refs /\ queue'[e] = q
    BY <1>1, <1>11, <2>1 DEF Matched
  <2>3. ASSUME affected # {} PROVE q # <<>> /\ refs[e][Head(q)] \in MapId
    <3>1. q \in Seq(Device) /\ q # <<>> /\ \A i \in DOMAIN q : q[i] \in affected
      BY <2>3, OrderedElements
    <3>2. Head(q) \in affected
      BY <3>1
    <3> QED BY <1>1, <3>1, <3>2
  <2> HIDE DEF affected
  <2>4. pc'[e] = "resolve" => queue'[e] # <<>> /\ Mine(e)' \in MapId
    BY <2>2, <2>3 DEF Mine, Dev
  <2>5. job[e].kind = "bulk" /\ pc'[e] \in {"resolve", "reply"}
    BY <1>1, <2>2 DEF Placed
  <2> QED BY <1>1, <2>2, <2>4, <2>5 DEF Placed, Edits, ForOne, Reloads
<1>12. CASE SwapProfiles(e)
  <2>1. pc[e] = "install" /\ job' = job /\ refs' = refs
    BY <1>12 DEF SwapProfiles
  <2>2. CASE job[e].kind # "settings"
    BY <1>1, <1>3, <1>12, <2>1, <2>2 DEF SwapProfiles
  <2>3. CASE job[e].kind = "settings"
    <3>1. queue[e] \in Seq(Device) /\ queue'[e] = Tail(queue[e])
          /\ pc'[e] = (IF Len(queue[e]) > 1 THEN "visit" ELSE "reply")
      BY <1>1, <1>12, <2>3 DEF SwapProfiles
    <3>2. Len(queue[e]) > 1 => Tail(queue[e]) # <<>>
      <4>1. queue[e] # <<>>
        BY <2>1, AtDevice
      <4> QED BY <3>1, <4>1, TailLeft
    <3> QED BY <1>1, <2>1, <2>3, <3>1, <3>2 DEF Placed, ForOne, Reloads
  <2> QED BY <2>2, <2>3
<1>13. CASE Save(e)
  <2>1. Devices # <<>>
    <3>1. Len(Devices) \in 1 .. MaxMaps
      BY HotReloadAssumption
    <3> QED BY <3>1
  <2>2. /\ pc[e] = "save" /\ pc'[e] = "visit" /\ job' = job /\ refs' = refs
        /\ queue'[e] = Devices /\ job[e].kind = "settings"
    BY <1>1, <1>13 DEF Save, Kinds
  <2> QED BY <1>1, <2>1, <2>2 DEF Placed, ForOne, Reloads
<1>14. CASE Visit(e)
  <2>1. /\ pc[e] = "visit" /\ pc'[e] = "resolve" /\ job' = job /\ queue' = queue
        /\ job[e].kind = "settings"
    BY <1>1, <1>14 DEF Visit, Kinds
  <2>2. Dev(e) \in Device /\ regmaps[Dev(e)] \in MapId
    BY <2>1, AtDevice DEF Busy
  <2>3. refs'[e] = [NoRefs EXCEPT ![Dev(e)] = regmaps[Dev(e)]]
    BY <1>1, <1>14 DEF Visit
  <2>4. refs'[e][Dev(e)] \in MapId
    BY <2>2, <2>3 DEF NoRefs
  <2> QED BY <1>1, <2>1, <2>4 DEF Placed, ForOne, Reloads, Mine, Dev
<1>15. CASE Reply(e)
  <2>1. pc'[e] = "idle" /\ refs'[e] = NoRefs
    BY <1>1, <1>15 DEF Reply, Forget
  <2> QED BY <2>1 DEF Placed, NoRefs
<1> QED BY <1>2, <1>4, <1>5, <1>6, <1>7, <1>8, <1>9, <1>10, <1>11, <1>12, <1>13, <1>14, <1>15
     DEF Step

LEMMA SInvInit == Init => SInv
<1> SUFFICES ASSUME Init PROVE SInv
  OBVIOUS
<1>1. IInv
  BY InitInv
<1>2. \A d \in Device : MapOf(d) \in DOMAIN Devices /\ Devices[MapOf(d)] = d /\ MapOf(d) \in MapId
  BY DevicesFit DEF MapOf, Device
<1>3. csv \in [Device -> Rows] /\ simFile \in Settings
  BY HotReloadAssumption DEF Init
<1>4. maps \in [MapId -> Maps]
  <2>1. \A m \in DOMAIN Devices : NewMap(csv[Devices[m]], simFile) \in Maps
    BY <1>3, DevicesFit, NewMapType
  <2> QED BY <2>1, BlankType DEF Init
<1>5. regmaps \in [Device -> MapId] /\ server = regmaps /\ signals = regmaps
  BY <1>2 DEF Init
<1>6. NoRefs \in [Device -> MapId \cup {NoMap}]
  BY DEF NoRefs
<1>7. StateOK
  BY <1>3, <1>4, <1>5, <1>6, NoRowsType, BlankType, DefaultsType DEF Init, StateOK, Steps
<1>8. Separate
  <2>1. \A d \in Device, m \in MapId : Holds(d, m) => Devices[m] = d
    BY <1>2, HotReloadAssumption DEF Init, Holds, NoRefs
  <2> QED BY <2>1 DEF Separate
<1>9. \A e \in Editor : Placed(e)
  BY DEF Init, Placed, NoRefs
<1> QED BY <1>1, <1>7, <1>8, <1>9 DEF SInv

LEMMA SInvCrash == ASSUME SInv, Crash PROVE SInv'
<1>1. IInv'
  BY CrashStep DEF SInv
<1>2. NoRefs \in [Device -> MapId \cup {NoMap}]
  BY DEF NoRefs
<1>3. StateOK'
  <2>1. /\ up' \in BOOLEAN /\ maps' \in [MapId -> Maps] /\ simDefaults' \in Settings
        /\ regmaps' \in [Device -> MapId \cup {NoMap}]
        /\ server' \in [Device -> MapId \cup {NoMap}]
        /\ signals' \in [Device -> MapId \cup {NoMap}]
    BY BlankType, DefaultsType DEF Crash
  <2>2. csv' \in [Device -> Rows \cup {Torn}] /\ simFile' \in Settings \cup {Torn}
    BY DEF Crash, disk, SInv, StateOK
  <2>3. pc' \in [Editor -> Steps]
    BY DEF Crash, Steps
  <2>4. DOMAIN job' = Editor /\ \A e \in Editor : job'[e] \in Jobs[e] \cup {NoJob}
    BY DEF Crash
  <2>5. queue' \in [Editor -> Seq(Device)]
    <3>1. <<>> \in Seq(Device)
      OBVIOUS
    <3> QED BY <3>1 DEF Crash
  <2>6. /\ rows' \in [Editor -> Rows] /\ todo' \in [Editor -> SUBSET Places]
        /\ refs' \in [Editor -> [Device -> MapId \cup {NoMap}]]
    BY <1>2, NoRowsType DEF Crash
  <2>7. built' \in [Editor -> Profiles] /\ chosen' \in [Editor -> Settings]
    BY BlankType, DefaultsType DEF Crash
  <2> QED BY <2>1, <2>2, <2>3, <2>4, <2>5, <2>6, <2>7 DEF StateOK
<1>4. Separate'
  BY HotReloadAssumption DEF Crash, Separate, Holds, NoRefs
<1>5. \A e \in Editor : Placed(e)'
  BY DEF Crash, Placed, NoRefs
<1> QED BY <1>1, <1>3, <1>4, <1>5 DEF SInv

LEMMA SInvRestore == ASSUME SInv, Restore PROVE SInv'
<1>1. IInv'
  BY RestoreStep DEF SInv
<1>2. \A d \in Device : MapOf(d) \in DOMAIN Devices /\ Devices[MapOf(d)] = d /\ MapOf(d) \in MapId
  BY DevicesFit DEF MapOf, Device
<1>3. csv \in [Device -> Rows] /\ LoadDefaults(simFile) \in Settings
  BY DefaultsType DEF Restore, Usable, SInv, StateOK, LoadDefaults
<1>4. maps' \in [MapId -> Maps]
  <2>1. \A m \in DOMAIN Devices : NewMap(csv[Devices[m]], LoadDefaults(simFile)) \in Maps
    BY <1>3, DevicesFit, NewMapType
  <2> QED BY <2>1, BlankType DEF Restore, Loaded
<1>5. regmaps' \in [Device -> MapId] /\ server' = regmaps' /\ signals' = regmaps'
      /\ regmaps' = [d \in Device |-> MapOf(d)]
  BY <1>2 DEF Restore, Loaded
<1>6. UNCHANGED <<csv, simFile, pc, job, rows, queue, todo, refs, built, chosen>>
      /\ simDefaults' = LoadDefaults(simFile) /\ up' = TRUE
  BY DEF Restore, Loaded, disk, locals
<1>7. StateOK'
  <2>1. /\ regmaps' \in [Device -> MapId \cup {NoMap}]
        /\ server' \in [Device -> MapId \cup {NoMap}]
        /\ signals' \in [Device -> MapId \cup {NoMap}]
    BY <1>5
  <2>2. StateOK
    BY DEF SInv
  <2>3. up' \in BOOLEAN /\ simDefaults' \in Settings /\ csv' \in [Device -> Rows \cup {Torn}]
    BY <1>3, <1>6
  <2>4. /\ simFile' \in Settings \cup {Torn} /\ pc' \in [Editor -> Steps]
        /\ DOMAIN job' = Editor /\ \A e \in Editor : job'[e] \in Jobs[e] \cup {NoJob}
        /\ rows' \in [Editor -> Rows] /\ queue' \in [Editor -> Seq(Device)]
        /\ todo' \in [Editor -> SUBSET Places]
        /\ refs' \in [Editor -> [Device -> MapId \cup {NoMap}]]
        /\ built' \in [Editor -> Profiles] /\ chosen' \in [Editor -> Settings]
    BY <1>6, <2>2 DEF StateOK
  <2> QED BY <1>4, <2>1, <2>3, <2>4 DEF StateOK
<1>8. Separate'
  <2>1. \A e \in Editor, d \in Device : refs[e][d] = NoMap
    BY DEF SInv, IInv, Running, Restore
  <2>2. \A d \in Device, m \in MapId : Holds(d, m)' => Devices[m] = d
    BY <1>2, <1>5, <1>6, <2>1, HotReloadAssumption DEF Holds
  <2> QED BY <2>2 DEF Separate
<1>9. \A e \in Editor : Placed(e)'
  BY <1>6 DEF SInv, Placed, Mine, Dev
<1> QED BY <1>1, <1>7, <1>8, <1>9 DEF SInv

LEMMA SInvReupload == ASSUME SInv, NEW d \in Device, Reupload(d) PROVE SInv'
<1>1. IInv'
  BY ReuploadStep DEF SInv
<1>2. PICK file \in Files : csv' = [csv EXCEPT ![d] = file]
  BY DEF Reupload
<1>3. file \in Rows
  BY HotReloadAssumption
<1>4. UNCHANGED <<up, maps, regmaps, server, signals, simDefaults, simFile,
                  pc, job, rows, queue, todo, refs, built, chosen>>
  BY DEF Reupload, engine, locals
<1>5. StateOK'
  BY <1>2, <1>3, <1>4 DEF SInv, StateOK
<1>6. Separate' /\ \A e \in Editor : Placed(e)'
  BY <1>4 DEF SInv, Separate, Holds, Placed, Mine, Dev
<1> QED BY <1>1, <1>5, <1>6 DEF SInv

LEMMA SInvStep == ASSUME SInv, [Next]_vars PROVE SInv'
<1>1. ASSUME NEW e \in Editor, Step(e) PROVE SInv'
  <2>1. IInv'
    BY <1>1, IInvStep DEF Next, SInv
  <2> QED BY <1>1, <2>1, TypeStep, SeparateStep, StepOthers, PlacedStep, PlacedOthers DEF SInv
<1>2. CASE UNCHANGED vars
  <2>1. IInv'
    BY <1>2, IInvStep DEF SInv
  <2>2. StateOK'
    BY <1>2 DEF SInv, StateOK, vars
  <2>3. Separate' /\ \A e \in Editor : Placed(e)'
    BY <1>2 DEF SInv, Separate, Holds, Placed, Mine, Dev, vars
  <2> QED BY <2>1, <2>2, <2>3 DEF SInv
<1> QED BY <1>1, <1>2, SInvCrash, SInvRestore, SInvReupload DEF Next

LEMMA SInvAlways == Spec => []SInv
BY SInvInit, SInvStep, PTL DEF Spec

\* The devices a request that begins, or fails, concerns exist.
LEMMA BeginsOn ==
  ASSUME SInv, NEW e \in Editor, Step(e), pc[e] = "idle"
  PROVE  \E j \in Jobs[e] : Begin(e, j) /\ job'[e] = j /\ Edits(j) \subseteq Device
<1>1. PICK j \in Jobs[e] : Begin(e, j)
  BY DEF Step, Accept, Reject, Truncate, WriteCsv, Build, SwapServer, SwapFails, SetRegmap,
         SetSignals, ApplySim, Iterate, ApplyMatch, Matched, BuildProfiles, SwapProfiles, Dump,
         Assign, Erase, Save, Visit, Reply
<1>2. job'[e] = j
  BY <1>1 DEF Begin, BeginReload, BeginUpdate, BeginDeviceSim, BeginSignalSim, BeginBulkSim,
              BeginSettings, Put, SInv, StateOK
<1>3. j.kind \in {"reload", "update", "device", "signal", "bulk", "settings"}
  BY <1>1 DEF Begin, BeginReload, BeginUpdate, BeginDeviceSim, BeginSignalSim, BeginBulkSim,
              BeginSettings, Ready
<1>4. Edits(j) \subseteq Device
  BY <1>3, HotReloadAssumption DEF Edits
<1> QED BY <1>1, <1>2, <1>4

LEMMA FailsAt ==
  ASSUME SInv, NEW e \in Editor, Fails(e) \/ pc[e] = "write"
  PROVE  Dev(e) \in Device
BY AtDevice DEF Fails

\* For any devices, signals, threads and requests: the variables keep their types.
THEOREM TypeCorrect == Spec => []TypeOK
<1>1. Init => HistoryOK
  BY DEF Init, HistoryOK
<1>2. SInv /\ HistoryOK /\ [Next]_vars => HistoryOK'
  <2> SUFFICES ASSUME SInv, HistoryOK, [Next]_vars PROVE HistoryOK'
    OBVIOUS
  <2>1. ASSUME NEW e \in Editor, Step(e), NoteCrossed(e), NoteMixed(e), NoteParted(e)
        PROVE  HistoryOK'
    <3>1. crossed' \subseteq Device
      BY <2>1, BeginsOn DEF NoteCrossed, HistoryOK, Shared
    <3>2. parted' \subseteq Device
      BY <2>1, FailsAt DEF NoteParted, HistoryOK
    <3>3. mixed' \in BOOLEAN
      BY <2>1 DEF NoteMixed, HistoryOK
    <3> QED BY <3>1, <3>2, <3>3 DEF HistoryOK
  <2>2. CASE UNCHANGED vars
    BY <2>2 DEF vars, HistoryOK
  <2>3. CASE Crash
    BY <2>3 DEF Crash, HistoryOK
  <2>4. CASE Restore \/ \E d \in Device : Reupload(d)
    BY <2>4 DEF Restore, Reupload, history, HistoryOK
  <2> QED BY <2>1, <2>2, <2>3, <2>4 DEF Next
<1>3. SInv /\ HistoryOK => TypeOK
  BY DEF SInv, TypeOK
<1> QED BY <1>1, <1>2, <1>3, SInvAlways, PTL DEF Spec

-----------------------------------------------------------------------------
(***************************************************************************)
(* The engine, the server and the list agree.                              *)
(***************************************************************************)
\* Two threads at their swaps are at two devices.
LEMMA SwapsApart ==
  ASSUME SInv, OneReloader, NEW e \in Editor, NEW x \in Editor, x # e,
         pc[e] \in {"swap", "regmap", "signals"}, pc[x] \in {"swap", "regmap", "signals"}
  PROVE  Dev(x) # Dev(e)
<1>1. job[e] \in Jobs[e] /\ job[x] \in Jobs[x]
  BY AtDevice DEF Busy
<1>2. job[e].kind \in Reloads /\ job[x].kind \in Reloads
  BY DEF SInv, IInv, Threads, Kinds
<1>3. Dev(e) = job[e].dev /\ Dev(x) = job[x].dev
  BY <1>2 DEF SInv, Placed, ForOne, Dev
<1> QED BY <1>1, <1>2, <1>3 DEF OneReloader

\* A thread between its swaps is at the device its request names.
LEMMA SwapsAt ==
  ASSUME SInv, NEW e \in Editor, pc[e] \in {"swap", "regmap", "signals"}
  PROVE  Dev(e) = job[e].dev /\ Dev(e) \in Device /\ Mine(e) \in MapId /\ queue[e] = <<job[e].dev>>
<1>1. job[e].kind \in Reloads
  BY DEF SInv, IInv, Threads, Kinds
<1> QED BY <1>1, AtDevice DEF SInv, Placed, ForOne, Dev

LEMMA AgreeStep ==
  ASSUME SInv, OneReloader, AgreeInv, NEW e \in Editor, Step(e) PROVE AgreeInv'
<1> USE DEF Agreed, Swaps, Go, Goes
<1>1. /\ pc \in [Editor -> Steps] /\ queue \in [Editor -> Seq(Device)]
      /\ regmaps \in [Device -> MapId \cup {NoMap}]
      /\ server \in [Device -> MapId \cup {NoMap}]
      /\ signals \in [Device -> MapId \cup {NoMap}]
  BY DEF SInv, StateOK
<1>2. ASSUME NEW x \in Editor, x # e
      PROVE  /\ pc'[x] = pc[x] /\ job'[x] = job[x]
             /\ Dev(x)' = Dev(x) /\ Mine(x)' = Mine(x)
  BY <1>2, StepOthers DEF OthersKeep, Dev, Mine
<1>3. ASSUME UNCHANGED <<up, regmaps, server, signals>>, pc[e] \notin {"regmap", "signals"},
             pc'[e] \notin {"regmap", "signals"}
      PROVE  AgreeInv'
  BY <1>2, <1>3 DEF AgreeInv
<1>4. CASE SwapServer(e)
  <2>1. /\ pc[e] = "swap" /\ pc'[e] = "regmap" /\ job' = job /\ up' = up
        /\ UNCHANGED <<regmaps, signals>> /\ Dev(e)' = Dev(e) /\ Mine(e)' = Mine(e)
        /\ server' = [server EXCEPT ![Dev(e)] = Mine(e)]
    BY <1>1, <1>4 DEF SwapServer, Dev, Mine
  <2>2. Dev(e) = job[e].dev /\ Dev(e) \in Device
    BY <2>1, SwapsAt
  <2>3. ASSUME NEW d \in Device, up' PROVE Agreed(d)' \/ \E x \in Editor : Swaps(x, d)'
    <3>1. CASE d = Dev(e)
      BY <2>1, <2>2, <3>1
    <3>2. CASE d # Dev(e)
      BY <1>1, <1>2, <2>1, <2>3, <3>2 DEF AgreeInv
    <3> QED BY <3>1, <3>2
  <2>4. ASSUME NEW x \in Editor
        PROVE  /\ pc'[x] \in {"regmap", "signals"} => server'[Dev(x)'] = Mine(x)'
               /\ pc'[x] = "signals" => regmaps'[Dev(x)'] = Mine(x)'
    <3>1. CASE x = e
      BY <1>1, <2>1, <2>2, <3>1
    <3>2. CASE x # e
      <4>1. pc[x] \in {"regmap", "signals"} => Dev(x) # Dev(e) /\ Dev(x) \in Device
        BY <2>1, <3>2, SwapsApart, SwapsAt
      <4> QED BY <1>1, <1>2, <2>1, <3>2, <4>1 DEF AgreeInv
    <3> QED BY <3>1, <3>2
  <2> QED BY <2>3, <2>4 DEF AgreeInv
<1>5. CASE SetRegmap(e)
  <2>1. /\ pc[e] = "regmap" /\ pc'[e] = "signals" /\ job' = job /\ up' = up
        /\ UNCHANGED <<server, signals>> /\ Dev(e)' = Dev(e) /\ Mine(e)' = Mine(e)
        /\ regmaps' = [regmaps EXCEPT ![Dev(e)] = Mine(e)]
    BY <1>1, <1>5 DEF SetRegmap, Dev, Mine
  <2>2. Dev(e) = job[e].dev /\ Dev(e) \in Device
    BY <2>1, SwapsAt
  <2>3. ASSUME NEW d \in Device, up' PROVE Agreed(d)' \/ \E x \in Editor : Swaps(x, d)'
    <3>1. CASE d = Dev(e)
      BY <2>1, <2>2, <3>1
    <3>2. CASE d # Dev(e)
      BY <1>1, <1>2, <2>1, <2>2, <2>3, <3>2 DEF AgreeInv
    <3> QED BY <3>1, <3>2
  <2>4. ASSUME NEW x \in Editor
        PROVE  /\ pc'[x] \in {"regmap", "signals"} => server'[Dev(x)'] = Mine(x)'
               /\ pc'[x] = "signals" => regmaps'[Dev(x)'] = Mine(x)'
    <3>1. CASE x = e
      BY <1>1, <2>1, <2>2, <3>1 DEF AgreeInv
    <3>2. CASE x # e
      <4>1. pc[x] \in {"regmap", "signals"} => Dev(x) # Dev(e) /\ Dev(x) \in Device
        BY <2>1, <3>2, SwapsApart, SwapsAt
      <4> QED BY <1>1, <1>2, <2>1, <3>2, <4>1 DEF AgreeInv
    <3> QED BY <3>1, <3>2
  <2> QED BY <2>3, <2>4 DEF AgreeInv
<1>6. CASE SetSignals(e)
  <2>1. /\ pc[e] = "signals" /\ pc'[e] = "reply" /\ up' = up
        /\ UNCHANGED <<server, regmaps>>
        /\ signals' = [signals EXCEPT ![Dev(e)] = Mine(e)]
    BY <1>1, <1>6 DEF SetSignals
  <2>2. Dev(e) = job[e].dev /\ Dev(e) \in Device
    BY <2>1, SwapsAt
  <2>3. ASSUME NEW d \in Device, up' PROVE Agreed(d)' \/ \E x \in Editor : Swaps(x, d)'
    <3>1. CASE d = Dev(e)
      BY <1>1, <2>1, <2>2, <3>1 DEF AgreeInv
    <3>2. CASE d # Dev(e)
      <4>1. Agreed(d) \/ \E x \in Editor : Swaps(x, d)
        BY <2>1, <2>3 DEF AgreeInv
      <4>2. ~Swaps(e, d)
        BY <2>2, <3>2
      <4>3. Agreed(d) => Agreed(d)'
        BY <1>1, <2>1, <3>2
      <4> QED BY <1>2, <4>1, <4>2, <4>3
    <3> QED BY <3>1, <3>2
  <2> QED BY <1>2, <2>1, <2>3 DEF AgreeInv
<1>7. ASSUME NEW j \in Jobs[e], Begin(e, j) PROVE AgreeInv'
  BY <1>1, <1>3, <1>7 DEF Begin, BeginReload, BeginUpdate, BeginDeviceSim, BeginSignalSim,
                          BeginBulkSim, BeginSettings, Ready, engine
<1>8. CASE \/ Accept(e) \/ Reject(e) \/ SwapFails(e) \/ Truncate(e) \/ WriteCsv(e) \/ Build(e)
           \/ ApplySim(e)
  BY <1>1, <1>3, <1>8 DEF Accept, Reject, SwapFails, Truncate, WriteCsv, Build, ApplySim,
                          engine
<1>9. CASE Iterate(e) \/ ApplyMatch(e) \/ Matched(e) \/ BuildProfiles(e) \/ SwapProfiles(e)
  BY <1>1, <1>3, <1>9 DEF Iterate, ApplyMatch, Matched, BuildProfiles, SwapProfiles, engine
<1>10. CASE Dump(e) \/ Assign(e) \/ Erase(e) \/ Save(e) \/ Visit(e) \/ Reply(e)
  BY <1>1, <1>3, <1>10 DEF Dump, Assign, Erase, Save, Visit, Reply, Forget, engine
<1> QED BY <1>4, <1>5, <1>6, <1>7, <1>8, <1>9, <1>10 DEF Step

\* At the start and after a restore the three are one map, and no request is under way.
LEMMA AgreeOutside ==
  ASSUME SInv, AgreeInv, Crash \/ Restore \/ (\E d \in Device : Reupload(d)) \/ UNCHANGED vars
  PROVE  AgreeInv'
<1>1. CASE Crash
  BY <1>1 DEF Crash, AgreeInv
<1>2. CASE Restore
  <2>1. \A e \in Editor : pc'[e] = "idle"
    BY <1>2 DEF Restore, locals, SInv, IInv, Running
  <2> QED BY <1>2, <2>1 DEF Restore, Loaded, AgreeInv, Agreed
<1>3. CASE \E d \in Device : Reupload(d)
  BY <1>3 DEF Reupload, engine, locals, AgreeInv, Agreed, Swaps, Mine, Dev
<1>4. CASE UNCHANGED vars
  BY <1>4 DEF vars, AgreeInv, Agreed, Swaps, Mine, Dev
<1> QED BY <1>1, <1>2, <1>3, <1>4

LEMMA AgreeAlways == ASSUME OneReloader PROVE Spec => []AgreeInv
<1>1. Init => AgreeInv
  BY DEF Init, AgreeInv, Agreed
<1>2. SInv /\ AgreeInv /\ [Next]_vars => AgreeInv'
  BY AgreeStep, AgreeOutside DEF Next
<1> QED BY <1>1, <1>2, SInvAlways, PTL DEF Spec

\* As long as no two clients replace the same device's list at once, the API, the Modbus
\* server and the list start() would use are about one map between the edits of a device.
THEOREM ReloadsAgree == ASSUME OneReloader PROVE Spec => []ServersAgree
<1>1. SInv /\ AgreeInv => ServersAgree
  <2> SUFFICES ASSUME SInv, AgreeInv, up, NEW d \in Device, Quiet(d) PROVE Agreed(d)
    BY DEF ServersAgree, Agreed
  <2>1. ~ \E e \in Editor : Swaps(e, d)
    BY DEF Quiet, Swaps, Busy
  <2> QED BY <2>1 DEF AgreeInv
<1> QED BY <1>1, SInvAlways, AgreeAlways, PTL

-----------------------------------------------------------------------------
(***************************************************************************)
(* The settings on disk.                                                   *)
(***************************************************************************)
LEMMA SettersApart ==
  ASSUME SInv, OneSetter, NEW e \in Editor, NEW x \in Editor, x # e,
         pc[e] \in {"assign", "erase", "save"}, pc[x] \in {"assign", "erase", "save"}
  PROVE  FALSE
<1>1. job[e] \in Jobs[e] /\ job[x] \in Jobs[x]
  BY AtDevice DEF Busy
<1>2. job[e].kind = "settings" /\ job[x].kind = "settings"
  BY DEF SInv, IInv, Threads, Kinds
<1> QED BY <1>1, <1>2 DEF OneSetter

LEMMA SavedStep ==
  ASSUME SInv, OneSetter, SavedInv, NEW e \in Editor, Step(e) PROVE SavedInv'
<1> USE DEF Go, Goes
<1>1. pc \in [Editor -> Steps] /\ chosen \in [Editor -> Settings]
  BY DEF SInv, StateOK
<1>2. ASSUME NEW x \in Editor, x # e PROVE pc'[x] = pc[x] /\ chosen'[x] = chosen[x]
  BY <1>2, StepOthers DEF OthersKeep
<1>3. ASSUME UNCHANGED <<up, simDefaults, simFile>>, pc[e] \notin {"erase", "save"},
             pc'[e] \notin {"erase", "save"}
      PROVE  SavedInv'
  BY <1>2, <1>3 DEF SavedInv
<1>4. ASSUME pc[e] \in {"assign", "erase", "save"}, NEW x \in Editor, x # e
      PROVE  pc'[x] \notin {"erase", "save"}
  BY <1>2, <1>4, SettersApart
<1>5. CASE Assign(e)
  BY <1>1, <1>4, <1>5 DEF Assign, SavedInv
<1>6. CASE Erase(e)
  BY <1>1, <1>4, <1>6 DEF Erase, engine, SavedInv
<1>7. CASE Save(e)
  <2>1. /\ pc[e] = "save" /\ pc'[e] = "visit" /\ simFile' = chosen[e]
        /\ simDefaults' = simDefaults
    BY <1>1, <1>7 DEF Save, engine
  <2>2. simDefaults = chosen[e]
    BY <2>1 DEF SavedInv
  <2>3. LoadDefaults(chosen[e]) = chosen[e]
    BY <1>1, HotReloadAssumption DEF LoadDefaults
  <2> QED BY <1>4, <2>1, <2>2, <2>3 DEF SavedInv, LoadDefaults
<1>8. ASSUME NEW j \in Jobs[e], Begin(e, j) PROVE SavedInv'
  BY <1>1, <1>3, <1>8 DEF Begin, BeginReload, BeginUpdate, BeginDeviceSim, BeginSignalSim,
                          BeginBulkSim, BeginSettings, Ready, engine, disk
<1>9. CASE \/ Accept(e) \/ Reject(e) \/ SwapFails(e) \/ Truncate(e) \/ WriteCsv(e) \/ Build(e)
           \/ ApplySim(e) \/ SwapServer(e) \/ SetRegmap(e) \/ SetSignals(e)
  BY <1>1, <1>3, <1>9 DEF Accept, Reject, SwapFails, Truncate, WriteCsv, Build, ApplySim, SwapServer,
                          SetRegmap, SetSignals, engine, disk
<1>10. CASE Iterate(e) \/ ApplyMatch(e) \/ Matched(e) \/ BuildProfiles(e) \/ SwapProfiles(e)
  BY <1>1, <1>3, <1>10 DEF Iterate, ApplyMatch, Matched, BuildProfiles, SwapProfiles, engine, disk
<1>11. CASE Dump(e) \/ Visit(e) \/ Reply(e)
  BY <1>1, <1>3, <1>11 DEF Dump, Visit, Reply, Forget, engine, disk
<1> QED BY <1>5, <1>6, <1>7, <1>8, <1>9, <1>10, <1>11 DEF Step

LEMMA SavedOutside ==
  ASSUME SInv, SavedInv, Crash \/ Restore \/ (\E d \in Device : Reupload(d)) \/ UNCHANGED vars
  PROVE  SavedInv'
<1>1. CASE Crash
  BY <1>1 DEF Crash, SavedInv
<1>2. CASE Restore
  <2>1. \A e \in Editor : pc'[e] = "idle"
    BY <1>2 DEF Restore, locals, SInv, IInv, Running
  <2> QED BY <1>2, <2>1 DEF Restore, Loaded, disk, SavedInv, LoadDefaults
<1>3. CASE \E d \in Device : Reupload(d)
  BY <1>3 DEF Reupload, engine, locals, SavedInv, LoadDefaults
<1>4. CASE UNCHANGED vars
  BY <1>4 DEF vars, SavedInv, LoadDefaults
<1> QED BY <1>1, <1>2, <1>3, <1>4

\* As long as one client sets the simulation, a restart reads the settings in force
\* whenever no set_simulation is under way, whatever crashes went before.
THEOREM SetterSaves == ASSUME OneSetter PROVE Spec => []SettingsSaved
<1>1. Init => SavedInv
  <2>1. Init => simFile # Torn
    BY HotReloadAssumption DEF Init
  <2> QED BY <2>1 DEF Init, SavedInv, LoadDefaults
<1>2. SInv /\ SavedInv /\ [Next]_vars => SavedInv'
  BY SavedStep, SavedOutside DEF Next
<1>3. SInv /\ SavedInv => SettingsSaved
  BY DEF SInv, IInv, Threads, Kinds, SavedInv, SettingsSaved, Busy
<1> QED BY <1>1, <1>2, <1>3, SInvAlways, PTL DEF Spec

-----------------------------------------------------------------------------
(***************************************************************************)
(* What a step of one thread leaves alone.                                 *)
(***************************************************************************)
LEMMA HandsIn ==
  ASSUME SInv, NEW e \in Editor, NEW d \in Hands(e)
  PROVE  /\ d \in Device /\ Busy(e) /\ job[e] \in Jobs[e] /\ d \in Edits(job[e])
         /\ Working(e)
<1>1. pc[e] \notin {"idle", "reply"} /\ job[e].kind # "settings"
  BY DEF Hands
<1>0. Working(e)
  BY <1>1 DEF Working
<1>2. Busy(e) /\ job[e] \in Jobs[e] /\ Placed(e) /\ Kinds(e) /\ queue[e] \in Seq(Device)
      /\ pc[e] \in Steps
  BY <1>1, AtDevice DEF SInv, StateOK, IInv, Threads, Busy
<1>3. CASE pc[e] = "match"
  BY <1>0, <1>1, <1>2, <1>3 DEF Hands, Placed, Edits
<1>4. CASE pc[e] # "match" /\ job[e].kind \in ForOne
  <2>1. queue[e] = <<job[e].dev>>
    BY <1>1, <1>2, <1>4 DEF Placed
  <2>2. d \in Ran(queue[e])
    BY <1>1, <1>4 DEF Hands
  <2>3. d = job[e].dev
    BY <2>1, <2>2 DEF Ran
  <2>4. d \in Device
    BY <1>2, <2>2 DEF Ran
  <2> QED BY <1>0, <1>2, <1>4, <2>3, <2>4 DEF Edits, ForOne, Reloads
<1>5. CASE pc[e] # "match" /\ job[e].kind = "bulk"
  <2>1. d \in Ran(queue[e])
    BY <1>1, <1>5 DEF Hands
  <2>2. d \in Device
    BY <1>2, <2>1 DEF Ran
  <2> QED BY <1>0, <1>2, <1>5, <2>2 DEF Edits
<1>6. job[e].kind \in ForOne \cup {"bulk"}
  BY <1>1, <1>2 DEF Kinds, ForOne, Steps
<1> QED BY <1>3, <1>4, <1>5, <1>6

LEMMA HandsApart ==
  ASSUME SInv, CrossInv, NEW e \in Editor, NEW x \in Editor, x # e, NEW d \in Hands(e),
         d \notin crossed
  PROVE  d \notin Hands(x)
BY HandsIn DEF CrossInv

\* A request under way stays the same one, and ends with its answer.
LEMMA JobKept ==
  ASSUME SInv, NEW e \in Editor, Step(e), pc[e] # "idle"
  PROVE  IF pc[e] = "reply" THEN pc'[e] = "idle" ELSE job'[e] = job[e]
<1>1. pc \in [Editor -> Steps]
  BY DEF SInv, StateOK
<1> QED BY <1>1 DEF Step, Begin, BeginReload, BeginUpdate, BeginDeviceSim, BeginSignalSim,
           BeginBulkSim, BeginSettings, Accept, Reject, SwapFails, Truncate, WriteCsv, Build,
           SwapServer, SetRegmap, SetSignals, ApplySim, Iterate, ApplyMatch, Matched,
           BuildProfiles, SwapProfiles, Dump, Assign, Erase, Save, Visit, Reply, Ready, Go,
           Goes, Forget

LEMMA CrossStep ==
  ASSUME SInv, CrossInv, NEW e \in Editor, Moves(e) PROVE CrossInv'
<1>1. ASSUME NEW x \in Editor, x # e PROVE pc'[x] = pc[x] /\ job'[x] = job[x]
  BY <1>1, StepOthers DEF OthersKeep, Moves
\* What another thread edits does not leave crossed, if e edits it or not.
<1>2. ASSUME NEW x \in Editor, x # e, Working(x), NEW d \in Edits(job[x]), d \in crossed
      PROVE  d \in crossed'
  BY <1>2 DEF Moves, NoteCrossed, Shared
<1>3. ASSUME NEW x \in Editor, x # e, Working(x), Working(e)',
             NEW d \in Edits(job[x]), d \in Edits(job'[e])
      PROVE  d \in crossed'
  <2>1. CASE pc[e] = "idle"
    <3>1. d \in Shared(e, job'[e])
      BY <1>3 DEF Shared
    <3> QED BY <2>1, <3>1 DEF Moves, NoteCrossed, PutsRight
  <2>2. CASE pc[e] # "idle"
    <3>1. Working(e) /\ job'[e] = job[e]
      BY <1>3, <2>2, JobKept DEF Working, Moves
    <3> QED BY <1>2, <1>3, <3>1 DEF CrossInv
  <2> QED BY <2>1, <2>2
<1>4. SUFFICES ASSUME NEW a \in Editor, NEW b \in Editor, a # b, Working(a)', Working(b)',
                      NEW d \in Edits(job'[a]) \cap Edits(job'[b])
               PROVE  d \in crossed'
  BY DEF CrossInv
<1>5. CASE a = e
  BY <1>1, <1>3, <1>4, <1>5 DEF Working
<1>6. CASE b = e
  BY <1>1, <1>3, <1>4, <1>6 DEF Working
<1>7. CASE a # e /\ b # e
  <2>1. Working(a) /\ Working(b) /\ d \in Edits(job[a]) \cap Edits(job[b])
    BY <1>1, <1>4, <1>7 DEF Working
  <2> QED BY <1>2, <1>4, <1>7, <2>1 DEF CrossInv
<1> QED BY <1>5, <1>6, <1>7

LEMMA MixStep ==
  ASSUME SInv, MixInv, NEW e \in Editor, Moves(e) PROVE MixInv'
<1>1. ASSUME NEW x \in Editor, x # e PROVE pc'[x] = pc[x] /\ job'[x] = job[x]
  BY <1>1, StepOthers DEF OthersKeep, Moves
<1>2. SUFFICES ASSUME NEW a \in Editor, NEW b \in Editor, a # b, Working(a)', Working(b)',
                      job'[a].kind = "settings"
               PROVE  mixed'
  BY DEF MixInv
<1>3. CASE pc[e] = "idle"
  <2>1. CASE a = e \/ b = e
    BY <1>1, <1>2, <1>3, <2>1 DEF Moves, NoteMixed, Working
  <2>2. CASE a # e /\ b # e
    <3>1. mixed
      BY <1>1, <1>2, <2>2 DEF MixInv, Working
    <3> QED BY <1>3, <3>1 DEF Moves, NoteMixed
  <2> QED BY <2>1, <2>2
<1>4. CASE pc[e] # "idle"
  <2>1. Working(e)' => Working(e) /\ job'[e] = job[e]
    BY <1>4, JobKept DEF Working, Moves
  <2>2. Working(a) /\ Working(b) /\ job[a].kind = "settings"
    BY <1>1, <1>2, <2>1 DEF Working
  <2>3. mixed
    BY <1>2, <2>2 DEF MixInv
  <2>4. \E x \in Editor \ {e} : Working(x)
    BY <1>2, <2>2
  <2> QED BY <1>4, <2>3, <2>4 DEF Moves, NoteMixed
<1> QED BY <1>3, <1>4

LEMMA HistoryOutside ==
  ASSUME SInv, CrossInv, MixInv,
         Crash \/ Restore \/ (\E d \in Device : Reupload(d)) \/ UNCHANGED vars
  PROVE  CrossInv' /\ MixInv'
<1>1. CASE Crash
  BY <1>1 DEF Crash, CrossInv, MixInv, Working
<1>2. CASE Restore \/ \E d \in Device : Reupload(d)
  BY <1>2 DEF Restore, Reupload, locals, history, CrossInv, MixInv, Working
<1>3. CASE UNCHANGED vars
  BY <1>3 DEF vars, CrossInv, MixInv, Working
<1> QED BY <1>1, <1>2, <1>3

LEMMA HistoryAlways == Spec => [](CrossInv /\ MixInv)
<1>1. Init => CrossInv /\ MixInv
  BY DEF Init, CrossInv, MixInv, Working
<1>2. SInv /\ (CrossInv /\ MixInv) /\ [Next]_vars => (CrossInv /\ MixInv)'
  BY CrossStep, MixStep, HistoryOutside DEF Next, Moves
<1> QED BY <1>1, <1>2, SInvAlways, PTL DEF Spec

\* How a device leaves crossed, and parted.
LEMMA LeavesCrossed ==
  ASSUME SInv, NEW e \in Editor, Moves(e), NEW d \in Device, d \notin crossed', d \in crossed
  PROVE  /\ PutsRight(e) /\ d = Dev(e) /\ d \in Hands(e)
         /\ \A x \in Editor \ {e} : d \notin Hands(x)
<1>1. PutsRight(e) /\ d \in Edits(job[e]) \ Shared(e, job[e])
  BY DEF Moves, NoteCrossed
<1>2. d = job[e].dev /\ queue[e] = <<job[e].dev>>
  BY <1>1 DEF PutsRight, Edits, SInv, Placed, ForOne, Reloads
<1>3. d = Dev(e) /\ d \in Hands(e)
  BY <1>1, <1>2 DEF PutsRight, Dev, Hands, Ran
<1>4. \A x \in Editor \ {e} : d \notin Hands(x)
  BY <1>1, HandsIn DEF Shared
<1> QED BY <1>1, <1>3, <1>4

LEMMA LeavesParted ==
  ASSUME NEW e \in Editor, Moves(e), NEW d, d \notin parted'
  PROVE  /\ d \notin parted \/ (pc[e] = "write" /\ d = Dev(e))
         /\ ~(Fails(e) /\ d = Dev(e))
BY DEF Moves, NoteParted, Fails

\* A step that neither begins a request nor puts a device right crosses nothing.
LEMMA SameCrossed ==
  ASSUME NEW e \in Editor, Moves(e), pc[e] # "idle", ~PutsRight(e)
  PROVE  crossed' = crossed
BY DEF Moves, NoteCrossed

LEMMA HandsOthers ==
  ASSUME NEW e \in Editor, OthersKeep(e), NEW x \in Editor, x # e PROVE Hands(x)' = Hands(x)
<1>1. pc'[x] = pc[x] /\ job'[x] = job[x] /\ refs'[x] = refs[x] /\ queue'[x] = queue[x]
  BY DEF OthersKeep
<1>2. {d \in Device : refs'[x][d] # NoMap} = {d \in Device : refs[x][d] # NoMap}
  BY <1>1
<1>3. Ran(queue'[x]) = Ran(queue[x])
  BY <1>1
<1> QED BY <1>1, <1>2, <1>3 DEF Hands

\* The device a thread is at, unless it is changing settings, is in its hands.
LEMMA AtHands ==
  ASSUME SInv, NEW e \in Editor,
         \/ pc[e] \in {"check", "truncate", "write", "build", "swap", "regmap", "signals",
                       "apply", "dump"}
         \/ pc[e] \in {"resolve", "install"} /\ job[e].kind # "settings"
  PROVE  /\ Hands(e) = Ran(queue[e]) /\ Dev(e) \in Hands(e) /\ Dev(e) \in Device
         /\ job[e].kind # "settings" /\ queue[e] # <<>>
<1>1. job[e].kind # "settings"
  BY DEF SInv, IInv, Threads, Kinds, Reloads
<1>2. Hands(e) = Ran(queue[e])
  BY <1>1 DEF Hands
<1>3. queue[e] # <<>> /\ Dev(e) \in Device /\ queue[e] \in Seq(Device)
  BY AtDevice DEF SInv, StateOK
<1>4. Dev(e) = queue[e][1] /\ 1 \in DOMAIN queue[e]
  BY <1>3 DEF Dev
<1> QED BY <1>1, <1>2, <1>3, <1>4 DEF Ran

\* Device d after a step of e: its file, its map and what other threads hold of it stay.
Untouched(e, d) ==
  /\ csv'[d] = csv[d] /\ regmaps'[d] = regmaps[d]
  /\ \A m \in MapId : (regmaps[d] = m \/ \E x \in Editor \ {e} : refs[x][d] = m) =>
       /\ maps'[m].rows = maps[m].rows
       /\ pc[e] \notin {"visit", "install"} \/ job[e].kind # "settings" => maps'[m] = maps[m]

LEMMA StepLeaves ==
  ASSUME SInv, NEW e \in Editor, Step(e), NEW d \in Device, d \notin Hands(e)
  PROVE  Untouched(e, d)
<1> USE DEF Untouched
<1>1. /\ csv \in [Device -> Rows \cup {Torn}] /\ regmaps \in [Device -> MapId \cup {NoMap}]
      /\ maps \in [MapId -> Maps] /\ refs \in [Editor -> [Device -> MapId \cup {NoMap}]]
  BY DEF SInv, StateOK
<1>2. CASE UNCHANGED <<maps, csv, regmaps>>
  BY <1>2
<1>3. ASSUME NEW k \in MapId, NEW x \in Device, Holds(x, k), x # d,
             UNCHANGED <<csv, regmaps>>, \A m \in MapId : m # k => maps'[m] = maps[m]
      PROVE  Untouched(e, d)
  <2>1. ~Holds(d, k)
    BY <1>3 DEF SInv, Separate
  <2> QED BY <1>3, <2>1 DEF Holds
<1>4. CASE Truncate(e) \/ WriteCsv(e)
  <2>1. Dev(e) # d
    BY <1>4, AtHands DEF Truncate, WriteCsv
  <2> QED BY <1>1, <1>4, <2>1 DEF Truncate, WriteCsv, engine
<1>5. CASE Build(e)
  <2>1. PICK m \in MapId \ Live : maps' = [maps EXCEPT ![m] = NewMap(rows[e], simDefaults)]
    BY <1>5 DEF Build
  <2>2. \A k \in MapId : (regmaps[d] = k \/ \E x \in Editor \ {e} : refs[x][d] = k) => k # m
    BY <2>1 DEF Live
  <2> QED BY <1>1, <1>5, <2>1, <2>2 DEF Build, disk
<1>6. CASE SetRegmap(e)
  <2>1. Dev(e) # d
    BY <1>6, AtHands DEF SetRegmap
  <2> QED BY <1>1, <1>6, <2>1 DEF SetRegmap, disk
<1>7. CASE ApplySim(e)
  <2>1. pc[e] = "apply" /\ maps' = [maps EXCEPT ![Mine(e)].rows[job[e].name]
                                              = ApplyFields(@, job[e].patch)]
        /\ UNCHANGED <<csv, regmaps>>
    BY <1>7 DEF ApplySim, disk
  <2>2. Dev(e) # d /\ Dev(e) \in Device /\ Mine(e) \in MapId /\ Mine(e) = refs[e][Dev(e)]
    BY <2>1, AtHands, AtDevice
  <2>3. \A m \in MapId : m # Mine(e) => maps'[m] = maps[m]
    BY <1>1, <2>1, <2>2
  <2> QED BY <1>3, <2>1, <2>2, <2>3 DEF Holds
<1>8. CASE ApplyMatch(e)
  <2>1. PICK p \in todo[e] :
          /\ refs[e][Devices[p[1]]] # NoMap
          /\ maps' = [maps EXCEPT ![refs[e][Devices[p[1]]]].rows[Names[p[2]]]
                               = ApplyFields(@, job[e].patch)]
    BY <1>8 DEF ApplyMatch
  <2> DEFINE x == Devices[p[1]]
             k == refs[e][x]
  <2>2. x \in Device
    BY <2>1 DEF SInv, StateOK, Places, Device
  <2>3. pc[e] = "match" /\ job[e].kind = "bulk" /\ UNCHANGED <<csv, regmaps>>
    BY <1>8 DEF ApplyMatch, disk, SInv, Placed
  <2>4. x # d /\ k \in MapId
    BY <1>1, <2>1, <2>2, <2>3 DEF Hands
  <2>5. \A m \in MapId : m # k => maps'[m] = maps[m]
    BY <1>1, <2>1, <2>4
  <2> QED BY <1>3, <2>2, <2>3, <2>4, <2>5 DEF Holds
<1>9. CASE SwapProfiles(e)
  <2>1. pc[e] = "install" /\ maps' = [maps EXCEPT ![Mine(e)].profiles = built[e]]
        /\ UNCHANGED <<csv, regmaps>>
    BY <1>9 DEF SwapProfiles, disk
  <2>2. Dev(e) \in Device /\ Mine(e) \in MapId /\ Mine(e) = refs[e][Dev(e)]
    BY <2>1, AtDevice
  <2>3. built[e] \in Profiles
    BY DEF SInv, StateOK
  <2>4. /\ \A m \in MapId : m # Mine(e) => maps'[m] = maps[m]
        /\ maps'[Mine(e)].rows = maps[Mine(e)].rows
    BY <1>1, <2>1, <2>2, <2>3, SetMaps
  <2>5. CASE job[e].kind = "settings"
    BY <2>1, <2>4, <2>5
  <2>6. CASE job[e].kind # "settings"
    <3>1. Dev(e) # d
      BY <2>1, <2>6, AtHands
    <3> QED BY <1>3, <2>1, <2>2, <2>4, <3>1 DEF Holds
  <2> QED BY <2>5, <2>6
<1>10. CASE Visit(e)
  <2>1. /\ pc[e] = "visit" /\ maps' = [maps EXCEPT ![regmaps[Dev(e)]].defaults = chosen[e]]
        /\ UNCHANGED <<csv, regmaps>> /\ job[e].kind = "settings"
    BY <1>10 DEF Visit, disk, SInv, IInv, Threads, Kinds
  <2>2. Dev(e) \in Device /\ regmaps[Dev(e)] \in MapId
    BY <2>1, AtDevice DEF Busy
  <2>3. chosen[e] \in Settings
    BY DEF SInv, StateOK
  <2>4. /\ \A m \in MapId : m # regmaps[Dev(e)] => maps'[m] = maps[m]
        /\ maps'[regmaps[Dev(e)]].rows = maps[regmaps[Dev(e)]].rows
    BY <1>1, <2>1, <2>2, <2>3, SetMaps
  <2> QED BY <2>1, <2>4
<1>11. CASE Reply(e)
  <2>1. /\ maps' = [m \in MapId |-> IF m \in Live' THEN maps[m] ELSE Blank]
        /\ UNCHANGED <<csv, regmaps>>
    BY <1>11 DEF Reply, disk
  <2>2. ASSUME NEW m \in MapId, regmaps[d] = m \/ \E x \in Editor \ {e} : refs[x][d] = m
        PROVE  m \in Live'
    <3>1. \A x \in Editor \ {e} : refs'[x] = refs[x]
      BY StepOthers DEF OthersKeep
    <3> QED BY <2>1, <2>2, <3>1 DEF Live
  <2> QED BY <2>1, <2>2
<1>12. UNCHANGED <<maps, csv, regmaps>>
       \/ Truncate(e) \/ WriteCsv(e) \/ Build(e) \/ SetRegmap(e) \/ ApplySim(e) \/ ApplyMatch(e)
       \/ SwapProfiles(e) \/ Visit(e) \/ Reply(e)
  BY DEF Step, Begin, BeginReload, BeginUpdate, BeginDeviceSim, BeginSignalSim, BeginBulkSim,
         BeginSettings, Accept, Reject, SwapFails, SwapServer, SetSignals, Iterate, Matched, BuildProfiles,
         Dump, Assign, Erase, Save, Goes, engine, disk
<1> QED BY <1>2, <1>4, <1>5, <1>6, <1>7, <1>8, <1>9, <1>10, <1>11, <1>12

-----------------------------------------------------------------------------
(***************************************************************************)
(* The files and the maps, and update_signal.                              *)
(***************************************************************************)
\* In the order of the devices, each device of the set comes.
LEMMA OrderedAll == ASSUME NEW S, S \subseteq Device, NEW q \in InOrder(S) PROVE Ran(q) = S
<1> DEFINE n == Cardinality(S)
<1>1. IsFiniteSet(Device)
  <2>1. Devices \in Seq(Device)
    BY HotReloadAssumption
  <2>2. IsFiniteSet(1 .. Len(Devices))
    BY <2>1, FS_Interval
  <2>3. Devices \in Surjection(1 .. Len(Devices), Device)
    BY <2>1 DEF Device, Surjection
  <2> QED BY <2>2, <2>3, FS_Surjection
<1>2. IsFiniteSet(S) /\ n \in Nat
  BY <1>1, FS_Subset, FS_CardinalityType
<1>3. q \in [1 .. n -> S]
  BY DEF InOrder
<1>4. \A i, j \in 1 .. n : i < j => q[i] # q[j]
  <2>1. \A d \in S : MapOf(d) \in Int
    <3>1. \A d \in Device : MapOf(d) \in DOMAIN Devices
      BY DEF MapOf, Device
    <3>2. Devices \in Seq(Device)
      BY HotReloadAssumption
    <3>3. DOMAIN Devices = 1 .. Len(Devices) /\ Len(Devices) \in Nat
      BY <3>2
    <3> QED BY <3>1, <3>3
  <2>2. \A i, j \in 1 .. n : i < j => MapOf(q[i]) < MapOf(q[j])
    BY <1>3 DEF InOrder
  <2>3. \A i \in 1 .. n : ~(MapOf(q[i]) < MapOf(q[i]))
    BY <1>3, <2>1
  <2> HIDE DEF n
  <2> SUFFICES ASSUME NEW i \in 1 .. n, NEW j \in 1 .. n, i < j, q[i] = q[j] PROVE FALSE
    OBVIOUS
  <2>4. MapOf(q[i]) < MapOf(q[j])
    BY <2>2
  <2> QED BY <2>3, <2>4
<1>5. q \in Injection(1 .. n, S)
  <2> HIDE DEF n
  <2>1. \A i, j \in 1 .. n : q[i] = q[j] => i = j
    <3> SUFFICES ASSUME NEW i \in 1 .. n, NEW j \in 1 .. n, q[i] = q[j], i # j PROVE FALSE
      OBVIOUS
    <3>1. i < j \/ j < i
      BY <1>2
    <3> QED BY <1>4, <3>1
  <2> QED BY <1>3, <2>1 DEF Injection, IsInjective
<1>6. Cardinality(1 .. n) = n
  <2>1. Cardinality(1 .. n) = IF 1 > n THEN 0 ELSE n - 1 + 1
    BY <1>2, FS_Interval
  <2> HIDE DEF n
  <2> QED BY <1>2, <2>1
<1>7. q \in Surjection(1 .. n, S)
  BY <1>2, <1>5, <1>6, FS_Injection
<1> HIDE DEF n
<1> QED BY <1>3, <1>7 DEF Surjection, Ran

\* The devices a thread is done with.
Done(e) ==
  \A d \in Device \ (crossed \cup parted)' : d \in Hands(e) /\ d \notin Hands(e)' => Current(d)'

\* A device that a request which begins has for itself.
LEMMA NotHeld ==
  ASSUME SInv, NEW e \in Editor, pc[e] = "idle", Moves(e), NEW d \in Edits(job'[e]),
         d \notin crossed'
  PROVE  /\ \A x \in Editor : d \notin Hands(x)
         /\ d \notin crossed /\ (d \notin parted' => d \notin parted)
<1>1. d \notin Hands(e)
  BY DEF Hands
<1>2. d \notin crossed /\ d \notin Shared(e, job'[e])
  BY DEF Moves, NoteCrossed, PutsRight
<1>3. ASSUME NEW x \in Editor, x # e PROVE d \notin Hands(x)
  BY <1>2, <1>3, HandsIn DEF Shared
<1>4. d \notin parted' => d \notin parted
  BY LeavesParted
<1> QED BY <1>1, <1>2, <1>3, <1>4

LEMMA BeginRows ==
  ASSUME SInv, RowsInv, NEW e \in Editor, Moves(e), NEW j \in Jobs[e], Begin(e, j)
  PROVE  RowsAt(e)' /\ EditAt(e)' /\ Done(e)
<1> USE DEF Ready, Go, Put
<1>1. /\ pc \in [Editor -> Steps] /\ queue \in [Editor -> Seq(Device)] /\ DOMAIN job = Editor
      /\ refs \in [Editor -> [Device -> MapId \cup {NoMap}]] /\ rows \in [Editor -> Rows]
  BY DEF SInv, StateOK
<1>2. up /\ pc[e] = "idle" /\ job'[e] = j /\ UNCHANGED <<csv, maps, regmaps>>
  BY <1>1 DEF Begin, BeginReload, BeginUpdate, BeginDeviceSim, BeginSignalSim, BeginBulkSim,
              BeginSettings, engine, disk
<1>3. Done(e)
  BY <1>2 DEF Done, Hands
<1>4. ASSUME queue'[e] = <<j.dev>>, j.kind \in ForOne, j.dev \in Device
      PROVE  /\ Dev(e)' = j.dev
             /\ Dev(e)' \notin (crossed \cup parted)' => Current(Dev(e))'
  <2>1. Dev(e)' = j.dev
    BY <1>4 DEF Dev
  <2>2. ASSUME j.dev \notin crossed', j.dev \notin parted' PROVE Current(j.dev)
    <3>1. (\A x \in Editor : j.dev \notin Hands(x)) /\ j.dev \notin crossed \cup parted
      BY <1>2, <1>4, <2>2, NotHeld DEF Edits, ForOne, Reloads
    <3> QED BY <1>2, <1>4, <3>1 DEF RowsInv
  <2> QED BY <1>2, <2>1, <2>2 DEF Current
<1>5. \A d \in Device : refs[e][d] = NoMap
  BY <1>2 DEF SInv, Placed
<1>6. CASE BeginReload(e, j) \/ BeginDeviceSim(e, j)
  <2>1. /\ pc'[e] = "check" /\ queue'[e] = <<j.dev>> /\ j.kind \in Reloads /\ j.kind # "update"
        /\ j.dev \in Device
    BY <1>1, <1>6, HotReloadAssumption DEF BeginReload, BeginDeviceSim, Reloads
  <2>2. Dev(e)' \notin (crossed \cup parted)' => Current(Dev(e))'
    BY <1>4, <2>1 DEF ForOne
  <2> QED BY <1>2, <1>3, <2>1, <2>2 DEF RowsAt, EditAt, Reloads
<1>7. CASE BeginUpdate(e, j)
  <2>1. /\ pc'[e] = "check" /\ queue'[e] = <<j.dev>> /\ j.kind = "update" /\ j.dev \in Device
        /\ rows'[e] = [maps[regmaps[j.dev]].rows EXCEPT ![j.name].addr = j.addr]
    BY <1>1, <1>7, HotReloadAssumption DEF BeginUpdate
  <2>2. Dev(e)' = j.dev /\ (Dev(e)' \notin (crossed \cup parted)' => Current(Dev(e))')
    BY <1>4, <2>1 DEF ForOne, Reloads
  <2>3. RowsAt(e)'
    BY <1>2, <2>1, <2>2 DEF RowsAt
  <2>4. EditAt(e)'
    BY <1>2, <2>1, <2>2 DEF EditAt
  <2> QED BY <1>3, <2>3, <2>4
<1>8. CASE BeginSignalSim(e, j)
  <2>1. /\ pc'[e] = "apply" /\ queue'[e] = <<j.dev>> /\ j.kind = "signal" /\ j.dev \in Device
    BY <1>1, <1>8, HotReloadAssumption DEF BeginSignalSim
  <2>2. refs'[e][j.dev] = regmaps[j.dev]
    BY <1>1, <1>8, <2>1 DEF BeginSignalSim
  <2>3. Dev(e)' \notin (crossed \cup parted)' => Current(Dev(e))'
    BY <1>4, <2>1 DEF ForOne
  <2>4. \A x \in Hands(e)' : x = j.dev
    BY <1>2, <2>1 DEF Hands, Ran
  <2>5. \A x \in Hands(e)' : refs'[e][x] = regmaps'[x]
    BY <1>2, <2>2, <2>4
  <2> QED BY <1>2, <1>3, <2>1, <2>3, <2>5 DEF RowsAt, EditAt
<1>9. CASE BeginBulkSim(e, j)
  <2>1. pc'[e] = "match" /\ j.kind = "bulk" /\ refs' = refs
    BY <1>1, <1>9 DEF BeginBulkSim
  <2>2. Hands(e)' = {}
    BY <1>2, <1>5, <2>1 DEF Hands
  <2> QED BY <1>2, <1>3, <2>1, <2>2 DEF RowsAt, EditAt
<1>10. CASE BeginSettings(e, j)
  <2>1. pc'[e] = "assign" /\ j.kind = "settings"
    BY <1>1, <1>10 DEF BeginSettings
  <2> QED BY <1>2, <1>3, <2>1 DEF RowsAt, EditAt
<1> QED BY <1>6, <1>7, <1>8, <1>9, <1>10 DEF Begin

\* A step that changes neither what a thread holds nor the devices it has in hand.
LEMMA SameHands ==
  ASSUME NEW e \in Editor, pc[e] \notin {"idle", "reply", "match"},
         pc'[e] \notin {"idle", "reply", "match"},
         job'[e] = job[e], queue'[e] = queue[e]
  PROVE  /\ Hands(e)' = Hands(e) /\ Dev(e)' = Dev(e)
         /\ refs'[e] = refs[e] => Mine(e)' = Mine(e)
<1>1. Ran(queue'[e]) = Ran(queue[e])
  BY DEF Ran
<1> QED BY <1>1 DEF Hands, Dev, Mine

\* A reload, from the check to the last swap.
LEMMA ReloadRows ==
  ASSUME SInv, RowsInv, EditInv, NEW e \in Editor, Moves(e),
         \/ Accept(e) \/ Reject(e) \/ SwapFails(e) \/ Build(e)
         \/ SwapServer(e) \/ SetRegmap(e) \/ SetSignals(e)
  PROVE  RowsAt(e)' /\ EditAt(e)' /\ Done(e)
<1> USE DEF Go, Goes
<1>1. /\ pc \in [Editor -> Steps] /\ queue \in [Editor -> Seq(Device)] /\ maps \in [MapId -> Maps]
      /\ refs \in [Editor -> [Device -> MapId \cup {NoMap}]] /\ rows \in [Editor -> Rows]
      /\ csv \in [Device -> Rows \cup {Torn}] /\ regmaps \in [Device -> MapId \cup {NoMap}]
      /\ simDefaults \in Settings
  BY DEF SInv, StateOK
<1>2. /\ pc[e] \in {"check", "build", "swap", "regmap", "signals"}
      /\ pc'[e] \in {"truncate", "reply", "swap", "regmap", "signals"}
      /\ job' = job /\ queue' = queue /\ rows' = rows /\ up' = up
      /\ refs' = refs \/ Build(e)
  BY <1>1 DEF Accept, Reject, SwapFails, Build, SwapServer, SetRegmap, SetSignals, engine
<1>3. job[e].kind \in Reloads /\ up
  BY <1>2, AtDevice DEF SInv, IInv, Threads, Kinds, Busy
<1>4. queue[e] = <<job[e].dev>> /\ Dev(e) = job[e].dev /\ Dev(e) \in Device
  BY <1>2, <1>3, AtDevice DEF SInv, Placed, ForOne, Dev
<1>5. Hands(e) = {Dev(e)}
  BY <1>2, <1>3, <1>4, AtHands DEF Ran
<1>6. RowsAt(e) /\ EditAt(e)
  BY <1>3 DEF RowsInv, EditInv
<1>7. Dev(e)' = Dev(e) /\ (refs' = refs => Mine(e)' = Mine(e))
  BY <1>2 DEF Dev, Mine
<1>8. pc'[e] # "reply" => Done(e)
  BY <1>2, SameHands DEF Done
<1>8a. pc'[e] # "truncate" \/ job[e].kind = "update" => crossed' = crossed
  BY <1>2, SameCrossed DEF PutsRight
<1>9. CASE Accept(e)
  <2>1. pc[e] = "check" /\ pc'[e] = "truncate" /\ UNCHANGED <<maps, regmaps, csv>>
    BY <1>1, <1>9 DEF Accept, engine, disk
  <2> QED BY <1>2, <1>3, <1>6, <1>7, <1>8, <1>8a, <2>1 DEF RowsAt, EditAt, Reloads
<1>10. CASE Reject(e) \/ SwapFails(e)
  <2>1. pc[e] \in {"check", "swap"} /\ pc'[e] = "reply" /\ UNCHANGED <<maps, regmaps, csv>>
    BY <1>1, <1>10 DEF Reject, SwapFails, engine, disk
  <2>2. ASSUME NEW d \in Device, d \notin (crossed \cup parted)', d = Dev(e)
        PROVE  Current(d)
    <3>1. d \notin crossed /\ d \notin parted /\ ~Fails(e)
      BY <1>8a, <2>1, <2>2, LeavesParted
    <3>2. pc[e] = "check"
      BY <2>1, <3>1 DEF Fails
    <3> QED BY <1>6, <2>2, <3>1, <3>2 DEF RowsAt
  <2>3. Done(e)
    BY <1>5, <2>1, <2>2 DEF Done, Current
  <2> QED BY <1>2, <1>3, <2>1, <2>3 DEF RowsAt, EditAt, Reloads
<1>11. CASE Build(e)
  <2>1. PICK m \in MapId \ Live : /\ maps' = [maps EXCEPT ![m] = NewMap(rows[e], simDefaults)]
                                  /\ refs' = [refs EXCEPT ![e][Dev(e)] = m]
    BY <1>11 DEF Build
  <2>2. pc[e] = "build" /\ pc'[e] = "swap" /\ UNCHANGED <<regmaps, csv>>
    BY <1>1, <1>11 DEF Build, disk
  <2>3. Mine(e)' = m
    BY <1>1, <1>4, <1>7, <2>1 DEF Mine, Dev
  <2>4. maps'[m].rows = rows[e]
    BY <1>1, <2>1, NewMapType
  <2>5. maps'[regmaps[Dev(e)]] = maps[regmaps[Dev(e)]]
    <3>1. regmaps[Dev(e)] # m
      BY <1>4, <2>1 DEF Live
    <3> QED BY <1>1, <2>1, <3>1
  <2>6. RowsAt(e)'
    BY <1>2, <1>3, <1>6, <1>7, <1>8a, <2>2, <2>3, <2>4 DEF RowsAt, Reloads
  <2>7. EditAt(e)'
    BY <1>2, <1>3, <1>6, <1>7, <1>8a, <2>2, <2>5 DEF EditAt
  <2> QED BY <1>8, <2>2, <2>6, <2>7
<1>12. CASE SwapServer(e)
  <2>1. /\ pc[e] = "swap" /\ pc'[e] = "regmap" /\ refs' = refs
        /\ UNCHANGED <<maps, regmaps, csv>>
    BY <1>1, <1>12 DEF SwapServer, disk
  <2> QED BY <1>2, <1>3, <1>6, <1>7, <1>8, <1>8a, <2>1 DEF RowsAt, EditAt, Reloads
<1>13. CASE SetRegmap(e)
  <2>1. /\ pc[e] = "regmap" /\ pc'[e] = "signals" /\ UNCHANGED <<maps, csv>>
        /\ regmaps' = [regmaps EXCEPT ![Dev(e)] = Mine(e)]
    BY <1>1, <1>13 DEF SetRegmap, disk
  <2>2. Dev(e)' \notin crossed' => Current(Dev(e))'
    BY <1>1, <1>4, <1>6, <1>7, <1>8a, <2>1 DEF RowsAt, Current
  <2> QED BY <1>2, <1>3, <1>8, <2>1, <2>2 DEF RowsAt, EditAt, Reloads
<1>14. CASE SetSignals(e)
  <2>1. pc[e] = "signals" /\ pc'[e] = "reply" /\ UNCHANGED <<maps, regmaps, csv>>
    BY <1>1, <1>14 DEF SetSignals, disk
  <2>2. Done(e)
    BY <1>5, <1>6, <1>8a, <2>1 DEF RowsAt, Done, Current
  <2> QED BY <1>2, <1>3, <2>1, <2>2 DEF RowsAt, EditAt, Reloads
<1> QED BY <1>9, <1>10, <1>11, <1>12, <1>13, <1>14

LEMMA RanTail ==
  ASSUME NEW q \in Seq(Device), q # <<>>, NEW d \in Ran(q)
  PROVE  d = Head(q) \/ (Len(q) > 1 /\ d \in Ran(Tail(q)))
<1>1. PICK i \in DOMAIN q : d = q[i]
  BY DEF Ran
<1>2. DOMAIN q = 1 .. Len(q) /\ Len(q) \in Nat
  OBVIOUS
<1>3. CASE i = 1
  BY <1>1, <1>2, <1>3
<1>4. CASE i # 1
  <2>1. i - 1 \in DOMAIN Tail(q) /\ Tail(q)[i - 1] = q[i] /\ Len(q) > 1
    BY <1>2, <1>4
  <2>2. d \in Ran(Tail(q))
    BY <1>1, <2>1 DEF Ran
  <2> QED BY <2>1, <2>2
<1> QED BY <1>3, <1>4

\* The rewriting of a file.
LEMMA FileRows ==
  ASSUME SInv, RowsInv, EditInv, NEW e \in Editor, Moves(e),
         Truncate(e) \/ WriteCsv(e)
  PROVE  RowsAt(e)' /\ EditAt(e)' /\ Done(e)
<1> USE DEF Go, Goes, Put
<1>1. /\ pc \in [Editor -> Steps] /\ queue \in [Editor -> Seq(Device)]
      /\ csv \in [Device -> Rows \cup {Torn}]
  BY DEF SInv, StateOK
<1>2. /\ pc[e] \in {"truncate", "write"}
      /\ pc'[e] \in {"write", "build", "resolve", "reply"}
      /\ job' = job /\ refs' = refs /\ rows' = rows /\ UNCHANGED <<up, regmaps, maps>>
  BY <1>1 DEF Truncate, WriteCsv, engine
<1>3. Dev(e) \in Hands(e) /\ Dev(e) \in Device /\ Hands(e) = Ran(queue[e]) /\ queue[e] # <<>>
      /\ Busy(e) /\ up /\ job[e].kind # "settings"
  BY <1>2, AtHands, AtDevice DEF Busy
<1>4. RowsAt(e) /\ EditAt(e)
  BY <1>3 DEF RowsInv, EditInv
<1>4a. crossed' = crossed
  BY <1>2, SameCrossed DEF PutsRight
<1>5. CASE Truncate(e)
  <2>1. pc[e] = "truncate" /\ pc'[e] = "write" /\ queue' = queue
    BY <1>1, <1>5 DEF Truncate
  <2>2. Hands(e)' = Hands(e) /\ Dev(e)' = Dev(e) /\ Mine(e)' = Mine(e)
    BY <1>2, <2>1, SameHands
  <2> QED BY <1>2, <1>3, <1>4, <1>4a, <2>1, <2>2 DEF RowsAt, EditAt, Done, Busy
<1>6. CASE WriteCsv(e) /\ job[e].kind \in Reloads
  <2>1. pc[e] = "write" /\ pc'[e] = "build" /\ queue' = queue /\ csv'[Dev(e)] = rows[e]
    BY <1>1, <1>3, <1>6 DEF WriteCsv
  <2>2. Hands(e)' = Hands(e) /\ Dev(e)' = Dev(e) /\ Mine(e)' = Mine(e)
    BY <1>2, <2>1, SameHands
  <2> QED BY <1>2, <1>3, <1>4, <1>4a, <1>6, <2>1, <2>2 DEF RowsAt, EditAt, Done, Busy, Reloads
<1>7. CASE WriteCsv(e) /\ job[e].kind \notin Reloads
  <2>1. /\ pc[e] = "write" /\ pc'[e] = (IF Len(queue[e]) > 1 THEN "resolve" ELSE "reply")
        /\ queue'[e] = Tail(queue[e]) /\ csv' = [csv EXCEPT ![Dev(e)] = rows[e]]
    BY <1>1, <1>3, <1>7 DEF WriteCsv
  <2>2. job[e].kind \in {"signal", "bulk"}
    BY <1>7, <2>1 DEF SInv, IInv, Threads, Kinds
  <2>3. Dev(e) \notin crossed => csv'[Dev(e)] = maps'[regmaps'[Dev(e)]].rows
    <3> SUFFICES ASSUME Dev(e) \notin crossed PROVE csv'[Dev(e)] = maps'[regmaps'[Dev(e)]].rows
      OBVIOUS
    <3>1. rows[e] = maps[Mine(e)].rows /\ Mine(e) = regmaps[Dev(e)]
      BY <1>3, <1>4, <2>1, <2>2 DEF RowsAt, Mine
    <3> QED BY <1>1, <1>2, <1>3, <2>1, <3>1
  <2>4. \A d \in Hands(e) : d = Dev(e) \/ (Len(queue[e]) > 1 /\ d \in Ran(Tail(queue[e])))
    BY <1>1, <1>3, RanTail DEF Dev
  <2>5. Hands(e)' \subseteq Hands(e)
    BY <1>1, <1>2, <1>3, <2>1, TailLeft DEF Hands, Ran
  <2>6. Done(e)
    <3>1. Len(queue[e]) > 1 => Hands(e)' = Ran(Tail(queue[e]))
      BY <1>2, <1>3, <2>1 DEF Hands
    <3> SUFFICES ASSUME NEW d \in Hands(e), d \notin Hands(e)' PROVE d = Dev(e)
      BY <1>4a, <2>3 DEF Done, Current
    <3> QED BY <2>4, <3>1
  <2> QED BY <1>2, <1>3, <1>4, <1>4a, <2>1, <2>2, <2>5, <2>6 DEF RowsAt, EditAt, Busy, Reloads
<1> QED BY <1>5, <1>6, <1>7

\* The sim_* edits.
LEMMA SimRows ==
  ASSUME SInv, RowsInv, NEW e \in Editor, Moves(e), job[e].kind # "settings",
         \/ ApplySim(e) \/ Iterate(e) \/ ApplyMatch(e) \/ Matched(e)
         \/ BuildProfiles(e) \/ SwapProfiles(e) \/ Dump(e)
  PROVE  RowsAt(e)' /\ EditAt(e)' /\ Done(e)
<1> USE DEF Go, Goes, Put
<1>1. /\ pc \in [Editor -> Steps] /\ queue \in [Editor -> Seq(Device)] /\ maps \in [MapId -> Maps]
      /\ refs \in [Editor -> [Device -> MapId \cup {NoMap}]] /\ rows \in [Editor -> Rows]
      /\ NoMap \notin MapId
  BY HotReloadAssumption DEF SInv, StateOK
<1>2. /\ pc[e] \in {"apply", "match", "resolve", "install", "dump"}
      /\ pc'[e] \in {"reply", "match", "resolve", "install", "dump", "truncate"}
      /\ job' = job /\ UNCHANGED <<up, regmaps, csv>>
  BY <1>1 DEF ApplySim, Iterate, ApplyMatch, Matched, BuildProfiles, SwapProfiles, Dump,
              engine, disk
<1>3. job[e].kind \in {"signal", "bulk"} /\ Busy(e) /\ up /\ job[e] \in Jobs[e]
  BY <1>2, AtDevice DEF SInv, IInv, Threads, Kinds, Busy
<1>4. \A x \in Hands(e) \ crossed : refs[e][x] = regmaps[x]
  BY <1>3 DEF RowsInv, RowsAt
<1>4a. crossed' = crossed
  BY <1>2, SameCrossed DEF PutsRight
<1>5. EditAt(e)'
  BY <1>2, <1>3 DEF EditAt
<1>6. ASSUME pc'[e] # "truncate", \A x \in Hands(e)' \ crossed : refs'[e][x] = regmaps[x]
      PROVE  RowsAt(e)'
  BY <1>2, <1>3, <1>4a, <1>6 DEF RowsAt
<1>7. CASE ApplySim(e)
  <2>1. /\ pc[e] = "apply" /\ UNCHANGED <<refs, queue>>
        /\ pc'[e] = (IF Rejected(job[e].patch) THEN "reply" ELSE "resolve")
        /\ maps' = [maps EXCEPT ![Mine(e)].rows[job[e].name] = ApplyFields(@, job[e].patch)]
    BY <1>1, <1>7 DEF ApplySim
  <2>2. CASE pc'[e] = "resolve"
    <3>1. Hands(e)' = Hands(e)
      BY <1>2, <2>1, <2>2, SameHands
    <3> QED BY <1>4, <1>5, <1>6, <2>1, <2>2, <3>1 DEF Done
  <2>3. CASE pc'[e] = "reply"
    <3>1. job[e].kind = "signal"
      BY <2>1 DEF SInv, Placed
    <3>2. Hands(e) = {Dev(e)} /\ Dev(e) \in Device /\ RowsAt(e)
      <4>1. queue[e] = <<job[e].dev>> /\ Dev(e) = job[e].dev
        BY <2>1, <3>1 DEF SInv, Placed, ForOne, Dev
      <4>2. Hands(e) = Ran(queue[e])
        BY <2>1, AtHands
      <4> QED BY <1>3, <2>1, <4>1, <4>2, AtDevice DEF Ran, RowsInv
    <3>3. ASSUME NEW d \in Hands(e), d \notin crossed', d \notin parted' PROVE Current(d)'
      <4>1. d = Dev(e)
        BY <3>2
      <4>2. d \notin crossed /\ d \notin parted /\ ~Fails(e)
        BY <1>4a, <2>1, <3>3, <4>1, LeavesParted
      <4>3. maps' = maps
        BY <2>1, <2>3, <4>2 DEF Fails
      <4> QED BY <1>2, <2>1, <3>2, <4>1, <4>2, <4>3 DEF RowsAt, Current
    <3>5. Done(e)
      BY <3>2, <3>3 DEF Done
    <3>6. Hands(e)' = {}
      BY <2>3 DEF Hands
    <3> QED BY <1>5, <1>6, <2>3, <3>5, <3>6
  <2> QED BY <2>1, <2>2, <2>3
<1>8. CASE Iterate(e)
  <2>1. PICK p \in todo[e] : /\ refs[e][Devices[p[1]]] = NoMap
                             /\ refs' = [refs EXCEPT ![e][Devices[p[1]]] = regmaps[Devices[p[1]]]]
    BY <1>8 DEF Iterate
  <2>2. pc[e] = "match" /\ pc' = pc
    BY <1>8 DEF Iterate
  <2>3. Devices[p[1]] \in Device
    BY <2>1 DEF SInv, StateOK, Places, Device
  <2>4. Hands(e) = {d \in Device : refs[e][d] # NoMap}
        /\ Hands(e)' = {d \in Device : refs'[e][d] # NoMap}
    BY <1>2, <1>3, <2>2 DEF Hands
  <2>5. \A d \in Device : d # Devices[p[1]] => refs'[e][d] = refs[e][d]
    BY <1>1, <2>1
  <2>6. refs'[e][Devices[p[1]]] = regmaps[Devices[p[1]]]
    BY <1>1, <2>1, <2>3
  <2>7. Done(e)
    BY <2>1, <2>4, <2>5 DEF Done
  <2> QED BY <1>4, <1>5, <1>6, <2>2, <2>4, <2>5, <2>6, <2>7
<1>9. CASE ApplyMatch(e)
  <2>1. pc[e] = "match" /\ pc' = pc /\ refs' = refs /\ queue' = queue
    BY <1>9 DEF ApplyMatch
  <2>2. Hands(e)' = Hands(e)
    BY <1>2, <2>1 DEF Hands
  <2> QED BY <1>4, <1>5, <1>6, <2>1, <2>2 DEF Done
<1>10. CASE Matched(e)
  <2> DEFINE affected == {d \in Device : refs[e][d] # NoMap}
  <2>1. PICK q \in InOrder(affected) : queue' = [queue EXCEPT ![e] = q]
    BY <1>10 DEF Matched
  <2>2. /\ pc[e] = "match" /\ pc'[e] = (IF affected # {} THEN "resolve" ELSE "reply")
        /\ refs' = refs /\ queue'[e] = q
    BY <1>1, <1>10, <2>1 DEF Matched
  <2>3. Ran(q) = affected
    BY OrderedAll
  <2>4. Hands(e) = affected
    BY <1>3, <2>2 DEF Hands
  <2> HIDE DEF affected
  <2>5. Hands(e)' = affected
    BY <1>2, <1>3, <2>2, <2>3 DEF Hands
  <2> QED BY <1>4, <1>5, <1>6, <2>2, <2>4, <2>5 DEF Done
<1>11. CASE BuildProfiles(e) \/ SwapProfiles(e)
  <2>1. /\ pc[e] \in {"resolve", "install"} /\ pc'[e] \in {"install", "dump"}
        /\ UNCHANGED <<refs, queue>>
    BY <1>1, <1>3, <1>11 DEF BuildProfiles, SwapProfiles
  <2>2. Hands(e)' = Hands(e)
    BY <1>2, <2>1, SameHands
  <2> QED BY <1>4, <1>5, <1>6, <2>1, <2>2 DEF Done
<1>12. CASE Dump(e)
  <2>1. /\ pc[e] = "dump" /\ pc'[e] = "truncate" /\ UNCHANGED <<refs, queue, maps>>
        /\ rows'[e] = maps[Mine(e)].rows
    BY <1>1, <1>12 DEF Dump, engine
  <2>2. Hands(e)' = Hands(e) /\ Dev(e)' = Dev(e) /\ Mine(e)' = Mine(e)
    BY <1>2, <2>1, SameHands
  <2> QED BY <1>2, <1>3, <1>4, <1>4a, <1>5, <2>1, <2>2 DEF RowsAt, Done
<1> QED BY <1>7, <1>8, <1>9, <1>10, <1>11, <1>12

\* set_simulation, and the answer to any request.
LEMMA SettingsRows ==
  ASSUME SInv, NEW e \in Editor,
         \/ job[e].kind = "settings" /\ (BuildProfiles(e) \/ SwapProfiles(e))
         \/ Assign(e) \/ Erase(e) \/ Save(e) \/ Visit(e) \/ Reply(e)
  PROVE  RowsAt(e)' /\ EditAt(e)' /\ Done(e)
<1> USE DEF Go, Goes, Put
<1>1. pc \in [Editor -> Steps] /\ DOMAIN job = Editor
  BY DEF SInv, StateOK
<1>2. CASE Reply(e)
  <2>1. pc[e] = "reply" /\ pc'[e] = "idle"
    BY <1>1, <1>2 DEF Reply, Forget
  <2> QED BY <2>1 DEF RowsAt, EditAt, Done, Hands, Busy
<1>3. CASE ~Reply(e)
  <2>1. /\ pc[e] \in {"resolve", "install", "assign", "erase", "save", "visit"}
        /\ pc'[e] \in {"install", "visit", "reply", "erase", "save", "resolve"}
        /\ job' = job
    BY <1>1, <1>3 DEF BuildProfiles, SwapProfiles, Assign, Erase, Save, Visit
  <2>2. job[e].kind = "settings"
    BY <1>3 DEF Assign, Erase, Save, Visit, SInv, IInv, Threads, Kinds
  <2> QED BY <2>1, <2>2 DEF RowsAt, EditAt, Done, Hands
<1> QED BY <1>2, <1>3

\* A thread whose devices another thread leaves alone stays where it was.
LEMMA RowsOthers ==
  ASSUME SInv, CrossInv, RowsInv, EditInv, NEW e \in Editor, Moves(e), up,
         NEW x \in Editor, x # e
  PROVE  RowsAt(x)' /\ EditAt(x)'
<1>1. /\ pc'[x] = pc[x] /\ job'[x] = job[x] /\ rows'[x] = rows[x] /\ queue'[x] = queue[x]
      /\ refs'[x] = refs[x]
  BY StepOthers DEF OthersKeep, Moves
<1>2. Dev(x)' = Dev(x) /\ Mine(x)' = Mine(x) /\ Hands(x)' = Hands(x)
  BY <1>1, StepOthers, HandsOthers DEF Dev, Mine, Moves
<1>3. ASSUME NEW d \in Hands(x), d \notin crossed'
      PROVE  /\ d \in Device /\ Untouched(e, d) /\ d \notin crossed
             /\ d \notin parted' => d \notin parted
  <2>1. d \in Device
    BY HandsIn
  <2>2. d \notin crossed
    BY <1>3, <2>1, LeavesCrossed
  <2>3. d \notin Hands(e)
    BY <2>2, HandsApart
  <2>4. pc[e] = "write" => Dev(e) \in Hands(e)
    BY AtHands
  <2> QED BY <2>1, <2>2, <2>3, <2>4, StepLeaves, LeavesParted DEF Moves
<1>4. ASSUME pc[x] \in {"check", "truncate", "write", "build", "swap", "regmap", "signals",
                        "apply", "dump"},
             Dev(x) \notin crossed'
      PROVE  /\ Dev(x) \in Device /\ Untouched(e, Dev(x)) /\ regmaps[Dev(x)] \in MapId
             /\ Dev(x) \notin crossed /\ (Dev(x) \notin parted' => Dev(x) \notin parted)
  BY <1>3, <1>4, AtHands, AtDevice
<1>5. ASSUME \/ pc[x] \in {"swap", "regmap"}
             \/ pc[x] \in {"truncate", "write"} /\ job[x].kind \in {"signal", "bulk"},
             Dev(x) \notin crossed'
      PROVE  maps'[Mine(x)].rows = maps[Mine(x)].rows
  <2>1. Mine(x) \in MapId /\ Mine(x) = refs[x][Dev(x)]
    <3>1. CASE pc[x] \in {"swap", "regmap"}
      BY <3>1, AtDevice
    <3>2. CASE pc[x] \in {"truncate", "write"} /\ job[x].kind \in {"signal", "bulk"}
      <4>1. queue[x] # <<>> /\ queue[x] \in Seq(Device)
            /\ \A i \in DOMAIN queue[x] : refs[x][queue[x][i]] \in MapId
        BY <3>2 DEF SInv, IInv, Threads, Turn
      <4>2. refs[x][queue[x][1]] \in MapId /\ Head(queue[x]) = queue[x][1]
        BY <4>1
      <4> QED BY <4>2 DEF Mine, Dev
    <3> QED BY <1>5, <3>1, <3>2
  <2> QED BY <1>4, <1>5, <2>1 DEF Untouched
<1>6. RowsAt(x) /\ EditAt(x)
  BY DEF RowsInv, EditInv
<1>7. RowsAt(x)'
  <2>1. /\ pc[x] \in {"check", "apply"} /\ Dev(x) \notin (crossed \cup parted)' => Current(Dev(x))'
        /\ pc[x] = "signals" /\ Dev(x) \notin crossed' => Current(Dev(x))'
    BY <1>2, <1>4, <1>6 DEF RowsAt, Current, Untouched
  <2>2. pc[x] \in {"build", "swap", "regmap"} /\ Dev(x) \notin crossed' => csv'[Dev(x)] = rows[x]
    BY <1>4, <1>6 DEF RowsAt, Untouched
  <2>3. Busy(x) /\ job[x].kind \in {"signal", "bulk"} =>
          \A d \in Hands(x) \ crossed' : refs[x][d] = regmaps'[d]
    BY <1>3, <1>6 DEF RowsAt, Untouched
  <2>4. Dev(x) \notin crossed' =>
          /\ pc[x] \in {"swap", "regmap"} => maps'[Mine(x)].rows = rows[x]
          /\ pc[x] \in {"truncate", "write"} /\ job[x].kind \in {"signal", "bulk"} =>
               rows[x] = maps'[Mine(x)].rows
    BY <1>4, <1>5, <1>6 DEF RowsAt, Busy
  <2> QED BY <1>1, <1>2, <2>1, <2>2, <2>3, <2>4 DEF RowsAt, Busy
<1>8. EditAt(x)'
  BY <1>1, <1>2, <1>4, <1>6 DEF EditAt, Untouched
<1> QED BY <1>7, <1>8

LEMMA RowsStep ==
  ASSUME SInv, CrossInv, RowsInv, EditInv, NEW e \in Editor, Moves(e)
  PROVE  RowsInv' /\ EditInv'
<1>0. Step(e)
  BY DEF Moves
<1>1. up /\ up' = up
  BY <1>0, AtDevice DEF Step, Begin, BeginReload, BeginUpdate, BeginDeviceSim, BeginSignalSim,
         BeginBulkSim, BeginSettings, Accept, Reject, SwapFails, Truncate, WriteCsv, Build, SwapServer,
         SetRegmap, SetSignals, ApplySim, Iterate, ApplyMatch, Matched, BuildProfiles,
         SwapProfiles, Dump, Assign, Erase, Save, Visit, Reply, Ready, engine, Busy
<1>2. RowsAt(e)' /\ EditAt(e)' /\ Done(e)
  <2>1. ASSUME NEW j \in Jobs[e], Begin(e, j) PROVE RowsAt(e)' /\ EditAt(e)' /\ Done(e)
    BY <2>1, BeginRows
  <2>2. CASE \/ Accept(e) \/ Reject(e) \/ SwapFails(e) \/ Build(e)
             \/ SwapServer(e) \/ SetRegmap(e) \/ SetSignals(e)
    BY <2>2, ReloadRows
  <2>3. CASE Truncate(e) \/ WriteCsv(e)
    BY <2>3, FileRows
  <2>4. CASE \/ ApplySim(e) \/ Iterate(e) \/ ApplyMatch(e) \/ Matched(e)
             \/ BuildProfiles(e) \/ SwapProfiles(e) \/ Dump(e)
    <3>1. job[e].kind = "settings" => BuildProfiles(e) \/ SwapProfiles(e)
      BY <2>4 DEF SInv, IInv, Threads, Kinds, Placed, ApplySim, Iterate, ApplyMatch, Matched, Dump
    <3> QED BY <2>4, <3>1, SimRows, SettingsRows
  <2>5. CASE Assign(e) \/ Erase(e) \/ Save(e) \/ Visit(e) \/ Reply(e)
    BY <2>5, SettingsRows
  <2> QED BY <1>0, <2>1, <2>2, <2>3, <2>4, <2>5 DEF Step
<1>3. \A x \in Editor : RowsAt(x)' /\ EditAt(x)'
  BY <1>1, <1>2, RowsOthers
<1>4. ASSUME NEW d \in Device, d \notin (crossed \cup parted)', \A x \in Editor : d \notin Hands(x)'
      PROVE  Current(d)'
  <2>1. CASE d \in Hands(e)
    BY <1>2, <1>4, <2>1 DEF Done
  <2>2. CASE d \notin Hands(e)
    <3>1. \A x \in Editor : d \notin Hands(x)
      BY <1>0, <1>4, <2>2, StepOthers, HandsOthers
    <3>2. d \notin crossed
      BY <1>4, <2>2, LeavesCrossed
    <3>3. d \notin parted
      BY <1>4, <2>2, LeavesParted, AtHands
    <3>4. Current(d) /\ Untouched(e, d) /\ regmaps[d] \in MapId
      BY <1>0, <1>1, <2>2, <3>1, <3>2, <3>3, StepLeaves, AtDevice DEF RowsInv
    <3> QED BY <3>4 DEF Current, Untouched
  <2> QED BY <2>1, <2>2
<1> QED BY <1>3, <1>4 DEF RowsInv, EditInv

\* A crash leaves nothing to compare; a restore reads the files.
LEMMA RowsOutside ==
  ASSUME SInv, RowsInv, EditInv,
         Crash \/ Restore \/ (\E d \in Device : Reupload(d)) \/ UNCHANGED vars
  PROVE  RowsInv' /\ EditInv'
<1>1. CASE Crash
  BY <1>1 DEF Crash, RowsInv, EditInv, EditAt
<1>2. CASE Restore
  <2>1. \A e \in Editor : pc'[e] = "idle"
    BY <1>2 DEF Restore, locals, SInv, IInv, Running
  <2>2. \A d \in Device : Current(d)'
    <3>1. \A d \in Device : MapOf(d) \in DOMAIN Devices /\ Devices[MapOf(d)] = d /\ MapOf(d) \in MapId
      BY DevicesFit DEF MapOf, Device
    <3>2. csv' = csv /\ \A d \in Device : csv[d] \in Rows
      BY <1>2 DEF Restore, disk, Usable, SInv, StateOK
    <3>3. LoadDefaults(simFile) \in Settings
      BY DefaultsType DEF LoadDefaults, SInv, StateOK
    <3>4. \A d \in Device : regmaps'[d] = MapOf(d)
                            /\ maps'[MapOf(d)] = NewMap(csv[d], LoadDefaults(simFile))
      BY <1>2, <3>1 DEF Restore, Loaded
    <3> QED BY <3>2, <3>3, <3>4, NewMapType DEF Current
  <2> QED BY <2>1, <2>2 DEF RowsInv, RowsAt, EditInv, EditAt, Busy
<1>3. CASE \E d \in Device : Reupload(d)
  <2>1. \A e \in Editor : pc'[e] = "idle" /\ ~up'
    BY <1>3 DEF Reupload, locals, engine, SInv, IInv, Running
  <2>2. ~up'
    BY <1>3 DEF Reupload, engine
  <2> QED BY <2>1, <2>2 DEF RowsInv, EditInv, EditAt
<1>4. CASE UNCHANGED vars
  <2>1. /\ \A d \in Device : Current(d)' <=> Current(d)
        /\ \A e \in Editor : Hands(e)' = Hands(e) /\ (RowsAt(e)' <=> RowsAt(e))
                             /\ (EditAt(e)' <=> EditAt(e))
    BY <1>4 DEF vars, Current, Hands, Ran, RowsAt, EditAt, Dev, Mine, Busy
  <2> QED BY <1>4, <2>1 DEF RowsInv, EditInv, vars
<1> QED BY <1>1, <1>2, <1>3, <1>4

LEMMA RowsAlways == Spec => [](RowsInv /\ EditInv)
<1>1. Init => RowsInv /\ EditInv
  <2> SUFFICES ASSUME Init PROVE RowsInv /\ EditInv
    OBVIOUS
  <2>1. \A d \in Device : MapOf(d) \in DOMAIN Devices /\ Devices[MapOf(d)] = d /\ MapOf(d) \in MapId
    BY DevicesFit DEF MapOf, Device
  <2>2. simFile \in Settings /\ \A d \in Device : csv[d] \in Rows
    BY HotReloadAssumption DEF Init
  <2>3. \A d \in Device : regmaps[d] = MapOf(d) /\ maps[MapOf(d)] = NewMap(csv[d], simFile)
    BY <2>1 DEF Init
  <2>4. \A d \in Device : Current(d)
    BY <2>2, <2>3, NewMapType DEF Current
  <2> QED BY <2>4 DEF Init, RowsInv, RowsAt, EditInv, EditAt, Busy
<1>2. SInv /\ (CrossInv /\ MixInv) /\ (RowsInv /\ EditInv) /\ [Next]_vars => (RowsInv /\ EditInv)'
  BY RowsStep, RowsOutside DEF Next, Moves
<1> QED BY <1>1, <1>2, SInvAlways, HistoryAlways, PTL DEF Spec

\* Requests that concern device d not being under way, no thread has it in hand.
LEMMA QuietHands ==
  ASSUME SInv, NEW d \in Device, Quiet(d), NEW e \in Editor PROVE d \notin Hands(e)
BY HandsIn DEF Quiet, Edits

\* Between edits, the file a restart would load holds the signals being served: whatever
\* requests come, if those of the device have not crossed and the last did not fail half-way.
THEOREM FilesCurrent == Spec => []CsvCurrent
<1>1. SInv /\ RowsInv => CsvCurrent
  BY QuietHands DEF RowsInv, CsvCurrent, Current
<1> QED BY <1>1, SInvAlways, RowsAlways, PTL

\* Unless another edit of the device crossed it, update_signal replaces the live list by
\* the live list with one signal changed, whatever happened since it was copied.
THEOREM EditsOne == Spec => EditsOneSignal
<1>1. ASSUME SInv, RowsInv, EditInv, [Next]_vars, NEW e \in Editor,
             pc[e] = "regmap", Dev(e) \notin crossed
      PROVE  ReplacesOne(e)
  <2> SUFFICES ASSUME pc'[e] = "signals", job[e].kind = "update"
               PROVE  maps[regmaps'[Dev(e)]].rows =
                        [maps[regmaps[Dev(e)]].rows EXCEPT ![job[e].name].addr = job[e].addr]
    BY DEF ReplacesOne
  <2>1. up /\ Dev(e) \in Device
    BY <1>1, SwapsAt DEF SInv, IInv, Running
  <2>2. pc \in [Editor -> Steps] /\ regmaps \in [Device -> MapId \cup {NoMap}]
    BY <1>1 DEF SInv, StateOK
  <2>3. Next
    BY <1>1 DEF vars
  <2>4. PICK x \in Editor : Step(x)
    BY <1>1, <2>1, <2>3 DEF Next, Crash, Restore, Reupload
  <2>5. x = e
    BY <1>1, <2>4, StepOthers DEF OthersKeep
  <2>6. SetRegmap(e)
    BY <1>1, <2>2, <2>4, <2>5 DEF Step, Begin, BeginReload, BeginUpdate, BeginDeviceSim,
       BeginSignalSim, BeginBulkSim, BeginSettings, Accept, Reject, SwapFails, Truncate,
       WriteCsv, Build, SwapServer, SetSignals, ApplySim, Iterate, ApplyMatch, Matched,
       BuildProfiles, SwapProfiles, Dump, Assign, Erase, Save, Visit, Reply, Ready
  <2>7. regmaps'[Dev(e)] = Mine(e)
    BY <2>1, <2>2, <2>6 DEF SetRegmap
  <2>8. RowsAt(e) /\ EditAt(e)
    BY <1>1, <2>1 DEF RowsInv, EditInv
  <2> QED BY <1>1, <2>1, <2>7, <2>8 DEF RowsAt, EditAt
<1>2. SInv /\ (RowsInv /\ EditInv) /\ [Next]_vars =>
        [\A e \in Editor : pc[e] = "regmap" /\ Dev(e) \notin crossed => ReplacesOne(e)]_vars
  BY <1>1
<1> QED BY <1>2, SInvAlways, RowsAlways, PTL DEF Spec, EditsOneSignal

-----------------------------------------------------------------------------
(***************************************************************************)
(* The profiles.                                                           *)
(***************************************************************************)
\* A step that is not one of set_simulation's own.
Plain(e) == pc[e] \in {"idle", "reply"} \/ job[e].kind # "settings"

LEMMA LateSettings ==
  ASSUME SInv, NEW e \in Editor, Late(e) # {}
  PROVE  Busy(e) /\ Working(e) /\ job[e].kind = "settings" /\ ~Plain(e)
<1>1. /\ pc[e] \in {"erase", "save", "visit"}
         \/ (pc[e] \in {"resolve", "install"} /\ job[e].kind = "settings")
  BY DEF Late
<1>2. job[e].kind = "settings" /\ Busy(e) /\ Working(e)
  BY <1>1 DEF SInv, IInv, Threads, Kinds, Busy, Working
<1> QED BY <1>1, <1>2 DEF Plain

\* What a plain step does to the settings, and to who is late with them.
LEMMA PlainStep ==
  ASSUME SInv, SInv', MixInv, NEW e \in Editor, Moves(e), Plain(e), pc[e] # "reply", ~mixed'
  PROVE  /\ up /\ up' = up /\ simDefaults' = simDefaults /\ ~mixed
         /\ \A x \in Editor : Late(x) = {} /\ Late(x)' = {}
         /\ \A x \in Editor \ {e} : Working(x) => job[x].kind # "settings"
<1>0. Step(e) /\ ~mixed
  <2>1. pc[e] = "assign" => job[e].kind = "settings"
    BY DEF SInv, IInv, Threads, Kinds
  <2> QED BY <2>1 DEF Moves, NoteMixed, Plain
<1>0a. \A x \in Editor \ {e} : Working(x) => job[x].kind # "settings"
  <2>1. CASE pc[e] = "idle"
    BY <2>1 DEF Moves, NoteMixed
  <2>2. CASE pc[e] # "idle"
    BY <1>0, <2>2 DEF MixInv, Working
  <2> QED BY <2>1, <2>2
<1>1. \A x \in Editor : Late(x) = {}
  BY <1>0a, LateSettings
<1>2. ~ \/ Assign(e) \/ Erase(e) \/ Save(e) \/ Visit(e)
  BY DEF Assign, Erase, Save, Visit, Plain, SInv, IInv, Threads, Kinds
<1>3. up /\ up' = up /\ simDefaults' = simDefaults
  BY <1>0, <1>2, AtDevice DEF Step, Begin, BeginReload, BeginUpdate, BeginDeviceSim,
         BeginSignalSim, BeginBulkSim, BeginSettings, Accept, Reject, SwapFails, Truncate, WriteCsv, Build, SwapServer,
         SetRegmap, SetSignals, ApplySim, Iterate, ApplyMatch, Matched, BuildProfiles,
         SwapProfiles, Dump, Reply, Ready, engine, Busy
<1>4. ASSUME NEW x \in Editor, x # e PROVE Late(x)' = {}
  BY <1>0, <1>1, <1>4, StepOthers DEF OthersKeep, Late, Ran
<1>5. Late(e)' = {}
  <2>1. pc \in [Editor -> Steps] /\ DOMAIN job = Editor
    BY DEF SInv, StateOK
  <2>2. ASSUME NEW j \in Jobs[e], Begin(e, j) PROVE Late(e)' = {}
    BY <2>1, <2>2 DEF Begin, BeginReload, BeginUpdate, BeginDeviceSim, BeginSignalSim,
                BeginBulkSim, BeginSettings, Go, Late
  <2>3. CASE pc[e] # "idle"
    <3>1. job'[e].kind # "settings"
      BY <1>0, <2>3, JobKept DEF Plain
    <3>2. Kinds(e)'
      BY DEF SInv, IInv, Threads
    <3> QED BY <3>1, <3>2 DEF Kinds, Late
  <2> QED BY <1>0, <2>2, <2>3, BeginsOn
<1> QED BY <1>0, <1>0a, <1>1, <1>3, <1>4, <1>5

\* A plain step leaves the settings of the maps in use as they are.
InUse(m) == \E d \in Device : regmaps[d] = m \/ \E x \in Editor : refs[x][d] = m

LEMMA PlainKeeps ==
  ASSUME SInv, NEW e \in Editor, Step(e), Plain(e), pc[e] # "reply", NEW k \in MapId, InUse(k)
  PROVE  maps'[k].defaults = maps[k].defaults
<1>1. /\ maps \in [MapId -> Maps] /\ regmaps \in [Device -> MapId \cup {NoMap}]
      /\ refs \in [Editor -> [Device -> MapId \cup {NoMap}]]
  BY DEF SInv, StateOK
<1>2. CASE maps' = maps
  BY <1>2
<1>3. CASE Build(e)
  <2>1. PICK m \in MapId \ Live : maps' = [maps EXCEPT ![m] = NewMap(rows[e], simDefaults)]
    BY <1>3 DEF Build
  <2>2. k # m
    BY <2>1 DEF Live, InUse
  <2> QED BY <1>1, <2>1, <2>2
<1>4. CASE ApplySim(e)
  <2>1. pc[e] = "apply"
        /\ maps' = [maps EXCEPT ![Mine(e)].rows[job[e].name] = ApplyFields(@, job[e].patch)]
    BY <1>4 DEF ApplySim
  <2>2. Mine(e) \in MapId
    BY <2>1, AtDevice
  <2> QED BY <1>1, <2>1, <2>2 DEF Maps
<1>5. CASE ApplyMatch(e)
  <2>1. PICK p \in todo[e] :
          /\ refs[e][Devices[p[1]]] # NoMap
          /\ maps' = [maps EXCEPT ![refs[e][Devices[p[1]]]].rows[Names[p[2]]]
                               = ApplyFields(@, job[e].patch)]
    BY <1>5 DEF ApplyMatch
  <2>2. Devices[p[1]] \in Device
    BY <2>1 DEF SInv, StateOK, Places, Device
  <2>3. refs[e][Devices[p[1]]] \in MapId
    BY <1>1, <2>1, <2>2
  <2> QED BY <1>1, <2>1, <2>3 DEF Maps
<1>6. CASE SwapProfiles(e)
  <2>1. pc[e] = "install" /\ maps' = [maps EXCEPT ![Mine(e)].profiles = built[e]]
    BY <1>6 DEF SwapProfiles
  <2>2. Mine(e) \in MapId
    BY <2>1, AtDevice
  <2> QED BY <1>1, <2>1, <2>2 DEF Maps
<1>7. maps' = maps \/ Build(e) \/ ApplySim(e) \/ ApplyMatch(e) \/ SwapProfiles(e)
  <2>1. ~Visit(e) /\ ~Reply(e)
    BY DEF Visit, Reply, Plain, SInv, IInv, Threads, Kinds
  <2> QED
    BY <2>1 DEF Step, Begin, BeginReload, BeginUpdate, BeginDeviceSim, BeginSignalSim,
         BeginBulkSim, BeginSettings, Accept, Reject, SwapFails, Truncate, WriteCsv, SwapServer,
         SetRegmap, SetSignals, Iterate, Matched, BuildProfiles, Dump, Assign, Erase, Save,
         Goes, engine
<1> QED BY <1>2, <1>3, <1>4, <1>5, <1>6, <1>7

\* After it every device's map has the settings in force.
LEMMA PlainSettled ==
  ASSUME SInv, ProfilesInv, NEW e \in Editor, Step(e), Plain(e), pc[e] # "reply", up, ~mixed,
         \A x \in Editor : Late(x) = {}, NEW d \in Device
  PROVE  maps'[regmaps'[d]].defaults = simDefaults
<1>1. regmaps[d] \in MapId /\ regmaps \in [Device -> MapId \cup {NoMap}]
  BY AtDevice DEF SInv, StateOK
<1>2. maps[regmaps[d]].defaults = simDefaults
  BY DEF ProfilesInv, Settled
<1>3. CASE regmaps' = regmaps
  BY <1>1, <1>2, <1>3, PlainKeeps DEF InUse
<1>4. CASE SetRegmap(e)
  <2>1. pc[e] = "regmap" /\ maps' = maps /\ regmaps' = [regmaps EXCEPT ![Dev(e)] = Mine(e)]
    BY <1>4 DEF SetRegmap
  <2>2. maps[Mine(e)].defaults = simDefaults
    BY <2>1 DEF ProfilesInv, ProfilesAt, Settled
  <2> QED BY <1>1, <1>2, <2>1, <2>2
<1>5. regmaps' = regmaps \/ SetRegmap(e)
  BY DEF Step, Begin, BeginReload, BeginUpdate, BeginDeviceSim, BeginSignalSim, BeginBulkSim,
         BeginSettings, Accept, Reject, SwapFails, Truncate, WriteCsv, Build, SwapServer,
         SetSignals, ApplySim, Iterate, ApplyMatch, Matched, BuildProfiles, SwapProfiles, Dump,
         Assign, Erase, Save, Visit, Reply, Goes, engine
<1> QED BY <1>3, <1>4, <1>5

\* The devices a thread is done with move as they should.
Moved(e) ==
  \A d \in Device \ (crossed \cup parted)' :
    d \in Hands(e) /\ d \notin Hands(e)' => Resolved(regmaps[d])'

LEMMA BeginProfiles ==
  ASSUME SInv, ProfilesInv, NEW e \in Editor, Moves(e), NEW j \in Jobs[e], Begin(e, j),
         ~mixed, \A x \in Editor : Late(x) = {}
  PROVE  ProfilesAt(e)' /\ Moved(e)
<1> USE DEF Ready, Go, Put
<1>1. pc \in [Editor -> Steps] /\ queue \in [Editor -> Seq(Device)] /\ DOMAIN job = Editor
  BY DEF SInv, StateOK
<1>2. /\ up /\ pc[e] = "idle" /\ UNCHANGED <<maps, regmaps, simDefaults>> /\ job'[e] = j
      /\ pc'[e] \in {"check", "apply", "match", "assign"}
      /\ pc'[e] \in {"check", "apply"} => queue'[e] = <<j.dev>> /\ j.kind \in ForOne
  BY <1>1 DEF Begin, BeginReload, BeginUpdate, BeginDeviceSim, BeginSignalSim, BeginBulkSim,
              BeginSettings, engine, ForOne, Reloads
<1>3. Moved(e)
  BY <1>2 DEF Moved, Hands
<1>4. ASSUME pc'[e] \in {"check", "apply"}, Dev(e)' \notin (crossed \cup parted)'
      PROVE  Resolved(regmaps[Dev(e)])'
  <2>1. Dev(e)' = j.dev /\ j.kind \in ForOne
    BY <1>2, <1>4 DEF Dev
  <2>2. j.dev \in Device
    BY <2>1, HotReloadAssumption DEF ForOne, Reloads
  <2>3. (\A x \in Editor : j.dev \notin Hands(x)) /\ j.dev \notin crossed \cup parted
    BY <1>2, <1>4, <2>1, NotHeld DEF Edits, ForOne, Reloads
  <2>4. Resolved(regmaps[j.dev])
    BY <1>2, <2>2, <2>3 DEF ProfilesInv
  <2> QED BY <1>2, <2>1, <2>4 DEF Resolved
<1> QED BY <1>2, <1>3, <1>4 DEF ProfilesAt

LEMMA ReloadProfiles ==
  ASSUME SInv, ProfilesInv, NEW e \in Editor, Moves(e), ~mixed,
         \/ Accept(e) \/ Reject(e) \/ SwapFails(e) \/ Build(e)
         \/ SwapServer(e) \/ SetRegmap(e) \/ SetSignals(e)
  PROVE  ProfilesAt(e)' /\ Moved(e)
<1> USE DEF Go, Goes
<1>1. /\ pc \in [Editor -> Steps] /\ queue \in [Editor -> Seq(Device)] /\ maps \in [MapId -> Maps]
      /\ refs \in [Editor -> [Device -> MapId \cup {NoMap}]] /\ rows \in [Editor -> Rows]
      /\ regmaps \in [Device -> MapId \cup {NoMap}] /\ simDefaults \in Settings
  BY DEF SInv, StateOK
<1>2. /\ pc[e] \in {"check", "build", "swap", "regmap", "signals"}
      /\ pc'[e] \in {"truncate", "reply", "swap", "regmap", "signals"}
      /\ job' = job /\ queue' = queue /\ rows' = rows /\ simDefaults' = simDefaults
      /\ refs' = refs \/ Build(e)
  BY <1>1 DEF Accept, Reject, SwapFails, Build, SwapServer, SetRegmap, SetSignals, engine
<1>3. job[e].kind \in Reloads /\ up
  BY <1>2, AtDevice DEF SInv, IInv, Threads, Kinds, Busy
<1>4. queue[e] = <<job[e].dev>> /\ Dev(e) = job[e].dev /\ Dev(e) \in Device
  BY <1>2, <1>3, AtDevice DEF SInv, Placed, ForOne, Dev
<1>5. Hands(e) = {Dev(e)}
  BY <1>2, <1>3, <1>4, AtHands DEF Ran
<1>6. ProfilesAt(e)
  BY <1>2, <1>3 DEF ProfilesInv
<1>7. Dev(e)' = Dev(e) /\ (refs' = refs => Mine(e)' = Mine(e))
  BY <1>2 DEF Dev, Mine
<1>8. pc'[e] # "reply" => Moved(e)
  BY <1>2, SameHands DEF Moved
<1>8a. pc'[e] # "truncate" => crossed' = crossed
  BY <1>2, SameCrossed DEF PutsRight
<1>9. CASE Accept(e)
  <2>1. pc[e] = "check" /\ pc'[e] = "truncate" /\ UNCHANGED <<maps, regmaps>>
    BY <1>1, <1>9 DEF Accept, engine
  <2> QED BY <1>2, <1>3, <1>8, <2>1 DEF ProfilesAt, Reloads
<1>10. CASE Reject(e) \/ SwapFails(e) \/ SetSignals(e)
  <2>1. /\ pc[e] \in {"check", "swap", "signals"} /\ pc'[e] = "reply"
        /\ UNCHANGED <<maps, regmaps>>
    BY <1>1, <1>10 DEF Reject, SwapFails, SetSignals, engine
  <2>2. ASSUME NEW d \in Hands(e), d \notin crossed', d \notin parted' PROVE Resolved(regmaps[d])
    <3>1. d = Dev(e) /\ d \notin crossed /\ d \notin parted /\ ~Fails(e)
      BY <1>5, <1>8a, <2>1, <2>2, LeavesParted
    <3>2. pc[e] \in {"check", "signals"}
      BY <2>1, <3>1 DEF Fails
    <3> QED BY <1>6, <3>1, <3>2 DEF ProfilesAt
  <2>3. Moved(e)
    BY <1>2, <2>1, <2>2 DEF Moved, Resolved
  <2> QED BY <2>1, <2>3 DEF ProfilesAt
<1>11. CASE Build(e)
  <2>1. PICK m \in MapId \ Live : /\ maps' = [maps EXCEPT ![m] = NewMap(rows[e], simDefaults)]
                                  /\ refs' = [refs EXCEPT ![e][Dev(e)] = m]
    BY <1>11 DEF Build
  <2>2. pc'[e] = "swap" /\ regmaps' = regmaps
    BY <1>1, <1>11 DEF Build
  <2>3. Mine(e)' = m
    BY <1>1, <1>4, <1>7, <2>1 DEF Mine, Dev
  <2>4. /\ maps'[m].rows = rows[e] /\ maps'[m].defaults = simDefaults
        /\ maps'[m].profiles = ResolveAll(rows[e], simDefaults)
    BY <1>1, <2>1, NewMapType
  <2>5. Resolved(Mine(e))' /\ Settled(Mine(e))'
    BY <1>2, <2>3, <2>4 DEF Resolved, Settled
  <2> QED BY <1>8, <2>2, <2>5 DEF ProfilesAt
<1>12. CASE SwapServer(e)
  <2>1. pc[e] = "swap" /\ pc'[e] = "regmap" /\ refs' = refs /\ UNCHANGED <<maps, regmaps>>
    BY <1>1, <1>12 DEF SwapServer
  <2> QED BY <1>2, <1>6, <1>7, <1>8, <1>8a, <2>1 DEF ProfilesAt, Resolved, Settled
<1>13. CASE SetRegmap(e)
  <2>1. /\ pc[e] = "regmap" /\ pc'[e] = "signals" /\ maps' = maps
        /\ regmaps' = [regmaps EXCEPT ![Dev(e)] = Mine(e)]
    BY <1>1, <1>13 DEF SetRegmap
  <2>2. Dev(e)' \notin crossed' => Resolved(regmaps[Dev(e)])'
    BY <1>1, <1>2, <1>4, <1>6, <1>7, <1>8a, <2>1 DEF ProfilesAt, Resolved
  <2> QED BY <1>8, <2>1, <2>2 DEF ProfilesAt
<1> QED BY <1>9, <1>10, <1>11, <1>12, <1>13

LEMMA FileProfiles ==
  ASSUME SInv, ProfilesInv, RowsInv, NEW e \in Editor, Moves(e), Truncate(e) \/ WriteCsv(e),
         ~mixed, \A x \in Editor : Late(x) = {}
  PROVE  ProfilesAt(e)' /\ Moved(e)
<1> USE DEF Go, Goes, Put
<1>1. /\ pc \in [Editor -> Steps] /\ queue \in [Editor -> Seq(Device)]
  BY DEF SInv, StateOK
<1>2. /\ pc[e] \in {"truncate", "write"}
      /\ pc'[e] \in {"write", "build", "resolve", "reply"}
      /\ job' = job /\ refs' = refs /\ UNCHANGED <<up, regmaps, maps, simDefaults>>
  BY <1>1 DEF Truncate, WriteCsv, engine
<1>3. /\ Dev(e) \in Hands(e) /\ Dev(e) \in Device /\ Hands(e) = Ran(queue[e]) /\ queue[e] # <<>>
      /\ Busy(e) /\ up /\ job[e].kind # "settings"
  BY <1>2, AtHands, AtDevice DEF Busy
<1>4. ProfilesAt(e) /\ crossed' = crossed
  BY <1>2, <1>3, SameCrossed DEF ProfilesInv, PutsRight
<1>5. CASE Truncate(e) \/ job[e].kind \in Reloads
  <2>1. /\ pc'[e] \in {"write", "build"} /\ queue' = queue
        /\ pc'[e] = "build" => job[e].kind \in Reloads
    BY <1>1, <1>5 DEF Truncate, WriteCsv
  <2>2. Hands(e)' = Hands(e) /\ Dev(e)' = Dev(e)
    BY <1>2, <2>1, SameHands
  <2> QED BY <1>2, <1>4, <2>1, <2>2 DEF ProfilesAt, Moved, Resolved
<1>6. CASE WriteCsv(e) /\ job[e].kind \notin Reloads
  <2>1. /\ pc[e] = "write" /\ pc'[e] = (IF Len(queue[e]) > 1 THEN "resolve" ELSE "reply")
        /\ queue'[e] = Tail(queue[e])
    BY <1>1, <1>3, <1>6 DEF WriteCsv
  <2>2. job[e].kind \in {"signal", "bulk"}
    BY <1>6, <2>1 DEF SInv, IInv, Threads, Kinds
  <2>3. Moved(e)
    <3>1. Len(queue[e]) > 1 => Hands(e)' = Ran(Tail(queue[e]))
      BY <1>2, <1>3, <2>1 DEF Hands
    <3> SUFFICES ASSUME NEW d \in Hands(e), d \notin Hands(e)' PROVE d = Dev(e)
      BY <1>2, <1>4, <2>1, <2>2 DEF Moved, Resolved, ProfilesAt
    <3>2. d = Head(queue[e]) \/ (Len(queue[e]) > 1 /\ d \in Ran(Tail(queue[e])))
      BY <1>1, <1>3, RanTail
    <3> QED BY <3>1, <3>2 DEF Dev
  <2>4. ASSUME Len(queue[e]) > 1, Dev(e)' \notin crossed
        PROVE  Mine(e)' = regmaps'[Dev(e)'] /\ Settled(Mine(e))'
    <3>1. Head(Tail(queue[e])) = queue[e][2] /\ 2 \in DOMAIN queue[e]
      BY <1>1, <2>4
    <3> DEFINE x == queue[e][2]
    <3>2. x \in Hands(e) /\ x \in Device
      BY <1>1, <1>3, <3>1 DEF Ran
    <3>3. Dev(e)' = x
      BY <2>1, <3>1 DEF Dev
    <3>4. Mine(e)' = refs[e][x] /\ refs[e][x] = regmaps[x]
      BY <1>2, <1>3, <2>2, <2>4, <3>2, <3>3 DEF Mine, Dev, RowsInv, RowsAt
    <3>5. Settled(regmaps[x])
      BY <1>3, <3>2 DEF ProfilesInv
    <3> QED BY <1>2, <3>3, <3>4, <3>5 DEF Settled
  <2> QED BY <1>2, <1>3, <1>4, <2>1, <2>3, <2>4 DEF ProfilesAt, Alone
<1> QED BY <1>5, <1>6

LEMMA SimProfiles ==
  ASSUME SInv, ProfilesInv, RowsInv, NEW e \in Editor, Moves(e), job[e].kind # "settings",
         ~mixed, \A x \in Editor : Late(x) = {},
         \/ ApplySim(e) \/ Iterate(e) \/ ApplyMatch(e) \/ Matched(e)
         \/ BuildProfiles(e) \/ SwapProfiles(e) \/ Dump(e)
  PROVE  ProfilesAt(e)' /\ Moved(e)
<1> USE DEF Go, Goes, Put
<1>1. /\ pc \in [Editor -> Steps] /\ queue \in [Editor -> Seq(Device)] /\ maps \in [MapId -> Maps]
      /\ refs \in [Editor -> [Device -> MapId \cup {NoMap}]] /\ built \in [Editor -> Profiles]
      /\ NoMap \notin MapId
  BY HotReloadAssumption DEF SInv, StateOK
<1>2. /\ pc[e] \in {"apply", "match", "resolve", "install", "dump"}
      /\ pc'[e] \in {"reply", "match", "resolve", "install", "dump", "truncate"}
      /\ job' = job /\ UNCHANGED <<up, regmaps, simDefaults>>
  BY <1>1 DEF ApplySim, Iterate, ApplyMatch, Matched, BuildProfiles, SwapProfiles, Dump, engine
<1>3. job[e].kind \in {"signal", "bulk"} /\ Busy(e) /\ up /\ Plain(e)
  BY <1>2, AtDevice DEF SInv, IInv, Threads, Kinds, Busy, Plain
<1>4. \A x \in Hands(e) \ crossed : refs[e][x] = regmaps[x]
  BY <1>3 DEF RowsInv, RowsAt
<1>4a. crossed' = crossed
  BY <1>2, SameCrossed DEF PutsRight
<1>5. \A d \in Device : maps'[regmaps[d]].defaults = simDefaults
  BY <1>2, <1>3, PlainSettled DEF Moves
<1>6. ProfilesAt(e)
  BY <1>3 DEF ProfilesInv
<1>7. CASE ApplySim(e)
  <2>1. /\ pc[e] = "apply" /\ UNCHANGED <<refs, queue>>
        /\ pc'[e] = (IF Rejected(job[e].patch) THEN "reply" ELSE "resolve")
    BY <1>1, <1>7 DEF ApplySim
  <2>2. Hands(e) = Ran(queue[e]) /\ Dev(e) \in Hands(e) /\ Dev(e) \in Device
    BY <2>1, AtHands
  <2>3. CASE pc'[e] = "resolve"
    <3>1. Hands(e)' = Hands(e) /\ Dev(e)' = Dev(e) /\ Mine(e)' = Mine(e)
      BY <1>2, <2>1, <2>3, SameHands
    <3>2. Dev(e) \notin crossed => Mine(e) = regmaps[Dev(e)]
      BY <1>4, <2>2 DEF Mine
    <3> QED BY <1>2, <1>3, <1>4a, <1>5, <2>2, <2>3, <3>1, <3>2 DEF ProfilesAt, Settled, Moved, Alone
  <2>4. CASE pc'[e] = "reply"
    <3>1. Hands(e) = {Dev(e)}
      <4>1. queue[e] = <<job[e].dev>> /\ Dev(e) = job[e].dev
        BY <2>1 DEF SInv, Placed, ForOne, Dev
      <4> QED BY <2>2, <4>1 DEF Ran
    <3>2. ASSUME NEW d \in Hands(e), d \notin crossed', d \notin parted'
          PROVE  Resolved(regmaps[d])'
      <4>1. d = Dev(e) /\ d \notin crossed /\ d \notin parted /\ ~Fails(e)
        BY <1>4a, <2>1, <3>1, <3>2, LeavesParted
      <4>2. maps' = maps
        BY <2>1, <2>4, <4>1 DEF Fails
      <4> QED BY <1>2, <1>6, <2>1, <4>1, <4>2 DEF ProfilesAt, Resolved
    <3> QED BY <2>4, <3>2 DEF ProfilesAt, Moved
  <2> QED BY <2>1, <2>3, <2>4
<1>8. CASE Iterate(e) \/ ApplyMatch(e)
  <2>1. pc[e] = "match" /\ pc' = pc
    BY <1>8 DEF Iterate, ApplyMatch
  <2>2. Hands(e) = {d \in Device : refs[e][d] # NoMap}
        /\ Hands(e)' = {d \in Device : refs'[e][d] # NoMap}
    BY <1>2, <1>3, <2>1 DEF Hands
  <2>3. \A d \in Device : refs[e][d] # NoMap => refs'[e][d] # NoMap
    <3>1. CASE Iterate(e)
      <4>1. PICK p : refs[e][Devices[p[1]]] = NoMap
                     /\ refs' = [refs EXCEPT ![e][Devices[p[1]]] = regmaps[Devices[p[1]]]]
        BY <3>1 DEF Iterate
      <4> QED BY <1>1, <4>1
    <3>2. CASE ApplyMatch(e)
      BY <3>2 DEF ApplyMatch
    <3> QED BY <1>8, <3>1, <3>2
  <2> QED BY <2>1, <2>2, <2>3 DEF ProfilesAt, Moved
<1>9. CASE Matched(e)
  <2> DEFINE affected == {d \in Device : refs[e][d] # NoMap}
  <2>1. PICK q \in InOrder(affected) : queue' = [queue EXCEPT ![e] = q]
    BY <1>9 DEF Matched
  <2>2. /\ pc[e] = "match" /\ pc'[e] = (IF affected # {} THEN "resolve" ELSE "reply")
        /\ refs' = refs /\ queue'[e] = q
    BY <1>1, <1>9, <2>1 DEF Matched
  <2>3. Ran(q) = affected
    BY OrderedAll
  <2>4. Hands(e) = affected /\ affected \subseteq Device
    BY <1>3, <2>2 DEF Hands
  <2>5. affected # {} => Head(q) \in affected
    BY OrderedElements
  <2> HIDE DEF affected
  <2>6. Hands(e)' = affected
    BY <1>2, <1>3, <2>2, <2>3 DEF Hands
  <2>7. pc'[e] = "resolve" => Dev(e)' \in affected /\ Mine(e)' = refs[e][Dev(e)']
    BY <2>2, <2>5 DEF Dev, Mine
  <2>8. pc'[e] = "resolve" /\ Dev(e)' \notin crossed =>
          Mine(e)' = regmaps[Dev(e)'] /\ Dev(e)' \in Device
    BY <1>4, <2>4, <2>7
  <2>9. pc'[e] = "resolve" /\ Dev(e)' \notin crossed => Settled(Mine(e))'
    BY <1>2, <1>5, <2>8 DEF Settled
  <2> QED BY <1>2, <1>3, <1>4a, <2>2, <2>4, <2>6, <2>8, <2>9 DEF Moved, ProfilesAt, Alone
<1>10. CASE BuildProfiles(e)
  <2>1. /\ pc[e] = "resolve" /\ pc'[e] = "install" /\ UNCHANGED <<refs, queue, maps>>
        /\ built'[e] = ResolveAll(maps[Mine(e)].rows, maps[Mine(e)].defaults)
    BY <1>1, <1>10 DEF BuildProfiles, engine
  <2>2. Hands(e)' = Hands(e) /\ Dev(e)' = Dev(e) /\ Mine(e)' = Mine(e)
    BY <1>2, <2>1, SameHands
  <2> QED BY <1>2, <1>4a, <1>6, <2>1, <2>2 DEF ProfilesAt, Settled, Moved, Alone
<1>11. CASE SwapProfiles(e)
  <2>1. /\ pc[e] = "install" /\ pc'[e] = "dump" /\ UNCHANGED <<refs, queue>>
        /\ maps' = [maps EXCEPT ![Mine(e)].profiles = built[e]]
    BY <1>1, <1>3, <1>11 DEF SwapProfiles
  <2>2. Hands(e)' = Hands(e) /\ Dev(e)' = Dev(e)
    BY <1>2, <2>1, SameHands
  <2>3. Mine(e) \in MapId
    BY <2>1, AtDevice
  <2>4. maps'[Mine(e)].rows = maps[Mine(e)].rows /\ maps'[Mine(e)].profiles = built[e]
    BY <1>1, <2>1, <2>3, SetMaps
  <2>5. Dev(e) \notin crossed => Resolved(regmaps[Dev(e)])'
    BY <1>2, <1>6, <2>1, <2>2, <2>4 DEF ProfilesAt, Resolved, Alone
  <2> QED BY <1>4a, <2>1, <2>2, <2>5 DEF ProfilesAt, Moved
<1>12. CASE Dump(e)
  <2>1. /\ pc[e] = "dump" /\ pc'[e] = "truncate" /\ UNCHANGED <<refs, queue, maps>>
    BY <1>1, <1>12 DEF Dump, engine
  <2>2. Hands(e)' = Hands(e) /\ Dev(e)' = Dev(e)
    BY <1>2, <2>1, SameHands
  <2> QED BY <1>2, <1>4a, <1>6, <2>1, <2>2 DEF ProfilesAt, Moved, Resolved
<1> QED BY <1>7, <1>8, <1>9, <1>10, <1>11, <1>12

\* set_simulation's own steps: from when it assigns the settings, nobody else is at work.
LEMMA SettingsProfiles ==
  ASSUME SInv, MixInv, ProfilesInv, NEW e \in Editor, Moves(e), ~Plain(e), ~mixed'
  PROVE  ProfilesInv'
<1> USE DEF Go, Goes, Put
<1>1. /\ pc \in [Editor -> Steps] /\ queue \in [Editor -> Seq(Device)] /\ maps \in [MapId -> Maps]
      /\ refs \in [Editor -> [Device -> MapId \cup {NoMap}]] /\ built \in [Editor -> Profiles]
      /\ chosen \in [Editor -> Settings] /\ regmaps \in [Device -> MapId \cup {NoMap}]
  BY DEF SInv, StateOK
<1>2. job[e].kind = "settings" /\ pc[e] \notin {"idle", "reply"} /\ up /\ job[e] \in Jobs[e]
      /\ Kinds(e) /\ Placed(e)
  BY AtDevice DEF Plain, Busy, SInv, IInv, Threads
<1>3. /\ \A x \in Editor \ {e} : ~Working(x)
      /\ pc[e] # "assign" => ~mixed
  BY <1>2 DEF MixInv, Working, Moves, NoteMixed
<1>4. Assign(e) \/ Erase(e) \/ Save(e) \/ Visit(e) \/ BuildProfiles(e) \/ SwapProfiles(e)
  BY <1>2 DEF Moves, Step, Begin, BeginReload, BeginUpdate, BeginDeviceSim, BeginSignalSim,
         BeginBulkSim, BeginSettings, Ready, Accept, Reject, SwapFails, Truncate, WriteCsv, Build, SwapServer, SetRegmap,
         SetSignals, ApplySim, Iterate, ApplyMatch, Matched, Dump, Reply, Kinds, Placed, Reloads
<1>5. /\ job' = job /\ up' = up /\ regmaps' = regmaps
      /\ pc[e] # "assign" => ProfilesAt(e)
  BY <1>2, <1>3, <1>4 DEF Assign, Erase, Save, Visit, BuildProfiles, SwapProfiles, engine,
                          ProfilesInv
<1>6. \A x \in Editor : Hands(x) = {} /\ Hands(x)' = {} /\ (x # e => Late(x) = {} /\ Late(x)' = {})
  <2>1. ASSUME NEW x \in Editor, x # e PROVE pc[x] \in {"idle", "reply"} /\ pc'[x] = pc[x]
    BY <1>3, <2>1, StepOthers DEF Working, OthersKeep, Moves
  <2> QED BY <1>2, <1>5, <2>1 DEF Hands, Late
<1>6a. crossed' = crossed /\ parted' = parted
  <2>1. pc[e] \in {"assign", "erase", "save", "visit", "resolve", "install"}
    BY <1>4 DEF Assign, Erase, Save, Visit, BuildProfiles, SwapProfiles
  <2> QED BY <2>1, SameCrossed DEF PutsRight, Moves, NoteParted, Fails
<1>7. SUFFICES /\ ProfilesAt(e)'
               /\ \A d \in Device : d \notin Late(e)' =>
                    Settled(regmaps[d])' /\ (d \in crossed \cup parted \/ Resolved(regmaps[d])')
  <2>1. ASSUME NEW x \in Editor, x # e PROVE ProfilesAt(x)'
    <3>1. pc'[x] \in {"idle", "reply"}
      BY <1>3, <2>1, StepOthers DEF Working, OthersKeep, Moves
    <3> QED BY <3>1 DEF ProfilesAt
  <2> QED BY <1>6, <1>6a, <2>1 DEF ProfilesInv
<1>8. ASSUME pc[e] # "assign", NEW d \in Device, d \notin Late(e)
      PROVE  Settled(regmaps[d]) /\ (d \in crossed \cup parted \/ Resolved(regmaps[d]))
  BY <1>2, <1>3, <1>6, <1>8 DEF ProfilesInv
<1>9. CASE Assign(e)
  <2>1. pc'[e] = "erase" /\ simDefaults' = chosen[e] /\ chosen' = chosen
    BY <1>1, <1>9 DEF Assign
  <2> QED BY <2>1 DEF ProfilesAt, Late
<1>10. CASE Erase(e)
  <2>1. pc[e] = "erase" /\ pc'[e] = "save" /\ simDefaults' = simDefaults /\ chosen' = chosen
    BY <1>1, <1>10 DEF Erase, engine
  <2> QED BY <1>5, <2>1 DEF ProfilesAt, Late
<1>11. CASE Save(e)
  <2>1. /\ pc[e] = "save" /\ pc'[e] = "visit" /\ simDefaults' = simDefaults /\ chosen' = chosen
        /\ queue'[e] = Devices
    BY <1>1, <1>11 DEF Save, engine
  <2>2. Late(e)' = Device
    BY <2>1 DEF Late, Ran, Device
  <2> QED BY <1>5, <2>1, <2>2 DEF ProfilesAt
\* The device the thread is at: another device's map is another map.
<1>12. ASSUME pc[e] \in {"visit", "resolve", "install"}
       PROVE  /\ queue[e] # <<>> /\ Dev(e) \in Device /\ Late(e) = Ran(queue[e])
              /\ Dev(e) \in Ran(queue[e]) /\ regmaps[Dev(e)] \in MapId
              /\ simDefaults = chosen[e]
              /\ \A d \in Device : d # Dev(e) => regmaps[d] \in MapId /\ regmaps[d] # regmaps[Dev(e)]
  <2>1. queue[e] # <<>> /\ Dev(e) \in Device /\ regmaps[Dev(e)] \in MapId
        /\ \A d \in Device : regmaps[d] \in MapId
    BY <1>2, <1>12, AtDevice
  <2>2. Dev(e) \in Ran(queue[e])
    <3>1. Dev(e) = queue[e][1] /\ 1 \in DOMAIN queue[e]
      BY <1>1, <2>1 DEF Dev
    <3> QED BY <3>1 DEF Ran
  <2>3. \A d \in Device : d # Dev(e) => regmaps[d] # regmaps[Dev(e)]
    BY <2>1 DEF SInv, Separate, Holds
  <2>4. Late(e) = Ran(queue[e]) /\ simDefaults = chosen[e]
    BY <1>2, <1>5, <1>12 DEF Late, ProfilesAt
  <2> QED BY <2>1, <2>2, <2>3, <2>4
<1>13. CASE Visit(e)
  <2>1. /\ pc[e] = "visit" /\ pc'[e] = "resolve" /\ UNCHANGED <<simDefaults, chosen, queue>>
        /\ refs'[e] = [NoRefs EXCEPT ![Dev(e)] = regmaps[Dev(e)]]
        /\ maps' = [maps EXCEPT ![regmaps[Dev(e)]].defaults = chosen[e]]
    BY <1>1, <1>13 DEF Visit
  <2> DEFINE k == regmaps[Dev(e)]
  <2>2. Dev(e)' = Dev(e) /\ Mine(e)' = k /\ Late(e)' = Late(e)
    BY <1>2, <1>5, <1>12, <2>1 DEF Dev, Mine, NoRefs, Late, Ran
  <2>3. k \in MapId /\ chosen[e] \in Settings
    BY <1>1, <1>12, <2>1
  <2>4. maps'[k].defaults = chosen[e] /\ \A m \in MapId : m # k => maps'[m] = maps[m]
    BY <1>1, <2>1, <2>3, SetMaps
  <2>5. ProfilesAt(e)'
    BY <1>2, <1>5, <1>12, <2>1, <2>2, <2>4 DEF ProfilesAt, Settled
  <2>6. \A d \in Device : d \notin Late(e) => maps'[regmaps[d]] = maps[regmaps[d]]
    BY <1>12, <2>1, <2>4
  <2>7. \A d \in Device : d \notin Late(e) =>
          Settled(regmaps[d])' /\ (d \in crossed \cup parted \/ Resolved(regmaps[d])')
    <3>1. regmaps' = regmaps /\ simDefaults' = simDefaults
      BY <1>5, <2>1
    <3>2. ASSUME NEW d \in Device, d \notin Late(e)
          PROVE  Settled(regmaps[d])' /\ (d \in crossed \cup parted \/ Resolved(regmaps[d])')
      <4>1. /\ Settled(regmaps[d]) /\ (d \in crossed \cup parted \/ Resolved(regmaps[d]))
            /\ maps'[regmaps[d]] = maps[regmaps[d]]
        BY <1>8, <2>1, <2>6, <3>2
      <4> QED BY <3>1, <4>1 DEF Resolved, Settled
    <3> QED BY <3>2
  <2> QED BY <2>2, <2>5, <2>7
<1>14. CASE BuildProfiles(e)
  <2>1. /\ pc[e] = "resolve" /\ pc'[e] = "install"
        /\ UNCHANGED <<simDefaults, chosen, queue, refs, maps>>
        /\ built'[e] = ResolveAll(maps[Mine(e)].rows, maps[Mine(e)].defaults)
    BY <1>1, <1>14 DEF BuildProfiles, engine
  <2>2. Dev(e)' = Dev(e) /\ Mine(e)' = Mine(e) /\ Late(e)' = Late(e)
    BY <1>2, <1>5, <2>1 DEF Dev, Mine, Late, Ran
  <2>3. ProfilesAt(e)'
    BY <1>2, <1>5, <1>12, <2>1, <2>2 DEF ProfilesAt, Settled, Alone
  <2> QED BY <1>5, <1>8, <2>1, <2>2, <2>3 DEF Resolved, Settled
<1>15. CASE SwapProfiles(e)
  <2>1. /\ pc[e] = "install" /\ pc'[e] = (IF Len(queue[e]) > 1 THEN "visit" ELSE "reply")
        /\ UNCHANGED <<simDefaults, chosen, refs>> /\ queue'[e] = Tail(queue[e])
        /\ maps' = [maps EXCEPT ![Mine(e)].profiles = built[e]]
    BY <1>1, <1>2, <1>15 DEF SwapProfiles
  <2>2. Mine(e) = regmaps[Dev(e)] /\ maps[Mine(e)].defaults = simDefaults
        /\ built[e] = ResolveAll(maps[Mine(e)].rows, simDefaults)
    BY <1>2, <1>5, <2>1 DEF ProfilesAt, Settled, Alone
  <2>3. Mine(e) \in MapId /\ built[e] \in Profiles
    BY <1>1, <2>1, AtDevice
  <2>4. /\ maps'[Mine(e)].rows = maps[Mine(e)].rows /\ maps'[Mine(e)].profiles = built[e]
        /\ maps'[Mine(e)].defaults = maps[Mine(e)].defaults
        /\ \A m \in MapId : m # Mine(e) => maps'[m] = maps[m]
    BY <1>1, <2>1, <2>3, SetMaps
  <2>5. ProfilesAt(e)'
    BY <1>12, <2>1 DEF ProfilesAt
  <2>6. ASSUME NEW d \in Device, d \notin Late(e)'
        PROVE  Settled(regmaps[d])' /\ (d \in crossed \cup parted \/ Resolved(regmaps[d])')
    <3>1. CASE d = Dev(e)
      BY <1>5, <2>1, <2>2, <2>4, <3>1 DEF Resolved, Settled
    <3>2. CASE d # Dev(e)
      <4>1. Len(queue[e]) > 1 => Late(e)' = Ran(Tail(queue[e]))
        BY <2>1 DEF Late
      <4>2. d \notin Ran(queue[e])
        BY <1>1, <1>12, <2>1, <2>6, <3>2, <4>1, RanTail DEF Dev
      <4>3. maps'[regmaps[d]] = maps[regmaps[d]]
        BY <1>12, <2>1, <2>2, <2>4, <3>2
      <4> QED BY <1>5, <1>8, <1>12, <2>1, <4>2, <4>3 DEF Resolved, Settled
    <3> QED BY <3>1, <3>2
  <2> QED BY <2>5, <2>6
<1> QED BY <1>4, <1>9, <1>10, <1>11, <1>13, <1>14, <1>15

\* A thread whose devices another thread leaves alone finds their profiles as they were.
LEMMA ProfilesOthers ==
  ASSUME SInv, CrossInv, ProfilesInv, NEW e \in Editor, Moves(e), Plain(e), pc[e] # "reply", up,
         ~mixed, simDefaults' = simDefaults,
         NEW x \in Editor, x # e, Working(x) => job[x].kind # "settings"
  PROVE  ProfilesAt(x)'
<1>1. /\ pc'[x] = pc[x] /\ job'[x] = job[x] /\ built'[x] = built[x] /\ queue'[x] = queue[x]
      /\ refs'[x] = refs[x] /\ chosen'[x] = chosen[x]
  BY StepOthers DEF OthersKeep, Moves
<1>2. Dev(x)' = Dev(x) /\ Mine(x)' = Mine(x)
  BY <1>1 DEF Dev, Mine
<1>3. pc[e] \notin {"visit", "install"} \/ job[e].kind # "settings"
  BY DEF Plain
<1>4. ASSUME pc[x] \in {"check", "truncate", "write", "build", "swap", "regmap", "signals",
                        "apply", "dump", "resolve", "install"}
      PROVE  /\ Dev(x) \in Device /\ regmaps[Dev(x)] \in MapId
             /\ Dev(x) \in Hands(x) /\ job[x].kind # "settings"
             /\ pc[x] \in {"swap", "regmap", "resolve", "install"} =>
                  Mine(x) \in MapId /\ Mine(x) = refs[x][Dev(x)]
  BY <1>4, AtHands, AtDevice DEF Working
<1>5. ASSUME pc[x] \in {"check", "truncate", "write", "build", "swap", "regmap", "signals",
                        "apply", "dump", "resolve", "install"},
             Dev(x) \notin crossed'
      PROVE  /\ Dev(x) \notin crossed /\ (Dev(x) \notin parted' => Dev(x) \notin parted)
             /\ regmaps'[Dev(x)] = regmaps[Dev(x)]
             /\ maps'[regmaps[Dev(x)]] = maps[regmaps[Dev(x)]]
             /\ pc[x] \in {"swap", "regmap", "resolve", "install"} => maps'[Mine(x)] = maps[Mine(x)]
  <2>1. Dev(x) \notin crossed
    BY <1>4, <1>5, LeavesCrossed
  <2>2. Dev(x) \notin Hands(e)
    BY <1>4, <1>5, <2>1, HandsApart
  <2>3. Untouched(e, Dev(x))
    BY <1>4, <1>5, <2>2, StepLeaves DEF Moves
  <2>4. Dev(x) \notin parted' => Dev(x) \notin parted
    BY <2>2, LeavesParted, AtHands
  <2> QED BY <1>3, <1>4, <1>5, <2>1, <2>3, <2>4 DEF Untouched
<1>6. pc[x] \in {"swap", "regmap"} => maps'[Mine(x)].defaults = maps[Mine(x)].defaults
  BY <1>4, PlainKeeps DEF InUse, Moves
<1>7. ProfilesAt(x)
  BY DEF ProfilesInv
<1>8. ~ \/ pc[x] \in {"erase", "save", "visit"}
        \/ pc[x] \in {"resolve", "install"} /\ job[x].kind = "settings"
  BY DEF SInv, IInv, Threads, Kinds, Working
<1> QED BY <1>1, <1>2, <1>4, <1>5, <1>6, <1>7, <1>8 DEF ProfilesAt, Resolved, Settled, Alone

\* An answer frees only maps that nobody holds.
LEMMA ReplyProfiles ==
  ASSUME SInv, ProfilesInv, NEW e \in Editor, Moves(e), pc[e] = "reply", ~mixed'
  PROVE  ProfilesInv'
<1>1. Reply(e)
  <2>1. Step(e) /\ Kinds(e)
    BY DEF Moves, SInv, IInv, Threads
  <2> QED BY <2>1 DEF Step, Begin, BeginReload, BeginUpdate, BeginDeviceSim, BeginSignalSim,
         BeginBulkSim, BeginSettings, Ready, Accept, Reject, SwapFails, Truncate, WriteCsv, Build,
         SwapServer, SetRegmap, SetSignals, ApplySim, Iterate, ApplyMatch, Matched,
         BuildProfiles, SwapProfiles, Dump, Assign, Erase, Save, Visit
<1>2. /\ pc'[e] = "idle" /\ UNCHANGED <<up, regmaps, simDefaults>> /\ ~mixed
      /\ crossed' = crossed /\ parted' = parted
      /\ maps' = [m \in MapId |-> IF m \in Live' THEN maps[m] ELSE Blank]
  <2>1. pc'[e] = "idle" /\ pc \in [Editor -> Steps]
    BY <1>1 DEF Reply, Forget, SInv, StateOK
  <2>2. ~mixed
    BY DEF Moves, NoteMixed
  <2>3. crossed' = crossed
    BY SameCrossed DEF PutsRight
  <2>4. parted' = parted
    BY <2>1 DEF Moves, NoteParted, Fails
  <2> QED BY <1>1, <2>1, <2>2, <2>3, <2>4 DEF Reply
<1>3. up /\ \A d \in Device : regmaps[d] \in MapId
  BY AtDevice DEF Busy
<1>4. \A d \in Device : maps'[regmaps[d]] = maps[regmaps[d]]
  BY <1>2, <1>3 DEF Live
<1>5. ASSUME NEW x \in Editor, x # e
      PROVE  /\ pc'[x] = pc[x] /\ job'[x] = job[x] /\ built'[x] = built[x] /\ refs'[x] = refs[x]
             /\ chosen'[x] = chosen[x] /\ Dev(x)' = Dev(x) /\ Mine(x)' = Mine(x)
             /\ Hands(x)' = Hands(x) /\ Late(x)' = Late(x)
  <2>1. OthersKeep(e)
    BY StepOthers DEF Moves
  <2>2. Hands(x)' = Hands(x)
    BY <1>5, <2>1, HandsOthers
  <2>3. /\ pc'[x] = pc[x] /\ job'[x] = job[x] /\ built'[x] = built[x] /\ refs'[x] = refs[x]
        /\ chosen'[x] = chosen[x] /\ queue'[x] = queue[x]
    BY <1>5, <2>1 DEF OthersKeep
  <2>4. Dev(x)' = Dev(x) /\ Mine(x)' = Mine(x)
    BY <2>3 DEF Dev, Mine
  <2>5. Late(x)' = Late(x)
    BY <2>2, <2>3, <2>4 DEF Late, Ran
  <2> QED BY <2>2, <2>3, <2>4, <2>5
<1>6. Hands(e) = {} /\ Hands(e)' = {} /\ Late(e) = {} /\ Late(e)' = {}
  BY <1>2 DEF Hands, Late
<1>7. ASSUME NEW x \in Editor PROVE ProfilesAt(x)'
  <2>1. CASE x = e
    BY <1>2, <2>1 DEF ProfilesAt
  <2>2. CASE x # e
    <3>1. pc[x] \in {"swap", "regmap", "resolve", "install"} => maps'[Mine(x)] = maps[Mine(x)]
      <4>1. pc[x] \in {"swap", "regmap", "resolve", "install"} =>
              Dev(x) \in Device /\ Mine(x) \in MapId /\ Mine(x) = refs[x][Dev(x)]
        BY AtDevice
      <4> QED BY <1>2, <1>5, <2>2, <4>1 DEF Live
    <3>2. pc[x] \in {"check", "truncate", "write", "build", "swap", "regmap", "signals", "apply",
                     "resolve", "install", "dump", "visit"} => Dev(x) \in Device
      BY AtDevice
    <3>3. ProfilesAt(x)
      BY <1>2, <1>3 DEF ProfilesInv
    <3> QED BY <1>2, <1>4, <1>5, <2>2, <3>1, <3>2, <3>3 DEF ProfilesAt, Resolved, Settled, Alone
  <2> QED BY <2>1, <2>2
<1>8. \A d \in Device : (Resolved(regmaps[d])' <=> Resolved(regmaps[d]))
                        /\ (Settled(regmaps[d])' <=> Settled(regmaps[d]))
  BY <1>2, <1>4 DEF Resolved, Settled
<1>9. \A x \in Editor : Hands(x)' = Hands(x) /\ Late(x)' = Late(x)
  BY <1>5, <1>6
<1> QED BY <1>2, <1>3, <1>7, <1>8, <1>9 DEF ProfilesInv

LEMMA ProfilesStep ==
  ASSUME SInv, SInv', CrossInv, MixInv, RowsInv, ProfilesInv, NEW e \in Editor, Moves(e)
  PROVE  ProfilesInv'
<1>1. CASE mixed'
  BY <1>1 DEF ProfilesInv
<1>2. CASE ~mixed' /\ ~Plain(e)
  BY <1>2, SettingsProfiles
<1>3. CASE ~mixed' /\ pc[e] = "reply"
  BY <1>3, ReplyProfiles
<1>4. CASE ~mixed' /\ Plain(e) /\ pc[e] # "reply"
  <2>1. /\ up /\ up' = up /\ simDefaults' = simDefaults /\ ~mixed
        /\ \A x \in Editor : Late(x) = {} /\ Late(x)' = {}
        /\ \A x \in Editor \ {e} : Working(x) => job[x].kind # "settings"
    BY <1>4, PlainStep
  <2>2. Step(e) /\ (pc[e] = "idle" \/ job[e].kind # "settings")
    BY <1>4 DEF Plain, Moves
  <2>3. ProfilesAt(e)' /\ Moved(e)
    <3>1. ASSUME NEW j \in Jobs[e], Begin(e, j) PROVE ProfilesAt(e)' /\ Moved(e)
      BY <2>1, <3>1, BeginProfiles
    <3>2. CASE \/ Accept(e) \/ Reject(e) \/ SwapFails(e) \/ Build(e)
               \/ SwapServer(e) \/ SetRegmap(e) \/ SetSignals(e)
      BY <2>1, <3>2, ReloadProfiles
    <3>3. CASE Truncate(e) \/ WriteCsv(e)
      BY <2>1, <3>3, FileProfiles
    <3>4. CASE \/ ApplySim(e) \/ Iterate(e) \/ ApplyMatch(e) \/ Matched(e)
               \/ BuildProfiles(e) \/ SwapProfiles(e) \/ Dump(e)
      <4>1. pc[e] \notin {"idle", "reply"}
        BY <3>4 DEF ApplySim, Iterate, ApplyMatch, Matched, BuildProfiles, SwapProfiles, Dump
      <4> QED BY <2>1, <2>2, <3>4, <4>1, SimProfiles
    <3>5. ~(Assign(e) \/ Erase(e) \/ Save(e) \/ Visit(e) \/ Reply(e))
      BY <1>4 DEF Assign, Erase, Save, Visit, Reply, Plain, SInv, IInv, Threads, Kinds
    <3> QED BY <2>2, <3>1, <3>2, <3>3, <3>4, <3>5 DEF Step
  <2>4. \A x \in Editor : ProfilesAt(x)'
    BY <1>4, <2>1, <2>3, ProfilesOthers
  <2>5. \A d \in Device : Settled(regmaps[d])'
    BY <1>4, <2>1, <2>2, PlainSettled DEF Settled
  <2>6. ASSUME NEW d \in Device, d \notin (crossed \cup parted)',
               \A x \in Editor : d \notin Hands(x)'
        PROVE  Resolved(regmaps[d])'
    <3>1. CASE d \in Hands(e)
      BY <2>3, <2>6, <3>1 DEF Moved
    <3>2. CASE d \notin Hands(e)
      <4>1. \A x \in Editor : d \notin Hands(x)
        BY <2>2, <2>6, <3>2, StepOthers, HandsOthers
      <4>2. d \notin crossed /\ d \notin parted
        BY <2>6, <3>2, LeavesCrossed, LeavesParted, AtHands
      <4>3. Resolved(regmaps[d]) /\ Untouched(e, d) /\ regmaps[d] \in MapId
        BY <2>1, <2>2, <3>2, <4>1, <4>2, StepLeaves, AtDevice DEF ProfilesInv
      <4>4. pc[e] \notin {"visit", "install"} \/ job[e].kind # "settings"
        BY <2>2
      <4> QED BY <2>1, <4>3, <4>4 DEF Resolved, Untouched
    <3> QED BY <3>1, <3>2
  <2> QED BY <2>4, <2>5, <2>6 DEF ProfilesInv
<1> QED BY <1>1, <1>2, <1>3, <1>4 DEF Plain

\* A process that starts builds its maps with the settings it starts with.
LEMMA ProfilesOutside ==
  ASSUME SInv, ProfilesInv,
         Crash \/ Restore \/ (\E d \in Device : Reupload(d)) \/ UNCHANGED vars
  PROVE  ProfilesInv'
<1>1. CASE Crash
  BY <1>1 DEF Crash, ProfilesInv
<1>2. CASE Restore
  <2>1. \A e \in Editor : pc'[e] = "idle"
    BY <1>2 DEF Restore, locals, SInv, IInv, Running
  <2>2. \A d \in Device : Resolved(regmaps[d])' /\ Settled(regmaps[d])'
    <3>1. \A d \in Device : MapOf(d) \in DOMAIN Devices /\ Devices[MapOf(d)] = d /\ MapOf(d) \in MapId
      BY DevicesFit DEF MapOf, Device
    <3>2. \A d \in Device : csv[d] \in Rows
      BY <1>2 DEF Restore, Usable, SInv, StateOK
    <3>3. LoadDefaults(simFile) \in Settings /\ simDefaults' = LoadDefaults(simFile)
      BY <1>2, DefaultsType DEF Restore, Loaded, LoadDefaults, SInv, StateOK
    <3>4. \A d \in Device : regmaps'[d] = MapOf(d)
                            /\ maps'[MapOf(d)] = NewMap(csv[d], LoadDefaults(simFile))
      BY <1>2, <3>1 DEF Restore, Loaded
    <3> QED BY <3>2, <3>3, <3>4, NewMapType DEF Resolved, Settled
  <2> QED BY <2>1, <2>2 DEF ProfilesInv, ProfilesAt
<1>3. CASE \E d \in Device : Reupload(d)
  BY <1>3 DEF Reupload, engine, ProfilesInv
<1>4. CASE UNCHANGED vars
  <2>1. /\ \A d \in Device : (Resolved(regmaps[d])' <=> Resolved(regmaps[d]))
                             /\ (Settled(regmaps[d])' <=> Settled(regmaps[d]))
        /\ \A e \in Editor : Hands(e)' = Hands(e) /\ Late(e)' = Late(e)
                             /\ (ProfilesAt(e)' <=> ProfilesAt(e))
    BY <1>4 DEF vars, Resolved, Settled, Hands, Late, Ran, ProfilesAt, Dev, Mine, Alone
  <2> QED BY <1>4, <2>1 DEF ProfilesInv, vars
<1> QED BY <1>1, <1>2, <1>3, <1>4

\* The engine and the server hold one map, but for a reload that will give both its own.
Replaces(e, d) ==
  /\ job[e].kind \in Reloads /\ job[e].dev = d
  /\ \/ pc[e] \in {"truncate", "write", "build", "swap"} /\ Servable(rows[e])
     \/ pc[e] = "regmap"
ApartInv ==
  /\ up => \A d \in Device \ crossed : server[d] = regmaps[d] \/ \E e \in Editor : Replaces(e, d)
  /\ \A e \in Editor : pc[e] = "regmap" /\ Dev(e) \notin crossed => server[Dev(e)] = Mine(e)

LEMMA ApartStep ==
  ASSUME SInv, CrossInv, RowsInv, ApartInv, NEW e \in Editor, Moves(e) PROVE ApartInv'
<1> USE DEF Go, Goes
<1>0. Step(e)
  BY DEF Moves
<1>1. /\ pc \in [Editor -> Steps] /\ queue \in [Editor -> Seq(Device)] /\ DOMAIN job = Editor
      /\ regmaps \in [Device -> MapId \cup {NoMap}]
      /\ server \in [Device -> MapId \cup {NoMap}]
  BY DEF SInv, StateOK
<1>2. ASSUME NEW x \in Editor, x # e
      PROVE  /\ pc'[x] = pc[x] /\ job'[x] = job[x] /\ rows'[x] = rows[x]
             /\ Dev(x)' = Dev(x) /\ Mine(x)' = Mine(x)
             /\ \A d : Replaces(x, d)' <=> Replaces(x, d)
  BY <1>0, <1>2, StepOthers DEF OthersKeep, Dev, Mine, Replaces
\* What another thread is replacing, e does not touch.
<1>3. ASSUME NEW x \in Editor, x # e, pc[x] = "regmap", Dev(x) \notin crossed'
      PROVE  Dev(x) \notin crossed /\ Dev(x) \notin Hands(e) /\ Dev(x) \in Device
  <2>1. Dev(x) \in Hands(x) /\ Dev(x) \in Device
    BY <1>3, AtHands
  <2>2. Dev(x) \notin crossed
    BY <1>3, <2>1, LeavesCrossed
  <2> QED BY <1>3, <2>1, <2>2, HandsApart
\* It is enough to look at what a step does to the devices in its own hands.
<1>4. SUFFICES
        /\ up' => up
        /\ \A d \in Device : d \notin Hands(e) => server'[d] = server[d] /\ regmaps'[d] = regmaps[d]
        /\ \A d \in Device \ crossed' :
             \/ Replaces(e, d)' \/ server'[d] = regmaps'[d]
             \/ server'[d] = server[d] /\ regmaps'[d] = regmaps[d] /\ ~Replaces(e, d)
                /\ d \notin crossed
        /\ pc'[e] = "regmap" /\ (Dev(e) \notin crossed)' => server'[Dev(e)'] = Mine(e)'
  <2>1. ASSUME up', NEW d \in Device, d \notin crossed'
        PROVE  server'[d] = regmaps'[d] \/ \E x \in Editor : Replaces(x, d)'
    BY <1>2, <1>4, <2>1 DEF ApartInv
  <2>2. ASSUME NEW x \in Editor, pc'[x] = "regmap", (Dev(x) \notin crossed)'
        PROVE  server'[Dev(x)'] = Mine(x)'
    <3>1. CASE x = e
      BY <1>4, <2>2, <3>1
    <3>2. CASE x # e
      BY <1>2, <1>3, <1>4, <2>2, <3>2 DEF ApartInv
    <3> QED BY <3>1, <3>2
  <2> QED BY <2>1, <2>2 DEF ApartInv
<1>5. up' => up
  BY <1>0, AtDevice DEF Step, Begin, BeginReload, BeginUpdate, BeginDeviceSim, BeginSignalSim,
         BeginBulkSim, BeginSettings, Accept, Reject, SwapFails, Truncate, WriteCsv, Build,
         SwapServer, SetRegmap, SetSignals, ApplySim, Iterate, ApplyMatch, Matched, BuildProfiles,
         SwapProfiles, Dump, Assign, Erase, Save, Visit, Reply, Ready, engine, Busy
\* A step that changes neither map.
<1>6. ASSUME UNCHANGED <<server, regmaps>>, pc'[e] # "regmap",
             \A d \in Device \ crossed' :
               Replaces(e, d)' \/ (~Replaces(e, d) /\ d \notin crossed)
      PROVE  /\ \A d \in Device : d \notin Hands(e) => server'[d] = server[d] /\ regmaps'[d] = regmaps[d]
             /\ \A d \in Device \ crossed' :
                  \/ Replaces(e, d)' \/ server'[d] = regmaps'[d]
                  \/ server'[d] = server[d] /\ regmaps'[d] = regmaps[d] /\ ~Replaces(e, d)
                     /\ d \notin crossed
             /\ pc'[e] = "regmap" /\ (Dev(e) \notin crossed)' => server'[Dev(e)'] = Mine(e)'
  BY <1>6
<1>7. \A d \in Device \ crossed' : d \notin crossed \/ (PutsRight(e) /\ d = Dev(e))
  BY LeavesCrossed
<1>8. ASSUME pc[e] \in {"swap", "regmap", "truncate", "write", "build", "check"}
      PROVE  Dev(e) \in Hands(e) /\ Dev(e) \in Device
  BY <1>8, AtHands
<1>9. CASE Accept(e)
  <2>1. /\ pc[e] = "check" /\ pc'[e] = "truncate" /\ UNCHANGED <<server, regmaps, job, rows>>
    BY <1>1, <1>9 DEF Accept, engine
  <2>2. job[e].kind \in ForOne
    BY <2>1 DEF SInv, IInv, Threads, Kinds, ForOne
  <2>3. Dev(e) = job[e].dev
    BY <2>1, <2>2 DEF SInv, Placed, Dev
  <2>4. \A d \in Device \ crossed' :
          Replaces(e, d)' \/ (~Replaces(e, d) /\ d \notin crossed)
    BY <1>7, <2>1, <2>3 DEF Replaces, PutsRight, Reloads, Servable
  <2> QED BY <1>5, <1>6, <2>1, <2>4
<1>10. CASE \/ Truncate(e) \/ Build(e) \/ WriteCsv(e)
  <2>1. /\ pc[e] \in {"truncate", "write", "build"} /\ UNCHANGED <<server, regmaps, job, rows>>
        /\ pc'[e] \in {"write", "build", "swap", "resolve", "reply"}
        /\ job[e].kind \in Reloads => pc'[e] \in {"write", "build", "swap"}
    BY <1>1, <1>10 DEF Truncate, Build, WriteCsv, engine
  <2>2. \A d \in Device \ crossed' :
          Replaces(e, d)' \/ (~Replaces(e, d) /\ d \notin crossed)
    BY <1>7, <2>1 DEF Replaces, PutsRight, Servable
  <2> QED BY <1>5, <1>6, <2>1, <2>2
<1>11. CASE SwapFails(e)
  <2>1. /\ pc[e] = "swap" /\ pc'[e] = "reply" /\ UNCHANGED <<server, regmaps>>
        /\ ~Servable(maps[Mine(e)].rows)
    BY <1>1, <1>11 DEF SwapFails, engine
  <2>2. Dev(e) = job[e].dev
    BY <2>1, SwapsAt
  <2>3. Dev(e) \notin crossed => maps[Mine(e)].rows = rows[e]
    BY <2>1, AtDevice DEF RowsInv, RowsAt, Busy
  <2>4. \A d \in Device \ crossed' : ~Replaces(e, d) /\ d \notin crossed
    BY <1>7, <2>1, <2>2, <2>3 DEF Replaces, PutsRight
  <2> QED BY <1>5, <1>6, <2>1, <2>4
<1>12. CASE SwapServer(e)
  <2>1. /\ pc[e] = "swap" /\ pc'[e] = "regmap" /\ job' = job /\ regmaps' = regmaps
        /\ Dev(e)' = Dev(e) /\ Mine(e)' = Mine(e)
        /\ server' = [server EXCEPT ![Dev(e)] = Mine(e)]
    BY <1>1, <1>12 DEF SwapServer, Dev, Mine
  <2>2. Dev(e) = job[e].dev /\ job[e].kind \in Reloads
    BY <2>1, SwapsAt DEF SInv, IInv, Threads, Kinds
  <2>3. \A d \in Device \ crossed' : d \notin crossed
    BY <1>7, <2>1 DEF PutsRight
  <2>4. ASSUME NEW d \in Device \ crossed'
        PROVE  \/ Replaces(e, d)'
               \/ server'[d] = server[d] /\ regmaps'[d] = regmaps[d] /\ ~Replaces(e, d)
                  /\ d \notin crossed
    BY <1>1, <2>1, <2>2, <2>3 DEF Replaces
  <2> QED BY <1>1, <1>5, <1>8, <2>1, <2>4
<1>13. CASE SetRegmap(e)
  <2>1. /\ pc[e] = "regmap" /\ pc'[e] = "signals" /\ server' = server
        /\ regmaps' = [regmaps EXCEPT ![Dev(e)] = Mine(e)]
    BY <1>1, <1>13 DEF SetRegmap
  <2>2. Dev(e) = job[e].dev
    BY <2>1, SwapsAt
  <2>3. \A d \in Device \ crossed' : d \notin crossed
    BY <1>7, <2>1 DEF PutsRight
  <2>4. Dev(e) \notin crossed => server[Dev(e)] = Mine(e)
    BY <2>1 DEF ApartInv
  <2>5. ASSUME NEW d \in Device \ crossed'
        PROVE  \/ server'[d] = regmaps'[d]
               \/ server'[d] = server[d] /\ regmaps'[d] = regmaps[d] /\ ~Replaces(e, d)
                  /\ d \notin crossed
    BY <1>1, <2>1, <2>2, <2>3, <2>4 DEF Replaces
  <2> QED BY <1>1, <1>5, <1>8, <2>1, <2>5
<1>14. CASE ~ \/ Accept(e) \/ Truncate(e) \/ Build(e) \/ WriteCsv(e) \/ SwapFails(e)
              \/ SwapServer(e) \/ SetRegmap(e)
  <2>1. /\ UNCHANGED <<server, regmaps>>
        /\ pc'[e] \notin {"regmap", "truncate"} \/ Dump(e)
    BY <1>0, <1>1, <1>14 DEF Step, Begin, BeginReload, BeginUpdate, BeginDeviceSim, BeginSignalSim,
         BeginBulkSim, BeginSettings, Reject, SetSignals, ApplySim, Iterate, ApplyMatch, Matched,
         BuildProfiles, SwapProfiles, Dump, Assign, Erase, Save, Visit, Reply, Forget, engine
  <2>2. pc'[e] # "regmap" /\ ~PutsRight(e)
    BY <1>1, <2>1 DEF Dump, PutsRight
  <2>3. pc[e] \notin {"truncate", "write", "build", "swap", "regmap"}
    BY <1>0, <1>14 DEF Step, Begin, BeginReload, BeginUpdate, BeginDeviceSim, BeginSignalSim,
         BeginBulkSim, BeginSettings, Ready, Reject, SetSignals, ApplySim, Iterate, ApplyMatch,
         Matched, BuildProfiles, SwapProfiles, Dump, Assign, Erase, Save, Visit, Reply
  <2>4. \A d \in Device \ crossed' : ~Replaces(e, d) /\ d \notin crossed
    BY <1>7, <2>2, <2>3 DEF Replaces
  <2> QED BY <1>5, <1>6, <2>1, <2>2, <2>4
<1> QED BY <1>9, <1>10, <1>11, <1>12, <1>13, <1>14

LEMMA ApartOutside ==
  ASSUME SInv, ApartInv, Crash \/ Restore \/ (\E d \in Device : Reupload(d)) \/ UNCHANGED vars
  PROVE  ApartInv'
<1>1. CASE Crash
  BY <1>1 DEF Crash, ApartInv
<1>2. CASE Restore
  <2>1. \A e \in Editor : pc'[e] = "idle"
    BY <1>2 DEF Restore, locals, SInv, IInv, Running
  <2> QED BY <1>2, <2>1 DEF Restore, Loaded, ApartInv
<1>3. CASE \E d \in Device : Reupload(d)
  BY <1>3 DEF Reupload, engine, locals, history, ApartInv, Replaces, Mine, Dev
<1>4. CASE UNCHANGED vars
  BY <1>4 DEF vars, ApartInv, Replaces, Mine, Dev
<1> QED BY <1>1, <1>2, <1>3, <1>4

\* Between edits, what moves is what the signals' own fields and the settings in force say:
\* whatever requests come, if those of the device have not crossed, the last did not fail
\* half-way, and no set_simulation has crossed another request since one ran alone.
THEOREM ProfilesFollow == Spec => []ProfilesCurrent
<1>1. Init => ProfilesInv /\ ApartInv
  <2> SUFFICES ASSUME Init PROVE ProfilesInv /\ ApartInv
    OBVIOUS
  <2>1. \A d \in Device : MapOf(d) \in DOMAIN Devices /\ Devices[MapOf(d)] = d /\ MapOf(d) \in MapId
    BY DevicesFit DEF MapOf, Device
  <2>2. simFile \in Settings /\ simDefaults = simFile /\ \A d \in Device : csv[d] \in Rows
    BY HotReloadAssumption DEF Init
  <2>3. \A d \in Device : regmaps[d] = MapOf(d) /\ maps[MapOf(d)] = NewMap(csv[d], simFile)
    BY <2>1 DEF Init
  <2>4. \A d \in Device : Resolved(regmaps[d]) /\ Settled(regmaps[d])
    BY <2>2, <2>3, NewMapType DEF Resolved, Settled
  <2> QED BY <2>4 DEF Init, ProfilesInv, ProfilesAt, ApartInv
<1>2. SInv /\ SInv' /\ (CrossInv /\ MixInv) /\ (RowsInv /\ EditInv) /\ (ProfilesInv /\ ApartInv)
        /\ [Next]_vars => (ProfilesInv /\ ApartInv)'
  BY ProfilesStep, ProfilesOutside, ApartStep, ApartOutside DEF Next, Moves
<1>3. SInv /\ (ProfilesInv /\ ApartInv) => ProfilesCurrent
  <2> SUFFICES ASSUME SInv, ApartInv, ProfilesInv, up, ~mixed,
                      NEW d \in Device \ (crossed \cup parted), Quiet(d)
               PROVE  maps[server[d]].profiles = ResolveAll(maps[server[d]].rows, simDefaults)
    BY DEF ProfilesCurrent
  <2>1. ~ \E e \in Editor : Replaces(e, d)
    BY DEF Quiet, Replaces, Busy
  <2>2. server[d] = regmaps[d]
    BY <2>1 DEF ApartInv
  <2>3. \A e \in Editor : d \notin Hands(e) \cup Late(e)
    <3>1. ASSUME NEW e \in Editor PROVE d \notin Late(e)
      BY LateSettings DEF Quiet
    <3> QED BY <3>1, QuietHands
  <2> QED BY <2>2, <2>3 DEF ProfilesInv, Resolved
<1> QED BY <1>1, <1>2, <1>3, SInvAlways, HistoryAlways, RowsAlways, PTL DEF Spec
=============================================================================
