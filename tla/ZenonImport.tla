----------------------------- MODULE ZenonImport -----------------------------
(***************************************************************************)
(* The import of a Zenon variable export: parse_file, generate_signal_csv  *)
(* and generate_config_yaml (import/zenon_csv.py), and the two requests of *)
(* api_server.py that use them.  The first parses an export for display    *)
(* and keeps it in zenon_import.tmp; the second parses that file again,    *)
(* locks the config it generates and then uploads the signals it generates *)
(* device by device.                                                       *)
(*                                                                         *)
(* What the engine accepts is said by ConfigRules and SignalRules, to      *)
(* which ConfigLoader and SignalLoader are shown to be exact.  An upload   *)
(* is one step here; EngineLifecycle has its parts.                        *)
(***************************************************************************)
EXTENDS SignalRules, SequencesExt

CONSTANTS
  Tab,        \* clients
  Importer,   \* those that also generate; the others only parse
  Driver,     \* driver names
  Exports,    \* the exports that may be uploaded
  Forms,    \* the device lists that may be submitted
  Id, TextId, Ip, Path,  \* as in ConfigRules
  YamlId(_),  \* what YAML makes of an id written without quotes
  None

INSTANCE ConfigRules

ZenonTypes == {"UDINT", "DINT", "UINT", "INT", "SINT", "USINT", "BOOL", "FLOAT",
               "REAL", "WORD", "DWORD", "LINT"}
\* A row of an export.
Variable == [modbus : BOOLEAN,  \* its driver's type or name has MODBUS in it
             driver : Driver, net : Int \cup {Bad}, name : Name \cup {Empty},
             type : ZenonTypes \cup {Bad}, offset : Int \cup {Bad},
             hw : {8, 64, Bad}, bit : Int \cup {Bad}]
\* What the client fills in for a device; absent ports and orders are defaults.
Entry == [driver : Driver, net : Int, id : TextId \cup {Empty},
          ip : Ip \cup {Empty, Bad}, port : Int, unit_id : Int \cup {Empty},
          word_order : WordOrders \cup {Bad}]

ASSUME ImportAssumption ==
  /\ Importer \subseteq Tab
  /\ Exports \subseteq Seq(Variable) /\ Forms \subseteq Seq(Entry)
  /\ TextId \subseteq Path
  /\ Bad \notin Int \cup WordOrders \cup {Empty, "number", "0"}
  \* A text without quotes is read as itself or as something that is no text.
  /\ \A id \in TextId : YamlId(id) \in {id} \cup (Id \ TextId)
  /\ None # <<>> /\ \A file \in Exports : \A S \in SUBSET DOMAIN file : None \notin [S -> Row]

VARIABLES
  pc, entries, export, todo,  \* each tab's request: what it was sent, what it
                              \* parsed, and the entries it has not uploaded yet
  state, config, signals,     \* the engine; config is None unless locked
  tmp                         \* zenon_import.tmp

engine == <<state, config, signals>>
vars == <<pc, entries, export, todo, state, config, signals, tmp>>

TypeOK ==
  /\ pc \in [Tab -> {"idle", "parsed", "read", "config", "signals", "unlink"}]
  /\ entries \in [Tab -> Forms \cup {<<>>}]
  /\ export \in [Tab -> Exports \cup {<<>>}]
  /\ \A t \in Tab : IsSuffix(todo[t], entries[t])
  /\ state \in {"SETUP", "RUNNING"}
  /\ config # None => LegalDevices(config)
  /\ \A i \in Path : signals[i] # None => Legal(signals[i])
  /\ tmp \in Exports \cup {None}

Init ==
  /\ pc = [t \in Tab |-> "idle"] /\ entries = [t \in Tab |-> <<>>]
  /\ export = [t \in Tab |-> <<>>] /\ todo = [t \in Tab |-> <<>>]
  /\ state = "SETUP" /\ config = None /\ signals = [i \in Path |-> None]
  /\ tmp = None

-----------------------------------------------------------------------------
(***************************************************************************)
(* zenon_csv.py.                                                           *)
(***************************************************************************)
\* TYPE_MAP
DataType(type) ==
  CASE type \in {"UDINT", "DWORD"} -> "uint32"
    [] type \in {"DINT", "LINT"} -> "int32"
    [] type \in {"UINT", "USINT", "WORD"} -> "uint16"
    [] type \in {"INT", "SINT"} -> "int16"
    [] type \in {"FLOAT", "REAL"} -> "float32"
    [] type = "BOOL" -> "bool"

\* The rows that are not skipped, and the device one belongs to.
Kept(v) ==
  v.modbus /\ v.type # Bad /\ v.name # Empty /\ v.net # Bad /\ v.offset # Bad
KeyOf(v) == <<v.driver, v.net>>
Devices(file) == {KeyOf(file[i]) : i \in {j \in DOMAIN file : Kept(file[j])}}

\* Faulty variant: the word order is left out for a LINT.
CsvRowShortLint(v, order) ==
  [name |-> v.name, register_type |-> IF v.hw = 64 THEN "input" ELSE "holding",
   address |-> v.offset, data_type |-> DataType(v.type),
   bit_index |-> IF v.type # "BOOL" THEN Empty ELSE IF v.bit = Bad THEN 0 ELSE v.bit,
   word_order |-> IF v.type \in {"UDINT", "DWORD", "DINT"} THEN order ELSE Empty,
   scale |-> "number", default_value |-> "0"]

\* A row as generate_signal_csv writes it.
CsvRow(v, order) ==
  [name |-> v.name, register_type |-> IF v.hw = 64 THEN "input" ELSE "holding",
   address |-> v.offset, data_type |-> DataType(v.type),
   bit_index |-> IF v.type # "BOOL" THEN Empty ELSE IF v.bit = Bad THEN 0 ELSE v.bit,
   word_order |-> IF DataType(v.type) \in WideTypes THEN order ELSE Empty,
   scale |-> "number", default_value |-> "0"]
\* The file of a device: its rows, each in the place of its variable.
Csv(file, e) ==
  [i \in {j \in DOMAIN file : Kept(file[j]) /\ KeyOf(file[j]) = <<e.driver, e.net>>} |->
     CsvRow(file[i], e.word_order)]

\* generate_config_yaml, read back: the last entry of a device speaks for it.
LastOf(es, i) ==
  Max({j \in DOMAIN es : es[j].driver = es[i].driver /\ es[j].net = es[i].net})
Yaml(es) ==
  [i \in DOMAIN es |->
     LET p == es[LastOf(es, i)]
     IN [id |-> YamlId(p.id), name |-> "name", ip |-> p.ip, port |-> p.port,
         unit_id |-> p.unit_id, vlan |-> 0, prefix_length |-> 24,
         signals_file |-> p.id]]

(***************************************************************************)
(* POST /api/import/zenon/parse                                            *)
(***************************************************************************)
Open == state = "SETUP" /\ config = None

Parse(t, file) ==
  /\ pc[t] = "idle" /\ Open
  /\ pc' = [pc EXCEPT ![t] = "parsed"]
  /\ export' = [export EXCEPT ![t] = file]
  /\ UNCHANGED <<entries, todo, engine, tmp>>

\* What was parsed is kept for a later request, and summarised in the answer.
Keep(t) ==
  /\ pc[t] = "parsed"
  /\ tmp' = export[t]
  /\ pc' = [pc EXCEPT ![t] = "idle"]
  /\ export' = [export EXCEPT ![t] = <<>>]
  /\ UNCHANGED <<entries, todo, engine>>

(***************************************************************************)
(* POST /api/import/zenon/generate                                         *)
(***************************************************************************)
Fails(t) ==
  /\ pc' = [pc EXCEPT ![t] = "idle"] /\ todo' = [todo EXCEPT ![t] = <<>>]
  /\ UNCHANGED <<entries, export>>

Generate(t, es) ==
  /\ pc[t] = "idle" /\ Open /\ tmp # None
  /\ es # <<>>
  /\ pc' = [pc EXCEPT ![t] = "read"]
  /\ entries' = [entries EXCEPT ![t] = es]
  /\ UNCHANGED <<export, todo, engine, tmp>>

\* driver_errors
EntryValid(file, e) ==
  /\ e.ip # Empty /\ e.id # Empty /\ e.unit_id \in 1 .. 255
  /\ <<e.driver, e.net>> \in Devices(file)

\* The export is the one parsed last, by whichever tab; it may be gone.
Read(t) ==
  /\ pc[t] = "read"
  /\ \/ tmp = None /\ Fails(t)
     \/ /\ tmp # None
        /\ \E i \in DOMAIN entries[t] : ~EntryValid(tmp, entries[t][i])
        /\ Fails(t)
     \/ /\ tmp # None
        /\ \A i \in DOMAIN entries[t] : EntryValid(tmp, entries[t][i])
        /\ pc' = [pc EXCEPT ![t] = "config"]
        /\ export' = [export EXCEPT ![t] = tmp]
        /\ UNCHANGED <<entries, todo>>
  /\ UNCHANGED <<engine, tmp>>

\* upload_config: from here on the project is locked.
UploadConfig(t) ==
  /\ pc[t] = "config"
  /\ IF Open /\ LegalDevices(Yaml(entries[t]))
     THEN /\ config' = Yaml(entries[t])
          /\ pc' = [pc EXCEPT ![t] = "signals"]
          /\ todo' = [todo EXCEPT ![t] = entries[t]]
          /\ UNCHANGED <<entries, export>>
     ELSE Fails(t) /\ UNCHANGED config
  /\ UNCHANGED <<state, signals, tmp>>

\* What upload_signals asks for.
Uploads(id, rows) ==
  /\ state = "SETUP" /\ config # None
  /\ \E i \in DOMAIN config : config[i].id = id
  /\ Legal(rows)

Next1(t) == Head(todo[t])
Rows(t) == Csv(export[t], Next1(t))

\* Faulty variant: a device that is refused is passed over.
UploadOrSkip(t) ==
  /\ pc[t] = "signals" /\ todo[t] # <<>>
  /\ signals' = IF Uploads(Next1(t).id, Rows(t))
                THEN [signals EXCEPT ![Next1(t).id] = Rows(t)] ELSE signals
  /\ todo' = [todo EXCEPT ![t] = Tail(@)]
  /\ UNCHANGED <<pc, entries, export, state, config, tmp>>

\* The next device's signals; one that is refused ends the request.
UploadSignals(t) ==
  /\ pc[t] = "signals" /\ todo[t] # <<>>
  /\ IF Uploads(Next1(t).id, Rows(t))
     THEN /\ signals' = [signals EXCEPT ![Next1(t).id] = Rows(t)]
          /\ todo' = [todo EXCEPT ![t] = Tail(@)]
          /\ UNCHANGED <<pc, entries, export>>
     ELSE Fails(t) /\ UNCHANGED signals
  /\ UNCHANGED <<state, config, tmp>>

\* Faulty variant: the last device is left out.
UploadedButLast(t) ==
  /\ pc[t] = "signals" /\ Len(todo[t]) = 1
  /\ pc' = [pc EXCEPT ![t] = "unlink"]
  /\ todo' = [todo EXCEPT ![t] = <<>>]
  /\ UNCHANGED <<entries, export, engine, tmp>>

Uploaded(t) ==
  /\ pc[t] = "signals" /\ todo[t] = <<>>
  /\ pc' = [pc EXCEPT ![t] = "unlink"]
  /\ UNCHANGED <<entries, export, todo, engine, tmp>>

\* "ready_to_start": True
Unlink(t) ==
  /\ pc[t] = "unlink"
  /\ tmp' = None
  /\ pc' = [pc EXCEPT ![t] = "idle"]
  /\ UNCHANGED <<entries, export, todo, engine>>

(***************************************************************************)
(* Other requests: signals are uploaded by hand, and the simulation is     *)
(* started, and reset, which leaves the kept export where it is.           *)
(***************************************************************************)
Loaded == \A i \in DOMAIN config : config[i].id \in Path /\ signals[config[i].id] # None

UploadByHand(id) ==
  /\ Uploads(id, <<>>)
  /\ signals' = [signals EXCEPT ![id] = <<>>]
  /\ UNCHANGED <<pc, entries, export, todo, state, config, tmp>>

Start ==
  /\ state = "SETUP" /\ config # None /\ Loaded
  /\ state' = "RUNNING"
  /\ UNCHANGED <<pc, entries, export, todo, config, signals, tmp>>

Reset ==
  /\ state = "RUNNING"
  /\ state' = "SETUP" /\ config' = None /\ signals' = [i \in Path |-> None]
  /\ UNCHANGED <<pc, entries, export, todo, tmp>>

Next ==
  \/ \E t \in Tab : \/ \E file \in Exports : Parse(t, file)
                    \/ Keep(t)
  \/ \E t \in Importer : \/ \E es \in Forms : Generate(t, es)
                         \/ Read(t) \/ UploadConfig(t) \/ UploadSignals(t)
                         \/ Uploaded(t) \/ Unlink(t)
  \/ Start \/ Reset \/ \E id \in TextId : UploadByHand(id)

Spec == Init /\ [][Next]_vars

-----------------------------------------------------------------------------
(***************************************************************************)
(* Properties.                                                             *)
(***************************************************************************)
\* "ready_to_start" is true: when an import is through, every device of the
\* project it made has its signals, unless the project was reset meanwhile.
AnswerReady ==
  \A t \in Importer : pc[t] = "unlink" /\ config # None => Loaded

\* An import that fails after it has locked the project, which no client can
\* undo, fails for what the export or the form says and not for anything the
\* import does: a device without signals has rows that break a rule of signal
\* files, or comes after one that does, or after an id that YAML reads otherwise.
PendingForCause ==
  \A t \in Importer :
    pc[t] = "idle" /\ config # None /\ ~Loaded =>
      \E i \in DOMAIN entries[t] :
        /\ \A j \in 1 .. i - 1 : signals[entries[t][j].id] # None
        /\ \/ YamlId(entries[t][i].id) # entries[t][i].id
           \/ ~Legal(Csv(export[t], entries[t][i]))

\* The registers and bits a variable stands for, in the words of an export.
Places(v) ==
  {<<v.hw = 64, v.type = "BOOL", v.offset + off, IF v.type = "BOOL" THEN v.bit ELSE 0>> :
     off \in IF DataType(v.type) \in {"uint32", "int32", "float32"} THEN 0 .. 1 ELSE {0}}

\* An export that is clean, of variables with names, registers and bits of their
\* own, is imported whole: "Clean the export before importing" is all it takes.
CleanImports ==
  \A t \in Importer :
    pc[t] = "signals" /\ todo[t] # <<>> =>
      LET kept == {i \in DOMAIN export[t] :
                     Kept(export[t][i]) /\ KeyOf(export[t][i]) = <<Next1(t).driver, Next1(t).net>>}
      IN (/\ \A i \in kept : LET v == export[t][i]
                             IN v.offset \in Nat /\ (v.type = "BOOL" => v.bit \in 0 .. 15)
          /\ \A i, j \in kept : i # j =>
               /\ export[t][i].name # export[t][j].name
               /\ Places(export[t][i]) \cap Places(export[t][j]) = {}
          /\ Next1(t).word_order # Bad)
         => Legal(Rows(t))

\* "The output passes modbus_sim.signal_loader.parse_and_validate without
\* modification."
\* TLC refutes it: negative offsets, bits beyond 15 and shared registers pass.
GeneratedFits ==
  \A t \in Importer :
    pc[t] = "signals" /\ todo[t] # <<>> => Legal(Rows(t))
=============================================================================
