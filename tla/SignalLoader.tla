---------------------------- MODULE SignalLoader ----------------------------
(***************************************************************************)
(* parse_and_validate (signal_loader.py): one pass over the rows of a      *)
(* signal file that collects every error it can and remembers, for the     *)
(* checks across rows, names, registers and bits in three accumulators;    *)
(* and signals_to_csv, which writes what was accepted for a later restore. *)
(***************************************************************************)
EXTENDS SignalRules

CONSTANT Files  \* the files that may be uploaded

Columns == {"header", "name", "register_type", "data_type", "address", "bit_index",
            "word_order", "scale", "default_value"}

File == [complete : BOOLEAN,  \* has every required column
         rows : Seq(Row)]

ASSUME LoaderAssumption ==
  /\ Files \subseteq File
  /\ Empty \notin Name \cup Int \cup WordOrders
  /\ Bad \notin Int \cup RegisterTypes \cup DataTypes \cup WordOrders

\* What a Signal keeps of its row, bit_index and word_order being None when unset.
Signal == [name : Name, register_type : RegisterTypes, data_type : DataTypes,
           address : Nat, bit_index : (0 .. 15) \cup {Empty},
           word_order : WordOrders \cup {Empty},
           default_value : Defaults]

VARIABLES
  pc,          \* "idle", "scan", "done", or "raised" by an exception
  file,        \* the file it scans, its header read
  row,         \* the next row
  seen_names, bool_bits, occupied,  \* the accumulators
  errors,      \* <<row number, column>>
  signals,     \* the list built, and returned
  disk,        \* the last list written by signals_to_csv
  restoring    \* the file is the one on disk

vars == <<pc, file, row, seen_names, bool_bits, occupied, errors, signals, disk,
          restoring>>

NoFile == [complete |-> FALSE, rows |-> <<>>]

TypeOK ==
  /\ pc \in {"idle", "scan", "done", "raised"}
  /\ file \in File /\ row \in Nat \ {0}
  /\ seen_names \subseteq Name
  /\ bool_bits \subseteq RegisterTypes \X Nat \X (0 .. 15)
  /\ occupied \subseteq RegisterTypes \X Nat
  /\ errors \subseteq Nat \X Columns
  /\ signals \in Seq(Signal) /\ disk \in Seq(Signal)
  /\ restoring \in BOOLEAN

Init ==
  /\ pc = "idle" /\ file = NoFile /\ row = 1
  /\ seen_names = {} /\ bool_bits = {} /\ occupied = {}
  /\ errors = {} /\ signals = <<>> /\ disk = <<>> /\ restoring = FALSE

-----------------------------------------------------------------------------
(***************************************************************************)
(* One row.                                                                *)
(***************************************************************************)
InRange(r) == r.bit_index \in 0 .. 15

\* bit_index, None unless the row is a bool in a word and it is 0-15.
ParsedBit(r) == IF BoolInWord(r) /\ InRange(r) THEN r.bit_index ELSE Empty

\* word_order, None when it is not one.
ParsedOrder(r) == IF r.word_order \in WordOrders THEN r.word_order ELSE Empty

\* The checks across rows run only if address and types are valid.
Placeable(r) ==
  /\ r.address \in Nat
  /\ r.data_type \in DataTypes /\ r.register_type \in RegisterTypes
Shares(r) == Placeable(r) /\ ParsedBit(r) # Empty

Span(r) == IF r.data_type \in WideTypes THEN 2 ELSE 1
\* Faulty variant: the second register of a wide signal is free.
CellsOfOne(r) ==
  IF Placeable(r) /\ ~Shares(r) THEN {<<r.register_type, r.address>>} ELSE {}

\* The registers a row claims for itself; a bool with a bit of a word claims that.
Cells(r) ==
  IF Placeable(r) /\ ~Shares(r)
  THEN {<<r.register_type, r.address + off>> : off \in 0 .. Span(r) - 1}
  ELSE {}
Bits(r) ==
  IF Shares(r) THEN {<<r.register_type, r.address, ParsedBit(r)>>} ELSE {}

BadBit(r) ==
  IF BoolInWord(r) THEN ~InRange(r) ELSE r.bit_index # Empty
BadOrder(r) ==
  IF r.data_type \in WideTypes THEN r.word_order \notin WordOrders
  ELSE r.word_order = Bad
BadDefault(r) ==
  r.default_value = Bad \/ (r.data_type = "bool" /\ r.default_value \notin {"0", "1"})

\* The columns a row is refused for, given what came before it.
Faults(r) ==
  {c \in Columns :
     \/ c = "name" /\ (r.name = Empty \/ r.name \in seen_names)
     \/ c = "register_type" /\ r.register_type \notin RegisterTypes
     \/ c = "data_type" /\ r.data_type \notin DataTypes
     \/ c = "address" /\ (r.address \notin Nat \/ Cells(r) \cap occupied # {})
     \/ c = "bit_index" /\ (BadBit(r) \/ Bits(r) \cap bool_bits # {})
     \/ c = "word_order" /\ BadOrder(r)
     \/ c = "scale" /\ r.scale = Bad
     \/ c = "default_value" /\ BadDefault(r)}

Built(r) ==
  [name |-> r.name, register_type |-> r.register_type, data_type |-> r.data_type,
   address |-> r.address, bit_index |-> ParsedBit(r), word_order |-> ParsedOrder(r),
   default_value |-> r.default_value]

-----------------------------------------------------------------------------
(***************************************************************************)
(* The call.                                                               *)
(***************************************************************************)
\* The header: a file that lacks a required column is refused without a scan.
Open(f) ==
  /\ pc = "idle"
  /\ file' = f /\ row' = 1
  /\ seen_names' = {} /\ bool_bits' = {} /\ occupied' = {} /\ signals' = <<>>
  /\ IF f.complete THEN errors' = {} /\ pc' = "scan"
                   ELSE errors' = {<<1, "header">>} /\ pc' = "done"
  /\ UNCHANGED disk

Upload(f) == Open(f) /\ restoring' = FALSE

\* Faulty variant: nothing is reported after the first row with errors.
ReportFirst(columns) == IF errors = {} THEN {<<row + 1, c>> : c \in columns} ELSE {}

\* RowError; the header is row 1.
Report(columns) == {<<row + 1, c>> : c \in columns}

\* The row at hand is reached without an error and its default is no number of its
\* type, which no check has asked.
Unfit == errors = {} /\ Faults(file.rows[row]) = {} /\ ~Convertible(file.rows[row])

\* Faulty variant: such a default is taken for 0.
NeverUnfit == FALSE

\* After a first error rows are only checked.
ReadRow ==
  /\ pc = "scan" /\ row <= Len(file.rows) /\ ~Unfit
  /\ LET r == file.rows[row]
     IN /\ errors' = errors \cup Report(Faults(r))
        /\ seen_names' = seen_names \cup ({r.name} \ {Empty})
        /\ occupied' = occupied \cup Cells(r)
        /\ bool_bits' = bool_bits \cup Bits(r)
        /\ signals' = IF errors' = {} THEN Append(signals, Built(r)) ELSE signals
  /\ row' = row + 1
  /\ UNCHANGED <<pc, file, disk, restoring>>

\* _compute_default_raw raises, and parse_and_validate with it.
Raise ==
  /\ pc = "scan" /\ row <= Len(file.rows) /\ Unfit
  /\ pc' = "raised"
  /\ UNCHANGED <<file, row, seen_names, bool_bits, occupied, errors, signals, disk,
                 restoring>>

\* Errors, or the whole list.
Return ==
  /\ pc = "scan" /\ row > Len(file.rows)
  /\ pc' = "done"
  /\ signals' = IF errors = {} THEN signals ELSE <<>>
  /\ UNCHANGED <<file, row, seen_names, bool_bits, occupied, errors, disk, restoring>>

\* Faulty variant: bit 0 is taken for no bit.
RowOfFalsy(s) ==
  [name |-> s.name, register_type |-> s.register_type, data_type |-> s.data_type,
   address |-> s.address, bit_index |-> IF s.bit_index = 0 THEN Empty ELSE s.bit_index,
   word_order |-> s.word_order, scale |-> "number", default_value |-> s.default_value]

\* signals_to_csv: a row per signal, None written as an empty field.
RowOf(s) ==
  [name |-> s.name, register_type |-> s.register_type, data_type |-> s.data_type,
   address |-> s.address, bit_index |-> s.bit_index, word_order |-> s.word_order,
   scale |-> "number", default_value |-> s.default_value]
ToCsv(list) == [complete |-> TRUE, rows |-> [i \in DOMAIN list |-> RowOf(list[i])]]

\* Faulty variant: the caller writes what it is given, a refused list as an empty one.
PersistUnasked ==
  /\ pc = "done" /\ pc' = "idle"
  /\ disk' = signals
  /\ file' = NoFile /\ row' = 1
  /\ seen_names' = {} /\ bool_bits' = {} /\ occupied' = {}
  /\ errors' = {} /\ signals' = <<>> /\ restoring' = FALSE

\* The caller: a list that is accepted is written to disk, a refused one is not.
\* The locals of the call are gone.
Persist ==
  /\ pc = "done" /\ pc' = "idle"
  /\ disk' = IF errors = {} THEN signals ELSE disk
  /\ file' = NoFile /\ row' = 1
  /\ seen_names' = {} /\ bool_bits' = {} /\ occupied' = {}
  /\ errors' = {} /\ signals' = <<>> /\ restoring' = FALSE

\* The exception passes the caller, which has written nothing: a client gets a 500.
Unwind ==
  /\ pc = "raised" /\ pc' = "idle"
  /\ file' = NoFile /\ row' = 1
  /\ seen_names' = {} /\ bool_bits' = {} /\ occupied' = {}
  /\ errors' = {} /\ signals' = <<>> /\ restoring' = FALSE
  /\ UNCHANGED disk

\* Another process reads the file back.
Restore == Open(ToCsv(disk)) /\ restoring' = TRUE

Next ==
  \/ \E f \in Files : Upload(f)
  \/ ReadRow \/ Raise \/ Return \/ Persist \/ Unwind \/ Restore

Spec == Init /\ [][Next]_vars

-----------------------------------------------------------------------------
(***************************************************************************)
(* Properties.                                                             *)
(***************************************************************************)
\* The pass is exact at every row: it has found an error if and only if the rows
\* so far break a rule, so no file with two signals on a register is accepted, and
\* no file is refused for what an earlier row left in an accumulator.
ScanExact ==
  pc = "scan" => (errors = {} <=> LegalUpTo(file.rows, row - 1))

\* Every malformed row is reported, the ones after the first error too.
AllReported ==
  pc = "scan" => \A i \in 1 .. row - 1 :
    ~WellFormed(file.rows[i]) => \E c \in Columns : <<i + 1, c>> \in errors

\* What was accepted and written is accepted again, unchanged, when it is read back.
RestoreExact ==
  restoring => /\ pc # "raised"
               /\ pc = "done" => errors = {} /\ signals = disk

\* Seen from outside the pass is one step: what is on disk says, row for row, what
\* the last legal file said, whatever files were refused before and since, or ended
\* in an exception.
AcceptsFile(f) ==
  f.complete /\ Legal(f.rows) /\ \A i \in DOMAIN f.rows : Convertible(f.rows[i])
RowsOf(f) == f.rows
Store == INSTANCE Acceptance WITH
           Nothing <- NoFile, Accepts <- AcceptsFile, Content <- RowsOf, Blank <- <<>>,
           asked <- file, kept <- ToCsv(disk).rows
KeepsLegalFiles == Store!Spec

\* "Returns (signals, []) on success or ([], errors) on any failure."
\* TLC refutes it: a default of inf passes the checks and is converted.
AlwaysReturns == pc # "raised"

\* "Ignored for 16-bit types and bool", of a row's word order.
\* TLC refutes it: a text that is no word order is refused there too.
NarrowOrderIgnored ==
  pc = "scan" => \A i \in 1 .. row - 1 :
    file.rows[i].data_type \notin WideTypes => <<i + 1, "word_order">> \notin errors
=============================================================================
