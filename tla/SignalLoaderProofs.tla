------------------------ MODULE SignalLoaderProofs ------------------------
(***************************************************************************)
(* Proofs about SignalLoader, for all files and names: the pass keeps its  *)
(* types, and it is exact at every row.  The inductive invariant says what *)
(* the accumulators hold: the names, registers and bits of the rows read   *)
(* so far, no more and no less, whatever errors these rows have.  RInv     *)
(* adds that the list built is that of the rows read, and that the list on *)
(* disk comes back from the rows that are written of it.                   *)
(***************************************************************************)
EXTENDS SignalLoader, TLAPS

Seen == \A n \in Name : n \in seen_names <=> \E i \in 1 .. row - 1 : file.rows[i].name = n
Claimed ==
  \A c \in RegisterTypes \X Nat :
    c \in occupied <=> \E i \in 1 .. row - 1 : c \in Cells(file.rows[i])
Used ==
  \A u \in RegisterTypes \X Nat \X (0 .. 15) :
    u \in bool_bits <=> \E i \in 1 .. row - 1 : u \in Bits(file.rows[i])
Scanned == pc = "scan" => /\ row \in 1 .. Len(file.rows) + 1
                          /\ Seen /\ Claimed /\ Used
IInv == TypeOK /\ Scanned /\ ScanExact

-----------------------------------------------------------------------------
\* What a row claims is a set of registers and bits of the right types.
LEMMA ClaimTypes ==
  ASSUME NEW r \in Row
  PROVE  /\ Cells(r) \subseteq RegisterTypes \X Nat
         /\ Bits(r) \subseteq RegisterTypes \X Nat \X (0 .. 15)
         /\ Placeable(r) => r.address \in Nat /\ r.register_type \in RegisterTypes
<1>1. Span(r) \in {1, 2}
  BY DEF Span
<1>2. Cells(r) \subseteq RegisterTypes \X Nat
  BY <1>1 DEF Cells, Placeable
<1>3. Bits(r) \subseteq RegisterTypes \X Nat \X (0 .. 15)
  BY DEF Bits, Shares, Placeable, ParsedBit, InRange
<1> QED BY <1>2, <1>3 DEF Placeable

\* The columns a row is refused for are columns.
LEMMA FaultTypes == ASSUME NEW r PROVE Faults(r) \subseteq Columns
BY DEF Faults

\* A signal is built from a row without faults.
LEMMA BuiltType ==
  ASSUME NEW r \in Row, Faults(r) = {} PROVE Built(r) \in Signal
<1>1. /\ "name" \in Columns /\ "register_type" \in Columns /\ "data_type" \in Columns
      /\ "address" \in Columns /\ "default_value" \in Columns
  BY DEF Columns
<1>2. /\ r.name # Empty /\ r.register_type \in RegisterTypes
      /\ r.data_type \in DataTypes /\ r.address \in Nat /\ ~BadDefault(r)
  BY <1>1 DEF Faults
<1>3. r.name \in Name /\ r.default_value \in Defaults
  BY <1>2 DEF Row, BadDefault
<1>4. ParsedBit(r) \in (0 .. 15) \cup {Empty} /\ ParsedOrder(r) \in WordOrders \cup {Empty}
  BY DEF ParsedBit, InRange, ParsedOrder
<1> QED BY <1>2, <1>3, <1>4 DEF Built, Signal

\* A signal written to disk is a row of a file.
LEMMA CsvType == ASSUME NEW list \in Seq(Signal) PROVE ToCsv(list) \in File
<1>1. ASSUME NEW s \in Signal PROVE RowOf(s) \in Row
  BY DEF Signal, Row, RowOf
<1>2. [i \in DOMAIN list |-> RowOf(list[i])] \in Seq(Row)
  BY <1>1
<1> QED BY <1>2 DEF ToCsv, File

-----------------------------------------------------------------------------
\* The variables keep their types through every step of a call.
LEMMA TypeStep == ASSUME TypeOK, [Next]_vars PROVE TypeOK'
<1>1. ASSUME NEW f \in File, Open(f), restoring' \in BOOLEAN PROVE TypeOK'
  BY <1>1 DEF Open, TypeOK, Columns
<1>2. ASSUME NEW f \in Files, Upload(f) PROVE TypeOK'
  <2>1. f \in File /\ Open(f) /\ restoring' \in BOOLEAN
    BY <1>2, LoaderAssumption DEF Upload
  <2> QED BY <2>1, <1>1
<1>3. CASE ReadRow
  <2> DEFINE r == file.rows[row]
  <2>1. r \in Row
    BY <1>3 DEF ReadRow, Report, TypeOK, File
  <2>2. errors' \subseteq Nat \X Columns
    BY <1>3, FaultTypes DEF ReadRow, Report, TypeOK
  <2>3. seen_names' \subseteq Name
    BY <1>3, <2>1 DEF ReadRow, Report, TypeOK, Row
  <2>4. occupied' \subseteq RegisterTypes \X Nat
    BY <1>3, <2>1, ClaimTypes DEF ReadRow, Report, TypeOK
  <2>5. bool_bits' \subseteq RegisterTypes \X Nat \X (0 .. 15)
    BY <1>3, <2>1, ClaimTypes DEF ReadRow, Report, TypeOK
  <2>6. signals' \in Seq(Signal)
    <3>1. CASE errors' = {}
      <4>1. Faults(r) = {}
        BY <1>3, <3>1 DEF ReadRow, Report
      <4>2. Built(r) \in Signal
        BY <2>1, <4>1, BuiltType
      <4> QED BY <1>3, <3>1, <4>2 DEF ReadRow, Report, TypeOK
    <3>2. CASE errors' # {}
      BY <1>3, <3>2 DEF ReadRow, Report, TypeOK
    <3> QED BY <3>1, <3>2
  <2> QED BY <1>3, <2>2, <2>3, <2>4, <2>5, <2>6 DEF ReadRow, Report, TypeOK
<1>4. CASE Return
  BY <1>4 DEF Return, TypeOK
<1>8. CASE Raise
  BY <1>8 DEF Raise, TypeOK
<1>5. CASE Persist \/ Unwind
  <2>1. NoFile \in File
    BY DEF NoFile, File
  <2>2. disk' \in Seq(Signal)
    BY <1>5 DEF Persist, Unwind, TypeOK
  <2>3. <<>> \in Seq(Signal)
    OBVIOUS
  <2>6. restoring' \in BOOLEAN
    BY <1>5 DEF Persist, Unwind
  <2>4. /\ pc' \in {"idle", "scan", "done", "raised"} /\ file' \in File /\ row' \in Nat \ {0}
        /\ signals' \in Seq(Signal)
    <3>1. CASE Persist
      BY <3>1, <2>1, <2>3 DEF Persist
    <3>2. CASE Unwind
      BY <3>2, <2>1, <2>3 DEF Unwind
    <3> QED BY <1>5, <3>1, <3>2
  <2>5. /\ seen_names' \subseteq Name /\ errors' \subseteq Nat \X Columns
        /\ bool_bits' \subseteq RegisterTypes \X Nat \X (0 .. 15)
        /\ occupied' \subseteq RegisterTypes \X Nat
    BY <1>5 DEF Persist, Unwind
  <2> QED BY <2>2, <2>4, <2>5, <2>6 DEF TypeOK
<1>6. CASE Restore
  <2>1. ToCsv(disk) \in File
    BY CsvType DEF TypeOK
  <2> QED BY <1>6, <2>1, <1>1 DEF Restore
<1>7. CASE UNCHANGED vars
  BY <1>7 DEF vars, TypeOK
<1> QED BY <1>2, <1>3, <1>4, <1>5, <1>6, <1>7, <1>8 DEF Next

-----------------------------------------------------------------------------
\* A row in order, by itself, is placed, and has no fault but a clash with what is
\* in the accumulators; and conversely.
LEMMA FaultFree ==
  ASSUME TypeOK, NEW r \in Row
  PROVE  Faults(r) = {} <=>
           /\ WellFormed(r) /\ r.name \notin seen_names
           /\ Cells(r) \cap occupied = {} /\ Bits(r) \cap bool_bits = {}
<1>1. /\ BadBit(r) <=> r.bit_index \notin (IF BoolInWord(r) THEN 0 .. 15 ELSE {Empty})
      /\ BadOrder(r) <=> \/ r.data_type \in WideTypes /\ r.word_order \notin WordOrders
                         \/ r.word_order = Bad
  BY LoaderAssumption DEF BadBit, InRange, BadOrder
<1>2. BadDefault(r) <=> \/ r.default_value = Bad
                        \/ r.data_type = "bool" /\ r.default_value \notin {"0", "1"}
  BY DEF BadDefault
<1>3. Faults(r) = {} <=> \A c \in Columns : c \notin Faults(r)
  BY FaultTypes
<1>4. (\A c \in Columns : c \notin Faults(r)) <=>
        /\ r.name # Empty /\ r.name \notin seen_names
        /\ r.register_type \in RegisterTypes /\ r.data_type \in DataTypes
        /\ r.address \in Nat /\ Cells(r) \cap occupied = {}
        /\ ~BadBit(r) /\ Bits(r) \cap bool_bits = {}
        /\ ~BadOrder(r) /\ r.scale # Bad /\ ~BadDefault(r)
  BY DEF Faults, Columns
<1> QED BY <1>1, <1>2, <1>3, <1>4 DEF WellFormed

\* Two rows in order clash exactly if they claim a name, register or bit in common.
LEMMA ClashIsSharing ==
  ASSUME NEW r \in Row, NEW s \in Row, WellFormed(r), WellFormed(s)
  PROVE  Clash(r, s) <=> \/ r.name = s.name
                         \/ Cells(r) \cap Cells(s) # {} \/ Bits(r) \cap Bits(s) # {}
<1>1. ASSUME NEW q \in Row, WellFormed(q)
      PROVE  /\ Placeable(q)
             /\ Shares(q) <=> BoolInWord(q)
             /\ BoolInWord(q) => ParsedBit(q) = q.bit_index
  BY <1>1, LoaderAssumption DEF WellFormed, Placeable, Shares, ParsedBit, InRange
<1>2. ASSUME NEW q \in Row, WellFormed(q), BoolInWord(q)
      PROVE  Cells(q) = {} /\ Bits(q) = {<<q.register_type, q.address, q.bit_index>>}
  BY <1>1, <1>2 DEF Cells, Bits
<1>3. ASSUME NEW q \in Row, WellFormed(q), ~BoolInWord(q)
      PROVE  /\ Bits(q) = {}
             /\ Cells(q) = {<<q.register_type, q.address + off>> : off \in 0 .. Span(q) - 1}
  BY <1>1, <1>3 DEF Cells, Bits
<1>4. CASE BoolInWord(r) /\ BoolInWord(s)
  <2>1. r.data_type \notin WideTypes /\ s.data_type \notin WideTypes
    BY <1>4 DEF BoolInWord, WideTypes
  <2>2. Overlap(r, s) <=> r.register_type = s.register_type /\ r.address = s.address
    BY <2>1 DEF Overlap, Reaches, WellFormed
  <2>3. /\ Cells(r) = {} /\ Bits(r) = {<<r.register_type, r.address, r.bit_index>>}
        /\ Cells(s) = {} /\ Bits(s) = {<<s.register_type, s.address, s.bit_index>>}
    BY <1>2, <1>4
  <2>4. Bits(r) \cap Bits(s) # {} <=>
          /\ r.register_type = s.register_type /\ r.address = s.address
          /\ r.bit_index = s.bit_index
    <3>1. ASSUME NEW x, NEW y PROVE {x} \cap {y} # {} <=> x = y
      OBVIOUS
    <3>2. Bits(r) \cap Bits(s) # {} <=>
            <<r.register_type, r.address, r.bit_index>>
            = <<s.register_type, s.address, s.bit_index>>
      BY <2>3, <3>1
    <3> QED BY <3>2
  <2> QED BY <1>4, <2>2, <2>3, <2>4 DEF Clash
<1>5. CASE ~BoolInWord(r) /\ ~BoolInWord(s)
  <2>1. r.address \in Nat /\ s.address \in Nat
    BY DEF WellFormed
  <2>2. /\ Span(r) = IF r.data_type \in WideTypes THEN 2 ELSE 1
        /\ Span(s) = IF s.data_type \in WideTypes THEN 2 ELSE 1
    BY DEF Span
  <2>3. Cells(r) \cap Cells(s) # {} <=> Overlap(r, s)
    <3>1. ASSUME Overlap(r, s) PROVE Cells(r) \cap Cells(s) # {}
      <4>1. CASE Reaches(r, s)
        <5>1. s.address - r.address \in 0 .. Span(r) - 1 /\ 0 \in 0 .. Span(s) - 1
          BY <2>1, <2>2, <4>1 DEF Reaches
        <5>2. /\ <<r.register_type, r.address + (s.address - r.address)>> \in Cells(r)
              /\ <<s.register_type, s.address + 0>> \in Cells(s)
          BY <5>1, <1>3, <1>5
        <5>3. r.address + (s.address - r.address) = s.address + 0
          BY <2>1
        <5> QED BY <5>2, <5>3, <3>1 DEF Overlap
      <4>2. CASE Reaches(s, r)
        <5>1. r.address - s.address \in 0 .. Span(s) - 1 /\ 0 \in 0 .. Span(r) - 1
          BY <2>1, <2>2, <4>2 DEF Reaches
        <5>2. /\ <<s.register_type, s.address + (r.address - s.address)>> \in Cells(s)
              /\ <<r.register_type, r.address + 0>> \in Cells(r)
          BY <5>1, <1>3, <1>5
        <5>3. s.address + (r.address - s.address) = r.address + 0
          BY <2>1
        <5> QED BY <5>2, <5>3, <3>1 DEF Overlap
      <4> QED BY <3>1, <4>1, <4>2 DEF Overlap
    <3>2. ASSUME Cells(r) \cap Cells(s) # {} PROVE Overlap(r, s)
      <4>1. PICK i \in 0 .. Span(r) - 1, j \in 0 .. Span(s) - 1 :
              <<r.register_type, r.address + i>> = <<s.register_type, s.address + j>>
        BY <3>2, <1>3, <1>5
      <4>2. r.register_type = s.register_type /\ r.address + i = s.address + j
        BY <4>1
      <4> QED BY <2>1, <2>2, <4>2 DEF Overlap, Reaches
    <3> QED BY <3>1, <3>2
  <2> QED BY <1>3, <1>5, <2>3 DEF Clash
<1>6. CASE BoolInWord(r) /\ ~BoolInWord(s)
  BY <1>2, <1>3, <1>6 DEF Clash
<1>7. CASE ~BoolInWord(r) /\ BoolInWord(s)
  BY <1>2, <1>3, <1>7 DEF Clash
<1> QED BY <1>4, <1>5, <1>6, <1>7

-----------------------------------------------------------------------------
\* Reading a row adds exactly its name, registers and bits to the accumulators.
LEMMA AccumulateStep ==
  ASSUME TypeOK, pc = "scan", Scanned, ReadRow PROVE Scanned'
<1> DEFINE r == file.rows[row]
<1>1. /\ r \in Row /\ row \in 1 .. Len(file.rows) /\ row' = row + 1
      /\ file' = file /\ pc' = "scan" /\ Len(file.rows) \in Nat
  BY DEF ReadRow, Report, TypeOK, File
<1>2. 1 .. row' - 1 = (1 .. row - 1) \cup {row}
  BY <1>1
<1>3. row' \in 1 .. Len(file'.rows) + 1
  BY <1>1
<1>4. Seen'
  BY <1>1, <1>2, LoaderAssumption DEF Scanned, Seen, ReadRow
<1>5. Claimed'
  BY <1>1, <1>2, ClaimTypes DEF Scanned, Claimed, ReadRow
<1>6. Used'
  BY <1>1, <1>2, ClaimTypes DEF Scanned, Used, ReadRow
<1> QED BY <1>1, <1>3, <1>4, <1>5, <1>6 DEF Scanned

\* While no error is found, a row has no fault exactly if it goes with those before.
LEMMA RowExact ==
  ASSUME TypeOK, pc = "scan", Scanned, ReadRow, LegalUpTo(file.rows, row - 1)
  PROVE  Faults(file.rows[row]) = {} <=> LegalUpTo(file.rows, row)
<1> DEFINE r == file.rows[row]
           before == 1 .. row - 1
<1>1. /\ r \in Row /\ row \in 1 .. Len(file.rows) /\ Len(file.rows) \in Nat
      /\ \A i \in before : file.rows[i] \in Row
  BY DEF ReadRow, Report, TypeOK, File
<1>2. 1 .. row = before \cup {row} /\ \A i \in before : i < row /\ i \in Nat
  BY <1>1
<1>3. LegalUpTo(file.rows, row) <=>
        WellFormed(r) /\ \A i \in before : ~Clash(file.rows[i], r)
  BY <1>1, <1>2 DEF LegalUpTo
<1>4. ASSUME WellFormed(r)
      PROVE  (\A i \in before : ~Clash(file.rows[i], r)) <=>
               /\ r.name \notin seen_names
               /\ Cells(r) \cap occupied = {} /\ Bits(r) \cap bool_bits = {}
  <2>1. \A i \in before : WellFormed(file.rows[i])
    BY DEF LegalUpTo
  <2>2. \A i \in before :
          Clash(file.rows[i], r) <=>
            \/ file.rows[i].name = r.name
            \/ Cells(file.rows[i]) \cap Cells(r) # {}
            \/ Bits(file.rows[i]) \cap Bits(r) # {}
    BY <1>1, <1>4, <2>1, ClashIsSharing
  <2>3. r.name \in Name
    BY <1>1, <1>4 DEF WellFormed, Row
  <2>4. r.name \notin seen_names <=> \A i \in before : file.rows[i].name # r.name
    BY <2>3 DEF Scanned, Seen
  <2>5. Cells(r) \cap occupied = {} <=>
          \A i \in before : Cells(file.rows[i]) \cap Cells(r) = {}
    BY <1>1, ClaimTypes DEF Scanned, Claimed
  <2>6. Bits(r) \cap bool_bits = {} <=>
          \A i \in before : Bits(file.rows[i]) \cap Bits(r) = {}
    BY <1>1, ClaimTypes DEF Scanned, Used
  <2> QED BY <2>2, <2>4, <2>5, <2>6
<1> QED BY <1>1, <1>3, <1>4, FaultFree

\* The invariant holds initially.
LEMMA InitInv == Init => IInv
<1> SUFFICES ASSUME Init PROVE IInv
  OBVIOUS
<1>1. NoFile \in File /\ <<>> \in Seq(Signal)
  BY DEF NoFile, File
<1>2. /\ seen_names \subseteq Name /\ errors \subseteq Nat \X Columns
      /\ bool_bits \subseteq RegisterTypes \X Nat \X (0 .. 15)
      /\ occupied \subseteq RegisterTypes \X Nat /\ restoring \in BOOLEAN
  BY DEF Init
<1>3. TypeOK
  BY <1>1, <1>2 DEF Init, TypeOK
<1> QED BY <1>3 DEF Init, IInv, Scanned, ScanExact

\* Every step of a call preserves the invariant.
LEMMA InvStep == ASSUME IInv, [Next]_vars PROVE IInv'
<1>1. TypeOK'
  BY TypeStep DEF IInv
<1>2. ASSUME NEW f \in File, Open(f) PROVE Scanned' /\ ScanExact'
  <2>1. Len(f.rows) \in Nat
    BY DEF File
  <2>2. LegalUpTo(f.rows, 0)
    BY DEF LegalUpTo
  <2>3. CASE f.complete
    <3>1. /\ pc' = "scan" /\ file' = f /\ row' = 1 /\ errors' = {}
          /\ seen_names' = {} /\ occupied' = {} /\ bool_bits' = {}
      BY <1>2, <2>3 DEF Open
    <3>2. row' - 1 = 0
      BY <3>1
    <3>3. Scanned'
      BY <2>1, <3>1, <3>2 DEF Scanned, Seen, Claimed, Used
    <3>4. ScanExact'
      BY <2>2, <3>1, <3>2 DEF ScanExact
    <3> QED BY <3>3, <3>4
  <2>4. CASE ~f.complete
    BY <1>2, <2>4 DEF Open, Scanned, ScanExact
  <2> QED BY <2>3, <2>4
<1>3. ASSUME NEW f \in Files, Upload(f) PROVE Scanned' /\ ScanExact'
  <2>1. f \in File /\ Open(f)
    BY <1>3, LoaderAssumption DEF Upload
  <2> QED BY <2>1, <1>2
<1>4. CASE ReadRow
  <2>1. pc = "scan" /\ pc' = "scan" /\ file' = file /\ row' = row + 1 /\ row \in Nat \ {0}
    BY <1>4 DEF ReadRow, Report, IInv, TypeOK
  <2>2. Scanned'
    BY <1>4, <2>1, AccumulateStep DEF IInv
  <2>3. errors' = {} <=> errors = {} /\ Faults(file.rows[row]) = {}
    BY <1>4 DEF ReadRow, Report
  <2>4. errors = {} <=> LegalUpTo(file.rows, row - 1)
    BY <2>1 DEF IInv, ScanExact
  <2>5. LegalUpTo(file.rows, row) => LegalUpTo(file.rows, row - 1)
    BY <2>1 DEF LegalUpTo
  <2>6. errors' = {} <=> LegalUpTo(file.rows, row)
    BY <1>4, <2>1, <2>3, <2>4, <2>5, RowExact DEF IInv
  <2>7. row' - 1 = row
    BY <2>1
  <2> QED BY <1>1, <2>1, <2>2, <2>6, <2>7 DEF IInv, ScanExact
<1>5. CASE Return
  BY <1>1, <1>5 DEF Return, IInv, Scanned, ScanExact
<1>6. CASE Raise \/ Persist \/ Unwind
  BY <1>1, <1>6 DEF Raise, Persist, Unwind, IInv, Scanned, ScanExact
<1>7. CASE Restore
  <2>1. ToCsv(disk) \in File
    BY CsvType DEF IInv, TypeOK
  <2> QED BY <1>1, <1>7, <2>1, <1>2 DEF Restore, IInv
<1>8. CASE UNCHANGED vars
  BY <1>1, <1>8 DEF vars, IInv, Scanned, Seen, Claimed, Used, ScanExact
<1> QED BY <1>1, <1>3, <1>4, <1>5, <1>6, <1>7, <1>8 DEF Next, IInv

\* The invariant holds throughout.
LEMMA Inductive == Spec => []IInv
BY InitInv, InvStep, PTL DEF Spec

\* The variables of a call and the list on disk keep their types.
THEOREM TypeCorrect == Spec => []TypeOK
<1>1. IInv => TypeOK
  BY DEF IInv
<1> QED BY <1>1, Inductive, PTL

\* For all files, the one pass of parse_and_validate accepts exactly the files whose
\* rows are each in order and pairwise share no name, register or bit.
THEOREM ScanIsExact == Spec => []ScanExact
<1>1. IInv => ScanExact
  BY DEF IInv
<1> QED BY <1>1, Inductive, PTL

-----------------------------------------------------------------------------
\* A malformed row is refused for some column at least.
LEMMA MalformedFaults ==
  ASSUME TypeOK, NEW r \in Row, ~WellFormed(r)
  PROVE  \E c \in Columns : c \in Faults(r)
BY FaultFree, FaultTypes

\* Once a malformed row is read its error stays with the errors.
LEMMA ReportedStep ==
  ASSUME IInv, AllReported, [Next]_vars PROVE AllReported'
<1>1. ASSUME NEW f, Open(f) PROVE AllReported'
  <2>1. row' - 1 = 0
    BY <1>1 DEF Open
  <2> QED BY <2>1 DEF AllReported
<1>2. CASE ReadRow
  <2>1. /\ row \in 1 .. Len(file.rows) /\ file.rows[row] \in Row
        /\ file' = file /\ row' = row + 1 /\ pc = "scan"
    BY <1>2 DEF ReadRow, Report, IInv, TypeOK, File
  <2>2. errors' = errors \cup {<<row + 1, c>> : c \in Faults(file.rows[row])}
    BY <1>2 DEF ReadRow, Report
  <2>3. SUFFICES ASSUME NEW i \in 1 .. row' - 1, ~WellFormed(file'.rows[i])
                 PROVE  \E c \in Columns : <<i + 1, c>> \in errors'
    BY DEF AllReported
  <2>4. CASE i = row
    BY <2>1, <2>2, <2>3, <2>4, MalformedFaults DEF IInv
  <2>5. CASE i # row
    <3>1. i \in 1 .. row - 1
      BY <2>1, <2>5
    <3> QED BY <2>1, <2>2, <2>3, <3>1 DEF AllReported
  <2> QED BY <2>4, <2>5
<1>3. CASE Raise \/ Return \/ Persist \/ Unwind
  BY <1>3 DEF Raise, Return, Persist, Unwind, AllReported
<1>4. CASE UNCHANGED vars
  BY <1>4 DEF vars, AllReported
<1> QED BY <1>1, <1>2, <1>3, <1>4 DEF Next, Upload, Restore

\* For all files, every malformed row has an error, the ones after the first error too.
THEOREM AllAreReported == Spec => []AllReported
<1>1. Init => AllReported
  BY DEF Init, AllReported
<1>2. IInv /\ AllReported /\ [Next]_vars => AllReported'
  BY ReportedStep
<1> QED BY <1>1, <1>2, Inductive, PTL DEF Spec

-----------------------------------------------------------------------------
\* The list built of rows 1 to n, whose defaults are numbers of their types.
BuiltOf(rows, list, n) ==
  /\ Len(list) = n
  /\ \A i \in 1 .. n : list[i] = Built(rows[i]) /\ Convertible(rows[i])

\* What is written of the list on disk is in order and says what the list says.
Readable ==
  /\ LegalUpTo(ToCsv(disk).rows, Len(disk))
  /\ BuiltOf(ToCsv(disk).rows, disk, Len(disk))

\* What the scan has built, and what it returns.
Building ==
  /\ pc = "scan" /\ errors = {} => BuiltOf(file.rows, signals, row - 1)
  /\ pc = "done" /\ errors = {} => /\ LegalUpTo(file.rows, Len(file.rows))
                                   /\ BuiltOf(file.rows, signals, Len(file.rows))
Reading ==
  /\ pc \in {"scan", "done"} /\ restoring => file = ToCsv(disk)
  /\ pc = "done" /\ restoring => errors = {}
  /\ restoring => pc # "raised"

RInv == IInv /\ Readable /\ Building /\ Reading

\* A row in order comes back from the signal built of it.
LEMMA RoundTrip ==
  ASSUME NEW r \in Row, WellFormed(r) PROVE RowOf(Built(r)) = r
<1>1. ParsedBit(r) = r.bit_index
  BY DEF ParsedBit, InRange, WellFormed
<1>2. ParsedOrder(r) = r.word_order
  BY DEF ParsedOrder, WellFormed, Row
<1>3. r.scale = "number"
  BY DEF WellFormed, Row
<1> QED BY <1>1, <1>2, <1>3 DEF RowOf, Built, Row

\* The file written of an accepted list has the rows the list was built of.
LEMMA WrittenRows ==
  ASSUME NEW rows \in Seq(Row), NEW list \in Seq(Signal),
         LegalUpTo(rows, Len(rows)), BuiltOf(rows, list, Len(rows))
  PROVE  /\ LegalUpTo(ToCsv(list).rows, Len(list))
         /\ BuiltOf(ToCsv(list).rows, list, Len(list))
<1>1. Len(list) = Len(rows) /\ Len(rows) \in Nat /\ DOMAIN list = 1 .. Len(rows)
  BY DEF BuiltOf
<1>2. \A i \in 1 .. Len(rows) : rows[i] \in Row /\ WellFormed(rows[i])
  BY DEF LegalUpTo
<1>3. \A i \in 1 .. Len(rows) : RowOf(list[i]) = rows[i]
  BY <1>2, RoundTrip DEF BuiltOf
<1>4. \A i \in 1 .. Len(rows) : ToCsv(list).rows[i] = rows[i]
  BY <1>1, <1>3 DEF ToCsv
<1>5. LegalUpTo(ToCsv(list).rows, Len(list))
  BY <1>1, <1>4 DEF LegalUpTo
<1>6. BuiltOf(ToCsv(list).rows, list, Len(list))
  BY <1>1, <1>4 DEF BuiltOf
<1> QED BY <1>5, <1>6

\* A call starts with nothing built, and a restore with the file of the list on disk.
LEMMA ReadOpens ==
  ASSUME RInv, NEW f, Open(f), restoring' => f = ToCsv(disk) PROVE (Readable /\ Building /\ Reading)'
<1>1. Readable'
  BY DEF RInv, Open, Readable
<1>2. pc' \in {"scan", "done"} /\ file' = f /\ row' - 1 = 0 /\ disk' = disk /\ signals' = <<>>
  BY DEF Open
<1>3. Building'
  <2>1. BuiltOf(f.rows, <<>>, 0)
    BY DEF BuiltOf
  <2>2. pc' = "done" => errors' # {}
    BY DEF Open
  <2> QED BY <1>2, <2>1, <2>2 DEF Building
<1>4. restoring' => f.complete
  BY DEF ToCsv
<1>5. Reading'
  BY <1>2, <1>4 DEF Open, Reading
<1> QED BY <1>1, <1>3, <1>5

\* Reading a row appends the signal built of it, and a signal is built of a row in order.
LEMMA ReadReads ==
  ASSUME RInv, ReadRow PROVE (Readable /\ Building /\ Reading)'
<1>1. Readable'
  BY DEF RInv, ReadRow, Readable
<1>2. Reading'
  BY DEF RInv, ReadRow, Reading
<1>3. /\ row \in Nat \ {0} /\ row' = row + 1 /\ file' = file /\ pc = "scan" /\ pc' = pc
      /\ signals \in Seq(Signal)
  BY DEF RInv, IInv, TypeOK, ReadRow
<1>4. ASSUME errors' = {} PROVE BuiltOf(file'.rows, signals', row' - 1)
  <2>1. errors = {} /\ Faults(file.rows[row]) = {}
    BY <1>4 DEF ReadRow, Report
  <2>2. Built(file.rows[row]) \in Signal
    BY <2>1, BuiltType DEF ReadRow, RInv, IInv, TypeOK, File
  <2>3. signals' = Append(signals, Built(file.rows[row]))
    BY <1>4 DEF ReadRow
  <2>4. BuiltOf(file.rows, signals, row - 1)
    BY <1>3, <2>1 DEF RInv, Building
  <2>7. Convertible(file.rows[row])
    BY <2>1 DEF ReadRow, Unfit
  <2>5. Len(signals') = row /\ signals'[row] = Built(file.rows[row])
        /\ \A i \in 1 .. row - 1 : signals'[i] = signals[i]
    BY <1>3, <2>2, <2>3, <2>4 DEF BuiltOf
  <2>6. row' - 1 = row /\ 1 .. row = (1 .. row - 1) \cup {row}
    BY <1>3
  <2> QED BY <1>3, <2>4, <2>5, <2>6, <2>7 DEF BuiltOf
<1> QED BY <1>1, <1>2, <1>3, <1>4 DEF Building

\* A file that was written of the list on disk has no error.
LEMMA ReadReturns ==
  ASSUME RInv, Return PROVE (Readable /\ Building /\ Reading)'
<1>1. /\ row - 1 = Len(file.rows) /\ Len(file.rows) \in Nat
      /\ errors = {} <=> LegalUpTo(file.rows, row - 1)
  BY DEF RInv, IInv, Scanned, ScanExact, Return, TypeOK, File
<1>2. Readable'
  BY DEF RInv, Return, Readable
<1>3. Building'
  BY <1>1 DEF RInv, Building, Return
<1>4. restoring => file = ToCsv(disk)
  BY DEF RInv, Reading, Return
<1>5. restoring => errors = {}
  <2>1. Len(ToCsv(disk).rows) = Len(disk)
    BY DEF ToCsv, RInv, IInv, TypeOK
  <2> QED BY <1>1, <1>4, <2>1 DEF RInv, Readable
<1>6. Reading'
  BY <1>4, <1>5 DEF Return, Reading
<1> QED BY <1>2, <1>3, <1>6

\* The list that goes to disk was built of rows in order.
LEMMA ReadPersists ==
  ASSUME RInv, Persist PROVE (Readable /\ Building /\ Reading)'
<1>1. Readable'
  <2>1. CASE errors = {}
    <3>1. /\ file.rows \in Seq(Row) /\ signals \in Seq(Signal) /\ disk' = signals
          /\ LegalUpTo(file.rows, Len(file.rows))
          /\ BuiltOf(file.rows, signals, Len(file.rows))
      BY <2>1 DEF Persist, RInv, IInv, TypeOK, File, Building
    <3> QED BY <3>1, WrittenRows DEF Readable
  <2>2. CASE errors # {}
    BY <2>2 DEF RInv, Persist, Readable
  <2> QED BY <2>1, <2>2
<1> QED BY <1>1 DEF Persist, Building, Reading

\* The rows written of the list on disk do not raise.
LEMMA ReadRaises ==
  ASSUME RInv, Raise PROVE (Readable /\ Building /\ Reading)'
<1>1. row \in 1 .. Len(file.rows) /\ ~Convertible(file.rows[row]) /\ pc = "scan"
  BY DEF RInv, IInv, TypeOK, File, Raise, Unfit
<1>2. ASSUME restoring PROVE FALSE
  <2>1. file = ToCsv(disk)
    BY <1>1, <1>2 DEF RInv, Reading
  <2>2. Len(file.rows) = Len(disk)
    BY <2>1 DEF ToCsv, RInv, IInv, TypeOK
  <2> QED BY <1>1, <2>1, <2>2 DEF RInv, Readable, BuiltOf
<1>3. Readable' /\ Building'
  BY DEF RInv, Raise, Readable, Building
<1>4. Reading'
  BY <1>2 DEF Raise, Reading
<1> QED BY <1>3, <1>4

\* The invariant holds throughout.
LEMMA ReadInv == Spec => []RInv
<1>1. Init => RInv
  <2> SUFFICES ASSUME Init PROVE RInv
    OBVIOUS
  <2>1. disk = <<>> /\ Len(disk) = 0
    BY DEF Init
  <2>2. Readable
    BY <2>1 DEF Readable, LegalUpTo, BuiltOf
  <2> QED BY <2>2, InitInv DEF Init, RInv, Building, Reading
<1>2. ASSUME RInv, [Next]_vars PROVE RInv'
  <2>1. IInv'
    BY <1>2, InvStep DEF RInv
  <2>2. CASE \E f \in Files : Upload(f)
    BY <1>2, <2>1, <2>2, ReadOpens DEF Upload, RInv
  <2>3. CASE Restore
    BY <1>2, <2>1, <2>3, ReadOpens DEF Restore, RInv
  <2>4. CASE ReadRow \/ Raise \/ Return \/ Persist
    BY <1>2, <2>1, <2>4, ReadReads, ReadRaises, ReadReturns, ReadPersists DEF RInv
  <2>6. CASE Unwind
    BY <1>2, <2>1, <2>6 DEF Unwind, RInv, Readable, Building, Reading
  <2>5. CASE UNCHANGED vars
    BY <1>2, <2>1, <2>5 DEF vars, RInv, Readable, Building, Reading
  <2> QED BY <1>2, <2>2, <2>3, <2>4, <2>5, <2>6 DEF Next
<1> QED BY <1>1, <1>2, PTL DEF Spec

\* For all files, what was accepted and written is accepted again when it is read back,
\* and gives the same list of signals.
THEOREM RestoresExactly == Spec => []RestoreExact
<1>1. RInv => RestoreExact
  <2> SUFFICES ASSUME RInv, pc = "done", restoring PROVE errors = {} /\ signals = disk
    BY DEF RestoreExact, RInv, Reading
  <2>1. errors = {} /\ file = ToCsv(disk)
    BY DEF RInv, Reading
  <2>2. BuiltOf(file.rows, signals, Len(file.rows))
    BY <2>1 DEF RInv, Building
  <2>3. disk \in Seq(Signal) /\ signals \in Seq(Signal) /\ Len(file.rows) = Len(disk)
    BY <2>1 DEF RInv, IInv, TypeOK, ToCsv
  <2>4. \A i \in 1 .. Len(disk) : signals[i] = disk[i]
    BY <2>1, <2>2, <2>3 DEF BuiltOf, RInv, Readable
  <2>5. Len(signals) = Len(disk)
    BY <2>2, <2>3 DEF BuiltOf
  <2> QED BY <2>1, <2>3, <2>4, <2>5
<1> QED BY <1>1, ReadInv, PTL

-----------------------------------------------------------------------------
(***************************************************************************)
(* The loader implements Acceptance.  The step that answers is Persist,    *)
(* and every other one but Open stutters; what the pass found by then has  *)
(* to be what the rules say of the whole file.                             *)
(***************************************************************************)
Answered ==
  /\ pc = "idle" => file = NoFile
  /\ pc = "scan" => file.complete
  /\ pc = "done" => (errors = {} <=> AcceptsFile(file))
  /\ pc = "raised" => ~AcceptsFile(file)

\* The rules for all rows of a file are those for its rows up to the last.
LEMMA LegalToTheEnd ==
  ASSUME NEW rows \in Seq(Row) PROVE Legal(rows) <=> LegalUpTo(rows, Len(rows))
<1>1. DOMAIN rows = 1 .. Len(rows)
  OBVIOUS
<1> QED BY <1>1 DEF Legal, LegalUpTo

\* What is written of a list that was built of legal rows are these rows.
LEMMA SameRows ==
  ASSUME NEW rows \in Seq(Row), NEW list \in Seq(Signal),
         LegalUpTo(rows, Len(rows)), BuiltOf(rows, list, Len(rows))
  PROVE  ToCsv(list).rows = rows
<1>1. DOMAIN list = 1 .. Len(rows) /\ DOMAIN rows = 1 .. Len(rows)
  BY DEF BuiltOf
<1>2. \A i \in 1 .. Len(rows) : RowOf(list[i]) = rows[i]
  <2> SUFFICES ASSUME NEW i \in 1 .. Len(rows) PROVE RowOf(list[i]) = rows[i]
    OBVIOUS
  <2>1. rows[i] \in Row /\ WellFormed(rows[i]) /\ list[i] = Built(rows[i])
    BY DEF LegalUpTo, BuiltOf
  <2> QED BY <2>1, RoundTrip
<1>3. ToCsv(list).rows = [i \in 1 .. Len(rows) |-> RowOf(list[i])]
  BY <1>1 DEF ToCsv
<1>4. [i \in 1 .. Len(rows) |-> RowOf(list[i])] = [i \in 1 .. Len(rows) |-> rows[i]]
  BY <1>2
<1> QED BY <1>1, <1>3, <1>4

LEMMA AnsweredStep == ASSUME RInv, Answered, [Next]_vars PROVE Answered'
<1>1. ASSUME NEW f, Open(f) PROVE Answered'
  BY <1>1 DEF Open, Answered, AcceptsFile
<1>2. CASE ReadRow
  BY <1>2 DEF ReadRow, Answered
<1>3. CASE Return
  <2>1. /\ row - 1 = Len(file.rows) /\ file.rows \in Seq(Row)
        /\ errors = {} <=> LegalUpTo(file.rows, row - 1)
    BY <1>3 DEF RInv, IInv, Scanned, ScanExact, Return, TypeOK, File
  <2>2. errors = {} <=> Legal(file.rows)
    BY <2>1, LegalToTheEnd
  <2>3. pc = "scan" /\ pc' = "done" /\ errors' = errors /\ file' = file
    BY <1>3 DEF Return
  <2>4. errors = {} => \A i \in DOMAIN file.rows : Convertible(file.rows[i])
    BY <2>1, <2>3 DEF RInv, Building, BuiltOf
  <2> QED BY <2>2, <2>3, <2>4 DEF Answered, AcceptsFile
<1>6. CASE Raise
  <2>1. row \in DOMAIN file.rows /\ ~Convertible(file.rows[row])
    BY <1>6 DEF RInv, IInv, TypeOK, File, Raise, Unfit
  <2> QED BY <1>6, <2>1 DEF Raise, Answered, AcceptsFile
<1>4. CASE Persist \/ Unwind
  BY <1>4 DEF Persist, Unwind, Answered
<1>5. CASE UNCHANGED vars
  BY <1>5 DEF vars, Answered
<1> QED BY <1>1, <1>2, <1>3, <1>4, <1>5, <1>6 DEF Next, Upload, Restore

LEMMA AnsweredAlways == Spec => []Answered
<1>1. Init => Answered
  BY DEF Init, Answered
<1>2. RInv /\ Answered /\ [Next]_vars => Answered'
  BY AnsweredStep
<1> QED BY <1>1, <1>2, ReadInv, PTL DEF Spec

\* Each step of the pass is one of Acceptance's, or none.
LEMMA StoreStep ==
  ASSUME RInv, Answered, [Next]_vars
  PROVE  [Store!Next]_<<file, ToCsv(disk).rows>>
<1> DEFINE Kept == ToCsv(disk).rows
<1>1. ASSUME NEW f, Open(f) PROVE Store!Ask
  BY <1>1 DEF Open, Answered, Store!Ask
<1>2. CASE ReadRow \/ Raise \/ Return \/ UNCHANGED vars
  BY <1>2 DEF ReadRow, Raise, Return, vars
<1>4. CASE Unwind
  <2>1. file' = NoFile /\ Kept' = Kept /\ ~AcceptsFile(file)
    BY <1>4 DEF Unwind, Answered
  <2>2. CASE file = NoFile
    BY <2>1, <2>2
  <2>3. CASE file # NoFile
    <3>1. Store!Answer
      BY <2>1, <2>3 DEF Store!Answer
    <3> QED BY <3>1 DEF Store!Next
  <2> QED BY <2>2, <2>3
<1>3. CASE Persist
  <2>1. file' = NoFile /\ pc = "done" /\ disk' = IF errors = {} THEN signals ELSE disk
    BY <1>3 DEF Persist
  <2>2. errors = {} <=> AcceptsFile(file)
    BY <2>1 DEF Answered
  <2>3. Kept' = IF AcceptsFile(file) THEN RowsOf(file) ELSE Kept
    <3>1. CASE errors = {}
      <4>1. /\ file.rows \in Seq(Row) /\ signals \in Seq(Signal)
            /\ LegalUpTo(file.rows, Len(file.rows))
            /\ BuiltOf(file.rows, signals, Len(file.rows))
        BY <2>1, <3>1 DEF RInv, IInv, TypeOK, File, Building
      <4>2. ToCsv(signals).rows = file.rows
        BY <4>1, SameRows
      <4> QED BY <2>1, <2>2, <3>1, <4>2 DEF RowsOf
    <3>2. CASE errors # {}
      BY <2>1, <2>2, <3>2
    <3> QED BY <3>1, <3>2
  <2>4. CASE file = NoFile
    <3>1. ~AcceptsFile(file)
      BY <2>4 DEF NoFile, AcceptsFile
    <3> QED BY <2>1, <2>3, <2>4, <3>1
  <2>5. CASE file # NoFile
    <3>1. Store!Answer
      BY <2>1, <2>3, <2>5 DEF Store!Answer
    <3> QED BY <3>1 DEF Store!Next
  <2> QED BY <2>4, <2>5
<1> QED BY <1>1, <1>2, <1>3, <1>4 DEF Next, Upload, Restore, Store!Next

\* For all files, the pass as a whole is one answer: what is on disk is, row for row,
\* the last legal file whose defaults are numbers of their types, and every other file
\* changes nothing, whether it is refused or ends the call with an exception.
THEOREM OneAnswer == Spec => KeepsLegalFiles
<1>1. Init => Store!Init
  <2> SUFFICES ASSUME Init PROVE Store!Init
    OBVIOUS
  <2>1. file = NoFile /\ disk = <<>>
    BY DEF Init
  <2>2. ToCsv(disk).rows = <<>>
    BY <2>1 DEF ToCsv
  <2> QED BY <2>1, <2>2 DEF Store!Init
<1>2. RInv /\ Answered /\ [Next]_vars => [Store!Next]_<<file, ToCsv(disk).rows>>
  BY StoreStep
<1> QED BY <1>1, <1>2, ReadInv, AnsweredAlways, PTL DEF Spec, KeepsLegalFiles, Store!Spec
=============================================================================
