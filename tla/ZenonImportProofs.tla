-------------------------- MODULE ZenonImportProofs --------------------------
(***************************************************************************)
(* Proofs about ZenonImport.                                               *)
(***************************************************************************)
EXTENDS ZenonImport, TLAPS

-----------------------------------------------------------------------------
(***************************************************************************)
(* The entries not uploaded yet are the last of the form's.                *)
(***************************************************************************)
LEMMA SuffixMeans ==
  ASSUME NEW S, NEW s \in Seq(S), NEW u \in Seq(S)
  PROVE  IsSuffix(s, u) <=> /\ Len(s) <= Len(u)
                            /\ \A i \in 1 .. Len(s) : s[i] = u[Len(u) - Len(s) + i]
<1> DEFINE P == SubSeq(Reverse(s), 1, Len(s))
           Q == SubSeq(Reverse(u), 1, Len(s))
<1>1. /\ Reverse(s) \in Seq(S) /\ Len(Reverse(s)) = Len(s)
      /\ Reverse(u) \in Seq(S) /\ Len(Reverse(u)) = Len(u)
  BY DEF Reverse
<1>2. IsSuffix(s, u) <=> Len(s) <= Len(u) /\ P = Q
  BY <1>1 DEF IsSuffix, IsPrefix
<1>3. ASSUME Len(s) <= Len(u)
      PROVE  P = Q <=> \A i \in 1 .. Len(s) : s[i] = u[Len(u) - Len(s) + i]
  <2>1. /\ P = [i \in 1 .. Len(s) |-> Reverse(s)[i]]
        /\ Q = [i \in 1 .. Len(s) |-> Reverse(u)[i]]
    BY <1>1, <1>3
  <2>2. \A i \in 1 .. Len(s) : /\ Reverse(s)[i] = s[Len(s) - i + 1]
                               /\ Reverse(u)[i] = u[Len(u) - i + 1]
    BY <1>3 DEF Reverse
  <2>3. ASSUME P = Q, NEW i \in 1 .. Len(s) PROVE s[i] = u[Len(u) - Len(s) + i]
    <3> DEFINE k == Len(s) - i + 1
    <3>1. k \in 1 .. Len(s) /\ Len(s) - k + 1 = i /\ Len(u) - k + 1 = Len(u) - Len(s) + i
      OBVIOUS
    <3>2. Reverse(s)[k] = Reverse(u)[k]
      BY <2>1, <2>3, <3>1
    <3> QED
      BY <2>2, <3>1, <3>2
  <2>4. ASSUME \A i \in 1 .. Len(s) : s[i] = u[Len(u) - Len(s) + i]
        PROVE  P = Q
    <3>1. ASSUME NEW k \in 1 .. Len(s) PROVE Reverse(s)[k] = Reverse(u)[k]
      <4> DEFINE i == Len(s) - k + 1
      <4>1. i \in 1 .. Len(s) /\ Len(u) - Len(s) + i = Len(u) - k + 1
        OBVIOUS
      <4> QED
        BY <2>2, <2>4, <4>1
    <3> QED
      BY <2>1, <3>1
  <2> QED
    BY <2>3, <2>4
<1> QED
  BY <1>2, <1>3

LEMMA SuffixTail ==
  ASSUME NEW S, NEW s \in Seq(S), NEW u \in Seq(S), IsSuffix(s, u), s # <<>>
  PROVE  IsSuffix(Tail(s), u) /\ Head(s) = u[Len(u) - Len(s) + 1]
<1>1. Len(s) <= Len(u) /\ \A i \in 1 .. Len(s) : s[i] = u[Len(u) - Len(s) + i]
  BY SuffixMeans
<1>2. Tail(s) \in Seq(S) /\ Len(Tail(s)) = Len(s) - 1 /\ Len(s) \in Nat \ {0}
  OBVIOUS
<1>3. \A i \in 1 .. Len(Tail(s)) : Tail(s)[i] = u[Len(u) - Len(Tail(s)) + i]
  <2> TAKE i \in 1 .. Len(Tail(s))
  <2>1. Tail(s)[i] = s[i + 1] /\ i + 1 \in 1 .. Len(s)
    BY <1>2
  <2> QED
    BY <1>1, <1>2, <2>1
<1>4. IsSuffix(Tail(s), u)
  <2>1. Len(Tail(s)) <= Len(u)
    BY <1>1, <1>2
  <2> QED
    BY <1>2, <1>3, <2>1, SuffixMeans
<1> QED
  BY <1>1, <1>2, <1>4

LEMMA SuffixEnds ==
  ASSUME NEW S, NEW u \in Seq(S)
  PROVE  IsSuffix(u, u) /\ IsSuffix(<<>>, u)
<1>1. <<>> \in Seq(S) /\ Len(<<>>) = 0
  OBVIOUS
<1>2. Len(u) \in Nat
  OBVIOUS
<1>3. IsSuffix(u, u)
  <2>1. Len(u) <= Len(u) /\ \A i \in 1 .. Len(u) : u[i] = u[Len(u) - Len(u) + i]
    BY <1>2
  <2> QED
    BY <2>1, SuffixMeans
<1>4. IsSuffix(<<>>, u)
  <2>1. Len(<<>>) <= Len(u) /\ \A i \in 1 .. Len(<<>>) : <<>>[i] = u[Len(u) - Len(<<>>) + i]
    BY <1>1, <1>2
  <2> QED
    BY <1>1, <2>1, SuffixMeans
<1> QED
  BY <1>3, <1>4

-----------------------------------------------------------------------------
(***************************************************************************)
(* Types.  What is left to upload is a list between two uploads only.      *)
(***************************************************************************)
Pcs == {"idle", "parsed", "read", "config", "signals", "unlink"}

Typed ==
  /\ TypeOK
  /\ signals = [i \in Path |-> signals[i]]
  /\ todo \in [Tab -> Seq(Entry)]
  /\ \A t \in Tab : /\ pc[t] # "signals" => todo[t] = <<>>
                    /\ pc[t] \in {"parsed", "config", "signals"} => export[t] \in Exports

LEMMA FormsTyped == Forms \cup {<<>>} \subseteq Seq(Entry)
<1>1. <<>> \in Seq(Entry)
  OBVIOUS
<1> QED
  BY <1>1, ImportAssumption

\* Each tab keeps what is said of it: its own step, or none.
LEMMA TodoStep ==
  ASSUME NEW t \in Tab, Typed,
         pc' \in [Tab -> Pcs], entries' \in [Tab -> Forms \cup {<<>>}], todo' \in [Tab -> Seq(Entry)],
         \A u \in Tab \ {t} :
           /\ pc'[u] = pc[u] /\ entries'[u] = entries[u]
           /\ todo'[u] = todo[u] /\ export'[u] = export[u],
         IsSuffix(todo'[t], entries'[t]), pc'[t] # "signals" => todo'[t] = <<>>,
         pc'[t] \in {"parsed", "config", "signals"} => export'[t] \in Exports
  PROVE  /\ \A u \in Tab : IsSuffix(todo[u], entries[u])'
         /\ \A u \in Tab : (/\ pc[u] # "signals" => todo[u] = <<>>
                            /\ pc[u] \in {"parsed", "config", "signals"} => export[u] \in Exports)'
<1>1. ASSUME NEW u \in Tab
      PROVE  /\ IsSuffix(todo'[u], entries'[u])
             /\ pc'[u] # "signals" => todo'[u] = <<>>
             /\ pc'[u] \in {"parsed", "config", "signals"} => export'[u] \in Exports
  <2>1. CASE u = t
    BY <2>1
  <2>2. CASE u # t
    BY <2>2 DEF Typed, TypeOK
  <2> QED
    BY <2>1, <2>2
<1> QED
  BY <1>1

LEMMA TypedInit == Init => Typed
<1> SUFFICES ASSUME Init PROVE Typed
  OBVIOUS
<1>1. <<>> \in Seq(Entry) /\ IsSuffix(<<>>, <<>>)
  <2>1. <<>> \in Seq(Entry)
    OBVIOUS
  <2> QED
    BY <2>1, SuffixEnds
<1>2. /\ pc \in [Tab -> Pcs] /\ todo \in [Tab -> Seq(Entry)]
      /\ entries \in [Tab -> Forms \cup {<<>>}] /\ export \in [Tab -> Exports \cup {<<>>}]
  BY <1>1 DEF Init, Pcs
<1>3. \A t \in Tab : IsSuffix(todo[t], entries[t]) /\ todo[t] = <<>>
  BY <1>1 DEF Init
<1>4. config = None /\ (\A i \in Path : signals[i] = None) /\ signals = [i \in Path |-> signals[i]]
  BY DEF Init
<1>5. /\ state \in {"SETUP", "RUNNING"} /\ tmp \in Exports \cup {None}
      /\ \A t \in Tab : pc[t] = "idle"
  BY DEF Init
<1> QED
  BY <1>2, <1>3, <1>4, <1>5 DEF Typed, TypeOK, Pcs

LEMMA TypedStep == ASSUME Typed, [Next]_vars PROVE Typed'
<1> USE DEF Typed, TypeOK
<1> DEFINE Same(t) == /\ pc' \in [Tab -> Pcs] /\ entries' \in [Tab -> Forms \cup {<<>>}]
                      /\ todo' \in [Tab -> Seq(Entry)]
                      /\ \A u \in Tab \ {t} :
                           /\ pc'[u] = pc[u] /\ entries'[u] = entries[u]
                           /\ todo'[u] = todo[u] /\ export'[u] = export[u]
<1>0. /\ pc \in [Tab -> Pcs] /\ <<>> \in Seq(Entry)
      /\ \A t \in Tab : /\ entries[t] \in Seq(Entry) /\ todo[t] \in Seq(Entry)
                        /\ IsSuffix(<<>>, entries[t]) /\ IsSuffix(entries[t], entries[t])
  <2>1. <<>> \in Seq(Entry)
    OBVIOUS
  <2>2. \A t \in Tab : entries[t] \in Seq(Entry)
    BY FormsTyped
  <2> QED
    BY <2>1, <2>2, SuffixEnds DEF Pcs
<1>1. ASSUME NEW t \in Tab, NEW file \in Exports, Parse(t, file) PROVE Typed'
  <2>1. Same(t) /\ pc'[t] # "signals" /\ todo'[t] = <<>> /\ entries'[t] = entries[t]
    BY <1>0, <1>1 DEF Parse, Pcs
  <2>2. IsSuffix(todo'[t], entries'[t])
    BY <1>0, <2>1
  <2>3. export' \in [Tab -> Exports \cup {<<>>}] /\ export'[t] \in Exports
    BY <1>1 DEF Parse
  <2>4. UNCHANGED <<state, config, signals, tmp>>
    BY <1>1 DEF Parse, engine
  <2> QED
    BY <2>1, <2>2, <2>3, <2>4, TodoStep DEF Pcs
<1>2. ASSUME NEW t \in Tab, Keep(t) PROVE Typed'
  <2>1. Same(t) /\ pc'[t] = "idle" /\ todo'[t] = <<>> /\ entries'[t] = entries[t]
    BY <1>0, <1>2 DEF Keep, Pcs
  <2>2. IsSuffix(todo'[t], entries'[t])
    BY <1>0, <2>1
  <2>3. export' \in [Tab -> Exports \cup {<<>>}] /\ tmp' \in Exports \cup {None}
    BY <1>2 DEF Keep
  <2> QED
    BY <2>1, <2>2, <2>3, <1>2, TodoStep DEF Keep, engine, Pcs
<1>3. ASSUME NEW t \in Tab, NEW es \in Forms, Generate(t, es) PROVE Typed'
  <2>1. Same(t) /\ pc'[t] = "read" /\ todo'[t] = <<>> /\ entries'[t] \in Seq(Entry)
    BY <1>0, <1>3, FormsTyped DEF Generate, Pcs
  <2>2. IsSuffix(todo'[t], entries'[t])
    BY <2>1, SuffixEnds
  <2>3. UNCHANGED <<export, state, config, signals, tmp>>
    BY <1>3 DEF Generate, engine
  <2> QED
    BY <2>1, <2>2, <2>3, TodoStep DEF Pcs
<1>4. ASSUME NEW t \in Tab, Read(t) PROVE Typed'
  <2>1. Same(t) /\ pc'[t] # "signals" /\ todo'[t] = <<>> /\ entries'[t] = entries[t]
    BY <1>0, <1>4 DEF Read, Fails, Pcs
  <2>2. IsSuffix(todo'[t], entries'[t])
    BY <1>0, <2>1
  <2>3. /\ export' \in [Tab -> Exports \cup {<<>>}]
        /\ pc'[t] \in {"idle", "config"} /\ (pc'[t] = "config" => export'[t] \in Exports)
    BY <1>4 DEF Read, Fails
  <2>4. UNCHANGED <<state, config, signals, tmp>>
    BY <1>4 DEF Read, engine
  <2> QED
    BY <2>1, <2>2, <2>3, <2>4, TodoStep DEF Pcs
<1>5. ASSUME NEW t \in Tab, UploadConfig(t) PROVE Typed'
  <2>1. /\ Same(t) /\ entries'[t] = entries[t]
        /\ \/ pc'[t] = "idle" /\ todo'[t] = <<>>
           \/ pc'[t] = "signals" /\ todo'[t] = entries[t]
        /\ export[t] \in Exports
    BY <1>0, <1>5 DEF UploadConfig, Fails, Pcs
  <2>2. IsSuffix(todo'[t], entries'[t]) /\ (pc'[t] # "signals" => todo'[t] = <<>>)
    BY <1>0, <2>1
  <2>3. UNCHANGED <<export, state, signals, tmp>> /\ (config' # None => LegalDevices(config)')
    BY <1>5 DEF UploadConfig, Fails
  <2> QED
    BY <2>1, <2>2, <2>3, TodoStep DEF Pcs
<1>6. ASSUME NEW t \in Tab, UploadSignals(t) PROVE Typed'
  <2>1. todo[t] \in Seq(Entry) /\ todo[t] # <<>> /\ Tail(todo[t]) \in Seq(Entry)
    BY <1>6 DEF UploadSignals
  <2>2. UNCHANGED <<entries, export, state, config, tmp>>
    BY <1>6 DEF UploadSignals, Fails
  <2>3. /\ pc' \in [Tab -> Pcs] /\ todo' \in [Tab -> Seq(Entry)]
        /\ \A u \in Tab \ {t} : pc'[u] = pc[u] /\ todo'[u] = todo[u]
        /\ \/ pc'[t] = "idle" /\ todo'[t] = <<>>
           \/ pc'[t] = "signals" /\ todo'[t] = Tail(todo[t])
    <3>1. CASE Uploads(Next1(t).id, Rows(t))
      BY <1>0, <1>6, <2>1, <3>1 DEF UploadSignals, Pcs
    <3>2. CASE ~Uploads(Next1(t).id, Rows(t))
      BY <1>0, <1>6, <3>2 DEF UploadSignals, Fails, Pcs
    <3> QED
      BY <3>1, <3>2
  <2>4. export[t] \in Exports
    BY <1>6 DEF UploadSignals
  <2>5. IsSuffix(todo'[t], entries'[t]) /\ (pc'[t] # "signals" => todo'[t] = <<>>)
    <3>1. IsSuffix(Tail(todo[t]), entries[t])
      BY <1>0, <2>1, SuffixTail
    <3> QED
      BY <1>0, <2>2, <2>3, <3>1
  <2>6. /\ signals' = [i \in Path |-> signals'[i]]
        /\ \A i \in Path : signals'[i] # None => Legal(signals'[i])
    BY <1>6 DEF UploadSignals, Fails, Uploads
  <2>7. Same(t)
    BY <1>0, <2>2, <2>3
  <2> QED
    BY <2>2, <2>3, <2>4, <2>5, <2>6, <2>7, TodoStep DEF Pcs
<1>7. ASSUME NEW t \in Tab, Uploaded(t) PROVE Typed'
  <2>1. Same(t) /\ pc'[t] = "unlink" /\ todo'[t] = <<>> /\ entries'[t] = entries[t]
    BY <1>0, <1>7 DEF Uploaded, Pcs
  <2>2. IsSuffix(todo'[t], entries'[t])
    BY <1>0, <2>1
  <2> QED
    BY <2>1, <2>2, <1>7, TodoStep DEF Uploaded, engine, Pcs
<1>8. ASSUME NEW t \in Tab, Unlink(t) PROVE Typed'
  <2>1. Same(t) /\ pc'[t] = "idle" /\ todo'[t] = <<>> /\ entries'[t] = entries[t]
    BY <1>0, <1>8 DEF Unlink, Pcs
  <2>2. IsSuffix(todo'[t], entries'[t])
    BY <1>0, <2>1
  <2> QED
    BY <2>1, <2>2, <1>8, TodoStep DEF Unlink, engine, Pcs
<1>9. ASSUME NEW id \in TextId, UploadByHand(id) PROVE Typed'
  BY <1>9 DEF UploadByHand, Uploads
<1>10. CASE Start
  BY <1>10 DEF Start
<1>11. CASE Reset
  BY <1>11 DEF Reset
<1>12. CASE UNCHANGED vars
  BY <1>12 DEF vars, engine
<1> QED
  BY <1>1, <1>2, <1>3, <1>4, <1>5, <1>6, <1>7, <1>8, <1>9, <1>10, <1>11, <1>12,
     ImportAssumption DEF Next

\* Types: what is left to upload is the rest of the form, the engine's config and
\* its signal lists are legal, and what is kept is an export.
THEOREM TypeCorrect == Spec => []TypeOK
<1>1. Typed => TypeOK
  BY DEF Typed
<1> QED
  BY <1>1, TypedInit, TypedStep, PTL DEF Spec

-----------------------------------------------------------------------------
(***************************************************************************)
(* Clean exports.  A register or bit of a row that clashes with another is *)
(* a place of both variables.                                              *)
(***************************************************************************)
CleanVariable(v) == v.offset \in Nat /\ (v.type = "BOOL" => v.bit \in 0 .. 15)

LEMMA CsvRowFields ==
  ASSUME NEW v \in Variable, Kept(v), NEW order \in WordOrders
  PROVE  LET r == CsvRow(v, order)
         IN /\ r.data_type = DataType(v.type) /\ r.data_type \in DataTypes
            /\ r.data_type = "bool" <=> v.type = "BOOL"
            /\ BoolInWord(r) <=> v.type = "BOOL"
            /\ r.name = v.name /\ r.address = v.offset
            /\ r.register_type = IF v.hw = 64 THEN "input" ELSE "holding"
<1>1. v.type \in ZenonTypes
  BY DEF Variable, Kept
<1>2. DataType(v.type) \in DataTypes /\ (DataType(v.type) = "bool" <=> v.type = "BOOL")
  BY <1>1 DEF DataType, DataTypes, ZenonTypes
<1> QED
  BY <1>2 DEF CsvRow, BoolInWord

LEMMA CleanRow ==
  ASSUME NEW v \in Variable, Kept(v), CleanVariable(v), NEW order \in WordOrders
  PROVE  WellFormed(CsvRow(v, order))
<1> DEFINE r == CsvRow(v, order)
<1>1. r.name # Empty /\ r.address \in Nat /\ r.register_type \in RegisterTypes
  BY CsvRowFields DEF Kept, CleanVariable, RegisterTypes
<1>2. r.bit_index \in IF BoolInWord(r) THEN 0 .. 15 ELSE {Empty}
  <2>1. CASE v.type = "BOOL"
    <3>1. v.bit \in 0 .. 15 /\ Bad \notin Int /\ 0 \in 0 .. 15
      BY <2>1, ImportAssumption DEF CleanVariable
    <3>2. r.bit_index \in 0 .. 15
      BY <2>1, <3>1 DEF CsvRow
    <3> QED
      BY <2>1, <3>2, CsvRowFields
  <2>2. CASE v.type # "BOOL"
    <3>1. r.bit_index = Empty
      BY <2>2 DEF CsvRow
    <3> QED
      BY <2>2, <3>1, CsvRowFields
  <2> QED
    BY <2>1, <2>2
<1>3. /\ r.data_type \in WideTypes => r.word_order \in WordOrders
      /\ r.word_order # Bad
  <2>1. r.data_type \in WideTypes => r.word_order = order
    BY CsvRowFields DEF CsvRow
  <2>2. r.word_order \in {order, Empty}
    BY DEF CsvRow
  <2> QED
    BY <2>1, <2>2, ImportAssumption
<1>4. r.scale # Bad /\ r.default_value # Bad /\ r.default_value \in {"0", "1"}
  BY ImportAssumption DEF CsvRow
<1> QED
  BY <1>1, <1>2, <1>3, <1>4, CsvRowFields DEF WellFormed

LEMMA ClashIsShared ==
  ASSUME NEW v \in Variable, NEW w \in Variable, Kept(v), Kept(w),
         CleanVariable(v), CleanVariable(w), NEW order \in WordOrders,
         Clash(CsvRow(v, order), CsvRow(w, order)), v.name # w.name
  PROVE  Places(v) \cap Places(w) # {}
<1> DEFINE r == CsvRow(v, order)
           q == CsvRow(w, order)
           Reg(x) == x.hw = 64
           Span(x) == IF DataType(x.type) \in {"uint32", "int32", "float32"} THEN 0 .. 1 ELSE {0}
           BitOf(x) == IF x.type = "BOOL" THEN x.bit ELSE 0
<1>1. /\ Overlap(r, q) /\ (BoolInWord(r) <=> BoolInWord(q))
      /\ BoolInWord(r) => r.bit_index = q.bit_index
  BY CsvRowFields DEF Clash
<1>2. (v.type = "BOOL" <=> w.type = "BOOL") /\ (v.hw = 64 <=> w.hw = 64)
  BY <1>1, CsvRowFields DEF Overlap
<1>3. BitOf(v) = BitOf(w)
  <2>1. CASE v.type = "BOOL"
    <3>1. v.bit # Bad /\ w.bit # Bad
      BY <1>2, <2>1, ImportAssumption DEF CleanVariable
    <3>2. r.bit_index = v.bit /\ q.bit_index = w.bit
      BY <1>2, <2>1, <3>1 DEF CsvRow
    <3> QED
      BY <1>1, <1>2, <2>1, <3>2, CsvRowFields
  <2> QED
    BY <1>2, <2>1
<1>4. PICK o \in Span(v), p \in Span(w) : v.offset + o = w.offset + p
  <2>1. v.offset \in Nat /\ w.offset \in Nat
    BY DEF CleanVariable
  <2>2. /\ r.data_type = DataType(v.type) /\ q.data_type = DataType(w.type)
        /\ r.address = v.offset /\ q.address = w.offset
    BY CsvRowFields
  <2>3. Reaches(r, q) \/ Reaches(q, r)
    BY <1>1 DEF Overlap
  <2>4. 0 \in Span(v) /\ 0 \in Span(w)
    OBVIOUS
  <2>5. ASSUME Reaches(r, q) PROVE \E o \in Span(v) : v.offset + o = w.offset + 0
    <3>1. /\ v.offset <= w.offset
          /\ w.offset <= v.offset + (IF r.data_type \in WideTypes THEN 1 ELSE 0)
      BY <2>2, <2>5 DEF Reaches
    <3>2. w.offset - v.offset \in Span(v)
      BY <2>1, <2>2, <3>1 DEF WideTypes
    <3> QED
      BY <2>1, <3>2
  <2>6. ASSUME Reaches(q, r) PROVE \E p \in Span(w) : v.offset + 0 = w.offset + p
    <3>1. /\ w.offset <= v.offset
          /\ v.offset <= w.offset + (IF q.data_type \in WideTypes THEN 1 ELSE 0)
      BY <2>2, <2>6 DEF Reaches
    <3>2. v.offset - w.offset \in Span(w)
      BY <2>1, <2>2, <3>1 DEF WideTypes
    <3> QED
      BY <2>1, <3>2
  <2> QED
    BY <2>3, <2>4, <2>5, <2>6
<1>5. /\ <<Reg(v), v.type = "BOOL", v.offset + o, BitOf(v)>> \in Places(v)
      /\ <<Reg(w), w.type = "BOOL", w.offset + p, BitOf(w)>> \in Places(w)
  BY DEF Places
<1>6. <<Reg(v), v.type = "BOOL", v.offset + o, BitOf(v)>>
      = <<Reg(w), w.type = "BOOL", w.offset + p, BitOf(w)>>
  BY <1>2, <1>3, <1>4
<1> QED
  BY <1>5, <1>6

\* A clean export is imported whole, whatever the form.
THEOREM CleanTaken == Spec => []CleanImports
<1>1. ASSUME Typed PROVE CleanImports
  <2> SUFFICES ASSUME NEW t \in Importer, pc[t] = "signals", todo[t] # <<>>,
                      NEW kept,
                      kept = {i \in DOMAIN export[t] :
                                Kept(export[t][i])
                                /\ KeyOf(export[t][i]) = <<Next1(t).driver, Next1(t).net>>},
                      \A i \in kept : CleanVariable(export[t][i]),
                      \A i, j \in kept : i # j =>
                        /\ export[t][i].name # export[t][j].name
                        /\ Places(export[t][i]) \cap Places(export[t][j]) = {},
                      Next1(t).word_order # Bad
               PROVE  Legal(Rows(t))
    BY DEF CleanImports, CleanVariable
  <2>1. t \in Tab /\ export[t] \in Seq(Variable) /\ Next1(t) \in Entry
    BY <1>1, ImportAssumption DEF Typed, TypeOK, Next1
  <2> DEFINE order == Next1(t).word_order
  <2>2. order \in WordOrders
    BY <2>1 DEF Entry
  <2>3. Rows(t) = [i \in kept |-> CsvRow(export[t][i], order)]
    BY DEF Rows, Csv
  <2>4. \A i \in kept : export[t][i] \in Variable /\ Kept(export[t][i])
    BY <2>1
  <2>5. ASSUME NEW i \in DOMAIN Rows(t) PROVE WellFormed(Rows(t)[i])
    <3>1. i \in kept /\ Rows(t)[i] = CsvRow(export[t][i], order)
      BY <2>3
    <3> QED
      BY <2>2, <2>4, <3>1, CleanRow
  <2>6. ASSUME NEW i \in DOMAIN Rows(t), NEW j \in DOMAIN Rows(t), i < j
        PROVE  ~Clash(Rows(t)[i], Rows(t)[j])
    <3>1. /\ i \in kept /\ Rows(t)[i] = CsvRow(export[t][i], order)
          /\ j \in kept /\ Rows(t)[j] = CsvRow(export[t][j], order)
      BY <2>3
    <3>2. i # j
      <4>1. i \in Int /\ j \in Int
        BY <2>1, <3>1
      <4> QED
        BY <2>6, <4>1
    <3>3. ASSUME Clash(Rows(t)[i], Rows(t)[j]) PROVE FALSE
      <4>1. export[t][i] \in Variable /\ export[t][j] \in Variable
            /\ Kept(export[t][i]) /\ Kept(export[t][j])
        BY <2>4, <3>1
      <4>2. /\ CleanVariable(export[t][i]) /\ CleanVariable(export[t][j])
            /\ export[t][i].name # export[t][j].name
            /\ Places(export[t][i]) \cap Places(export[t][j]) = {}
        BY <3>1, <3>2
      <4>3. Clash(CsvRow(export[t][i], order), CsvRow(export[t][j], order))
        BY <3>1, <3>3
      <4> QED
        BY <2>2, <4>1, <4>2, <4>3, ClashIsShared
    <3> QED
      BY <3>3
  <2> QED
    BY <2>5, <2>6 DEF Legal
<1> QED
  BY <1>1, TypedInit, TypedStep, PTL DEF Spec

-----------------------------------------------------------------------------
(***************************************************************************)
(* One tab that imports, and any number that parse.  While a config is     *)
(* locked it is the one its form made, and of the form's entries those     *)
(* that were uploaded have their signals; so an import that ends early     *)
(* ends at the first entry that cannot be uploaded.  With two that import  *)
(* a reset lets the second lock another config under the first.            *)
(***************************************************************************)
OneImporter == \A t, u \in Importer : t = u

Done(t) == Len(entries[t]) - Len(todo[t])
Sent(t, j) == /\ YamlId(entries[t][j].id) = entries[t][j].id
              /\ signals[entries[t][j].id] # None

Import(t) ==
  /\ pc[t] \in {"parsed", "read", "config"} => config = None
  /\ config # None => config = Yaml(entries[t])
  /\ pc[t] \in {"config", "signals", "unlink"} \/ config # None =>
       \A j \in DOMAIN entries[t] : entries[t][j].id \in TextId
  /\ pc[t] \in {"signals", "unlink"} /\ config # None =>
       \A j \in 1 .. Done(t) : Sent(t, j)

Pending(t) ==
  pc[t] = "idle" /\ config # None /\ ~Loaded =>
    \E i \in DOMAIN entries[t] :
      /\ \A j \in 1 .. i - 1 : signals[entries[t][j].id] # None
      /\ \/ YamlId(entries[t][i].id) # entries[t][i].id
         \/ ~Legal(Csv(export[t], entries[t][i]))

Running == state = "RUNNING" => config # None /\ Loaded

IInv == Typed /\ Running /\ \A t \in Importer : Import(t) /\ Pending(t)

\* No list of signals is None, which stands for a device without one.
LEMMA CsvIsFile ==
  ASSUME NEW file \in Exports, NEW e \in Entry
  PROVE  Csv(file, e) # None
<1> DEFINE mine == {j \in DOMAIN file : Kept(file[j]) /\ KeyOf(file[j]) = <<e.driver, e.net>>}
<1>1. file \in Seq(Variable) /\ mine \in SUBSET DOMAIN file
  BY ImportAssumption
<1>2. ASSUME NEW j \in mine PROVE CsvRow(file[j], e.word_order) \in Row
  <2> DEFINE v == file[j]
             r == CsvRow(v, e.word_order)
  <2>1. v \in Variable /\ Kept(v) /\ e.word_order \in WordOrders \cup {Bad}
    BY <1>1 DEF Entry
  <2>2. v.type \in ZenonTypes /\ v.name \in Name /\ v.offset \in Int /\ v.bit \in Int \cup {Bad}
    BY <2>1 DEF Variable, Kept
  <2>3. DataType(v.type) \in DataTypes
    BY <2>2 DEF DataType, DataTypes, ZenonTypes
  <2>4. (IF v.type # "BOOL" THEN Empty ELSE IF v.bit = Bad THEN 0 ELSE v.bit)
          \in Int \cup {Empty, Bad}
    BY <2>2
  <2>5. (IF v.hw = 64 THEN "input" ELSE "holding") \in RegisterTypes
    BY DEF RegisterTypes
  <2>6. (IF DataType(v.type) \in WideTypes THEN e.word_order ELSE Empty)
          \in WordOrders \cup {Empty, Bad}
    BY <2>1
  <2> QED
    BY <2>2, <2>3, <2>4, <2>5, <2>6 DEF CsvRow, Row, Defaults
<1>3. Csv(file, e) \in [mine -> Row]
  BY <1>2 DEF Csv
<1> QED
  BY <1>1, <1>3, ImportAssumption

LEMMA YamlIsList ==
  ASSUME NEW es \in Seq(Entry)
  PROVE  DOMAIN Yaml(es) = 1 .. Len(es) /\ Len(Yaml(es)) = Len(es)
<1>1. Yaml(es) \in Seq({Yaml(es)[i] : i \in 1 .. Len(es)})
  BY DEF Yaml
<1> QED
  BY <1>1 DEF Yaml

\* In a legal config no two entries are of one device: each speaks for itself.
LEMMA OwnEntry ==
  ASSUME NEW es \in Seq(Entry), LegalDevices(Yaml(es)), NEW i \in DOMAIN es
  PROVE  LastOf(es, i) = i
<1> DEFINE Of(k) == {j \in DOMAIN es : es[j].driver = es[k].driver /\ es[j].net = es[k].net}
<1>1. ASSUME NEW j \in Of(i) PROVE j = i
  <2>1. Of(j) = Of(i) /\ j \in DOMAIN es
    OBVIOUS
  <2>2. LastOf(es, j) = LastOf(es, i)
    BY <2>1 DEF LastOf
  <2>3. Yaml(es)[j].id = Yaml(es)[i].id
    BY <2>1, <2>2 DEF Yaml
  <2>4. DeviceClash(Yaml(es)[i], Yaml(es)[j]) /\ DeviceClash(Yaml(es)[j], Yaml(es)[i])
    BY <2>3 DEF DeviceClash
  <2>5. i \in 1 .. Len(Yaml(es)) /\ j \in 1 .. Len(Yaml(es))
    BY <2>1, YamlIsList
  <2>6. ~(i < j) /\ ~(j < i)
    BY <2>4, <2>5 DEF LegalDevices, LegalDevicesUpTo
  <2> QED
    BY <2>5, <2>6, YamlIsList
<1>2. Of(i) = {i} /\ i \in Int
  BY <1>1
<1>3. Max({i}) = i
  BY <1>2 DEF Max
<1> QED
  BY <1>2, <1>3 DEF LastOf

LEMMA YamlIds ==
  ASSUME NEW es \in Seq(Entry), LegalDevices(Yaml(es)), NEW i \in DOMAIN es
  PROVE  Yaml(es)[i].id = YamlId(es[i].id)
BY OwnEntry DEF Yaml

\* An id that the config has is that of the entry which has it.
LEMMA UploadedId ==
  ASSUME NEW es \in Seq(Entry), LegalDevices(Yaml(es)),
         \A j \in DOMAIN es : es[j].id \in TextId,
         NEW k \in DOMAIN es, NEW i \in DOMAIN es, Yaml(es)[i].id = es[k].id
  PROVE  YamlId(es[k].id) = es[k].id
<1>1. YamlId(es[i].id) = es[k].id /\ es[k].id \in TextId /\ es[i].id \in TextId
  BY YamlIds
<1>2. es[i].id = es[k].id
  BY <1>1, ImportAssumption
<1> QED
  BY <1>1, <1>2

-----------------------------------------------------------------------------
\* A list, once a device has one, stays until the config goes.
Keeps == config' = config /\ \A i \in Path : signals[i] # None => signals'[i] # None

LEMMA LoadedKept == ASSUME Keeps, Loaded PROVE Loaded'
BY DEF Keeps, Loaded

LEMMA DoneTyped ==
  ASSUME Typed, NEW t \in Importer
  PROVE  /\ entries[t] \in Seq(Entry) /\ todo[t] \in Seq(Entry)
         /\ Done(t) \in 0 .. Len(entries[t])
         /\ todo[t] # <<>> => /\ Next1(t) = entries[t][Done(t) + 1]
                             /\ Done(t) + 1 \in DOMAIN entries[t]
<1>1. entries[t] \in Seq(Entry) /\ todo[t] \in Seq(Entry) /\ IsSuffix(todo[t], entries[t])
  BY FormsTyped, ImportAssumption DEF Typed, TypeOK
<1>2. Len(todo[t]) <= Len(entries[t]) /\ Len(todo[t]) \in Nat /\ Len(entries[t]) \in Nat
  <2>1. Len(todo[t]) \in Nat /\ Len(entries[t]) \in Nat
    BY <1>1
  <2>2. Len(todo[t]) <= Len(entries[t])
    BY <1>1, SuffixMeans
  <2> QED
    BY <2>1, <2>2
<1>3. /\ Done(t) \in 0 .. Len(entries[t])
      /\ Len(todo[t]) # 0 => Done(t) + 1 \in 1 .. Len(entries[t])
  <2> DEFINE m == Len(entries[t])
             n == Len(todo[t])
  <2>1. m \in Nat /\ n \in Nat /\ n <= m
    BY <1>2
  <2> HIDE DEF m, n
  <2>2. m - n \in 0 .. m /\ (n # 0 => m - n + 1 \in 1 .. m)
    BY <2>1
  <2> QED
    BY <2>2 DEF m, n, Done
<1>4. ASSUME todo[t] # <<>>
      PROVE  Next1(t) = entries[t][Done(t) + 1] /\ Done(t) + 1 \in DOMAIN entries[t]
  <2>1. Next1(t) = entries[t][Done(t) + 1]
    BY <1>1, <1>4, SuffixTail DEF Next1, Done
  <2>2. Len(todo[t]) # 0 /\ DOMAIN entries[t] = 1 .. Len(entries[t])
    BY <1>1, <1>4
  <2>3. Done(t) + 1 \in 1 .. Len(entries[t])
    BY <1>3, <2>2
  <2> QED
    BY <2>1, <2>2, <2>3
<1> QED
  BY <1>1, <1>3, <1>4

LEMMA Frame ==
  ASSUME NEW t \in Importer, Typed, Import(t), Pending(t), Keeps,
         pc'[t] = pc[t], entries'[t] = entries[t], export'[t] = export[t], todo'[t] = todo[t]
  PROVE  Import(t)' /\ Pending(t)'
<1>1. TextId \subseteq Path /\ entries[t] \in Seq(Entry) /\ Done(t) \in 0 .. Len(entries[t])
  BY ImportAssumption, DoneTyped
<1>2. Done(t)' = Done(t) /\ config' = config
  BY DEF Done, Keeps
<1>3. Import(t)'
  <2>1. /\ pc'[t] \in {"parsed", "read", "config"} => config' = None
        /\ config' # None => config' = Yaml(entries'[t])
        /\ pc'[t] \in {"config", "signals", "unlink"} \/ config' # None =>
             \A j \in DOMAIN entries'[t] : entries'[t][j].id \in TextId
    BY <1>2 DEF Import
  <2>2. ASSUME pc'[t] \in {"signals", "unlink"} /\ config' # None, NEW j \in 1 .. Done(t)'
        PROVE  Sent(t, j)'
    <3>1. Sent(t, j)
      BY <1>2, <2>2 DEF Import
    <3>2. j \in DOMAIN entries[t]
      BY <1>1, <1>2
    <3>3. entries[t][j].id \in Path
      BY <1>1, <1>2, <2>2, <3>2 DEF Import
    <3> QED
      BY <3>1, <3>3 DEF Sent, Keeps
  <2> QED
    BY <2>1, <2>2 DEF Import
<1>4. Pending(t)'
  <2> SUFFICES ASSUME pc'[t] = "idle", config' # None, ~Loaded'
               PROVE  \E i \in DOMAIN entries[t] :
                        /\ \A j \in 1 .. i - 1 : signals'[entries[t][j].id] # None
                        /\ \/ YamlId(entries[t][i].id) # entries[t][i].id
                           \/ ~Legal(Csv(export[t], entries[t][i]))
    BY DEF Pending
  <2>1. PICK i \in DOMAIN entries[t] :
          /\ \A j \in 1 .. i - 1 : signals[entries[t][j].id] # None
          /\ \/ YamlId(entries[t][i].id) # entries[t][i].id
             \/ ~Legal(Csv(export[t], entries[t][i]))
    BY <1>2, LoadedKept DEF Pending
  <2>2. ASSUME NEW j \in 1 .. i - 1 PROVE signals'[entries[t][j].id] # None
    <3>1. j \in DOMAIN entries[t]
      BY <1>1
    <3>2. entries[t][j].id \in Path
      BY <1>1, <1>2, <3>1 DEF Import
    <3> QED
      BY <2>1, <3>2 DEF Keeps
  <2> QED
    BY <2>1, <2>2
<1> QED
  BY <1>3, <1>4

\* Nothing is locked: nothing is said of the lists, nor of what is pending.
LEMMA NoneLocked ==
  ASSUME NEW t \in Importer, config' = None,
         pc'[t] \in {"config", "signals", "unlink"} =>
           \A j \in DOMAIN entries'[t] : entries'[t][j].id \in TextId
  PROVE  Import(t)' /\ Pending(t)'
BY DEF Import, Pending

\* The importer's own upload of signals.
LEMMA UploadStep ==
  ASSUME NEW t \in Importer, Typed, Running, Import(t), Pending(t), UploadSignals(t)
  PROVE  Import(t)' /\ Pending(t)'
<1> DEFINE k == Done(t) + 1
           e == entries[t][k]
<1>1. /\ entries[t] \in Seq(Entry) /\ todo[t] \in Seq(Entry) /\ t \in Tab
      /\ Next1(t) = e /\ k \in DOMAIN entries[t] /\ Done(t) \in 0 .. Len(entries[t])
      /\ pc[t] = "signals" /\ todo[t] # <<>> /\ export[t] \in Exports
      /\ config' = config /\ entries' = entries /\ export' = export
  BY DoneTyped, ImportAssumption DEF UploadSignals, Fails, Typed, TypeOK
<1>2. /\ \A j \in DOMAIN entries[t] : entries[t][j].id \in TextId
      /\ config # None => /\ config = Yaml(entries[t]) /\ LegalDevices(Yaml(entries[t]))
                         /\ \A j \in 1 .. Done(t) : Sent(t, j)
  BY <1>1 DEF Import, Typed, TypeOK
<1>3. e.id \in Path /\ (Rows(t) # None)
  BY <1>1, <1>2, CsvIsFile, ImportAssumption DEF Rows
<1>4. CASE Uploads(e.id, Rows(t))
  <2>1. /\ signals' = [signals EXCEPT ![e.id] = Rows(t)]
        /\ pc' = pc /\ todo'[t] = Tail(todo[t])
    BY <1>1, <1>4 DEF UploadSignals, Typed
  <2>2. Done(t)' = k
    <3>1. Len(todo'[t]) = Len(todo[t]) - 1 /\ Len(todo[t]) \in Nat
      BY <1>1, <2>1
    <3>2. Len(entries[t]) \in Nat
      BY <1>1
    <3> QED
      BY <1>1, <3>1, <3>2 DEF Done
  <2>3. config # None /\ \E i \in DOMAIN config : config[i].id = e.id
    BY <1>4 DEF Uploads
  <2>4. YamlId(e.id) = e.id
    <3>1. PICK i \in DOMAIN entries[t] : Yaml(entries[t])[i].id = e.id
      BY <1>1, <1>2, <2>3, YamlIsList
    <3> QED
      BY <1>1, <1>2, <2>3, <3>1, UploadedId
  <2>5. ASSUME NEW j \in 1 .. k PROVE Sent(t, j)'
    <3>1. entries[t][j].id \in Path
      BY <1>1, <1>2, ImportAssumption
    <3>2. CASE entries[t][j].id = e.id
      BY <1>1, <1>3, <2>1, <2>4, <3>1, <3>2 DEF Sent, Typed
    <3>3. CASE entries[t][j].id # e.id
      <4>1. j \in 1 .. Done(t)
        BY <1>1, <3>3
      <4> QED
        BY <1>1, <1>2, <2>1, <2>3, <3>1, <3>3, <4>1 DEF Sent, Typed
    <3> QED
      BY <3>2, <3>3
  <2> QED
    BY <1>1, <1>2, <2>1, <2>2, <2>3, <2>5 DEF Import, Pending
<1>5. CASE ~Uploads(e.id, Rows(t))
  <2>1. signals' = signals /\ pc'[t] = "idle"
    BY <1>1, <1>5 DEF UploadSignals, Fails, Typed, TypeOK
  <2>2. Import(t)'
    BY <1>1, <1>2, <2>1 DEF Import
  <2>3. Loaded' <=> Loaded
    BY <1>1, <2>1 DEF Loaded
  <2>4. ASSUME config # None, ~Loaded
        PROVE  /\ \A j \in 1 .. k - 1 : signals[entries[t][j].id] # None
               /\ YamlId(e.id) # e.id \/ ~Legal(Csv(export[t], e))
    <3>1. state = "SETUP"
      BY <2>4 DEF Running, Typed, TypeOK
    <3>2. k - 1 = Done(t)
      BY <1>1
    <3>3. \A j \in 1 .. k - 1 : signals[entries[t][j].id] # None
      BY <1>2, <2>4, <3>2 DEF Sent
    <3>4. ASSUME Legal(Csv(export[t], e)) PROVE YamlId(e.id) # e.id
      <4>1. ~\E i \in DOMAIN config : config[i].id = e.id
        BY <1>1, <1>5, <2>4, <3>1, <3>4 DEF Uploads, Rows
      <4>2. k \in DOMAIN config /\ config[k].id = YamlId(e.id)
        BY <1>1, <1>2, <2>4, YamlIsList, YamlIds
      <4> QED
        BY <4>1, <4>2
    <3> QED
      BY <3>3, <3>4
  <2>5. Pending(t)'
    BY <1>1, <2>1, <2>3, <2>4 DEF Pending
  <2> QED
    BY <2>2, <2>5
<1> QED
  BY <1>4, <1>5

-----------------------------------------------------------------------------
LEMMA ImportInit == Init => IInv
<1> SUFFICES ASSUME Init PROVE IInv
  OBVIOUS
<1>1. config = None /\ state = "SETUP" /\ \A t \in Importer : pc[t] = "idle"
  BY ImportAssumption DEF Init
<1>2. \A t \in Importer : Import(t) /\ Pending(t)
  BY <1>1 DEF Import, Pending
<1> QED
  BY <1>1, <1>2, TypedInit DEF IInv, Running

\* A simulation that runs keeps its signals.
LEMMA RunningStep == ASSUME IInv, [Next]_vars PROVE Running'
<1> USE DEF IInv, Running
<1>1. ASSUME NEW t \in Tab, NEW file \in Exports, Parse(t, file) PROVE Running'
  BY <1>1 DEF Parse, engine, Loaded
<1>2. ASSUME NEW t \in Tab, Keep(t) PROVE Running'
  BY <1>2 DEF Keep, engine, Loaded
<1>3. ASSUME NEW t \in Importer, NEW es \in Forms, Generate(t, es) PROVE Running'
  BY <1>3 DEF Generate, engine, Loaded
<1>4. ASSUME NEW t \in Importer, Read(t) PROVE Running'
  BY <1>4 DEF Read, engine, Loaded
<1>5. ASSUME NEW t \in Importer, UploadConfig(t) PROVE Running'
  BY <1>5 DEF UploadConfig, Open, Loaded
<1>6. ASSUME NEW t \in Importer, UploadSignals(t) PROVE Running'
  BY <1>6 DEF UploadSignals, Uploads, Loaded
<1>7. ASSUME NEW t \in Importer, Uploaded(t) PROVE Running'
  BY <1>7 DEF Uploaded, engine, Loaded
<1>8. ASSUME NEW t \in Importer, Unlink(t) PROVE Running'
  BY <1>8 DEF Unlink, engine, Loaded
<1>9. ASSUME NEW id \in TextId, UploadByHand(id) PROVE Running'
  BY <1>9 DEF UploadByHand, Uploads
<1>10. CASE Start
  BY <1>10 DEF Start, Loaded
<1>11. CASE Reset
  BY <1>11 DEF Reset
<1>12. CASE UNCHANGED vars
  BY <1>12 DEF vars, engine, Loaded
<1> QED
  BY <1>1, <1>2, <1>3, <1>4, <1>5, <1>6, <1>7, <1>8, <1>9, <1>10, <1>11, <1>12 DEF Next

\* When an import is through, all of its form has been sent.
LEMMA ThroughIsReady ==
  ASSUME IInv, NEW t \in Importer, pc[t] = "unlink", config # None
  PROVE  Loaded
<1>1. entries[t] \in Seq(Entry) /\ t \in Tab
  BY DoneTyped, ImportAssumption DEF IInv
<1>2. todo[t] = <<>> /\ config = Yaml(entries[t]) /\ LegalDevices(Yaml(entries[t]))
  BY <1>1 DEF IInv, Typed, TypeOK, Import
<1>3. Done(t) = Len(entries[t])
  BY <1>1, <1>2 DEF Done
<1>4. \A j \in DOMAIN entries[t] : Sent(t, j) /\ entries[t][j].id \in TextId
  BY <1>1, <1>3 DEF IInv, Import
<1>5. DOMAIN config = DOMAIN entries[t]
  BY <1>1, <1>2, YamlIsList
<1>6. \A j \in DOMAIN entries[t] : config[j].id = entries[t][j].id
  BY <1>1, <1>2, <1>4, YamlIds DEF Sent
<1> QED
  BY <1>4, <1>5, <1>6, ImportAssumption DEF Loaded, Sent

LEMMA ImportStep ==
  ASSUME OneImporter, IInv, [Next]_vars, NEW t \in Importer
  PROVE  Import(t)' /\ Pending(t)'
<1>0. /\ Typed /\ Running /\ Import(t) /\ Pending(t) /\ t \in Tab
      /\ \A u \in Tab : u # t => u \notin Importer
      /\ pc \in [Tab -> Pcs] /\ todo \in [Tab -> Seq(Entry)]
      /\ DOMAIN entries = Tab /\ DOMAIN export = Tab
  BY ImportAssumption DEF IInv, OneImporter, Typed, TypeOK, Pcs
<1> DEFINE Still == /\ pc'[t] = pc[t] /\ entries'[t] = entries[t]
                    /\ export'[t] = export[t] /\ todo'[t] = todo[t]
<1>1. ASSUME NEW u \in Tab, NEW file \in Exports, Parse(u, file)
      PROVE  Import(t)' /\ Pending(t)'
  <2>1. config' = None /\ signals' = signals
    BY <1>1 DEF Parse, Open, engine
  <2>2. CASE u = t
    BY <1>0, <1>1, <2>1, <2>2, NoneLocked DEF Parse
  <2>3. CASE u # t
    BY <1>0, <1>1, <2>1, <2>3, Frame DEF Parse, Open, engine, Keeps
  <2> QED
    BY <2>2, <2>3
<1>2. ASSUME NEW u \in Tab, Keep(u) PROVE Import(t)' /\ Pending(t)'
  <2>1. config' = config /\ signals' = signals
    BY <1>2 DEF Keep, engine
  <2>2. CASE u = t
    BY <1>0, <1>2, <2>1, <2>2, NoneLocked DEF Keep, Import
  <2>3. CASE u # t
    BY <1>0, <1>2, <2>1, <2>3, Frame DEF Keep, Keeps
  <2> QED
    BY <2>2, <2>3
<1>3. ASSUME NEW es \in Forms, Generate(t, es) PROVE Import(t)' /\ Pending(t)'
  BY <1>0, <1>3, NoneLocked DEF Generate, Open, engine
<1>4. ASSUME Read(t) PROVE Import(t)' /\ Pending(t)'
  <2>1. config' = None
    BY <1>0, <1>4 DEF Read, engine, Import
  <2>2. ASSUME pc'[t] = "config", NEW j \in DOMAIN entries[t]
        PROVE  entries[t][j].id \in TextId
    <3>1. EntryValid(tmp, entries[t][j])
      BY <1>0, <1>4, <2>2 DEF Read, Fails
    <3>2. entries[t][j] \in Entry
      BY <1>0, DoneTyped
    <3> QED
      BY <3>1, <3>2 DEF EntryValid, Entry
  <2>3. entries' = entries /\ pc'[t] \in {"idle", "config"}
    BY <1>0, <1>4 DEF Read, Fails
  <2> QED
    BY <2>1, <2>2, <2>3, NoneLocked
<1>5. ASSUME UploadConfig(t) PROVE Import(t)' /\ Pending(t)'
  <2>1. /\ config = None /\ entries' = entries /\ signals' = signals
        /\ \A j \in DOMAIN entries[t] : entries[t][j].id \in TextId
    BY <1>0, <1>5 DEF UploadConfig, Fails, Import
  <2>2. CASE Open /\ LegalDevices(Yaml(entries[t]))
    <3>1. config' = Yaml(entries[t]) /\ pc'[t] = "signals" /\ todo'[t] = entries[t]
      BY <1>0, <1>5, <2>2 DEF UploadConfig
    <3>2. Done(t)' = 0
      <4>1. entries[t] \in Seq(Entry)
        BY <1>0, DoneTyped
      <4> QED
        BY <2>1, <3>1, <4>1 DEF Done
    <3> QED
      BY <2>1, <3>1, <3>2 DEF Import, Pending
  <2>3. CASE ~(Open /\ LegalDevices(Yaml(entries[t])))
    <3>1. config' = None /\ pc'[t] = "idle"
      BY <1>0, <1>5, <2>1, <2>3 DEF UploadConfig, Fails
    <3> QED
      BY <3>1, NoneLocked
  <2> QED
    BY <2>2, <2>3
<1>6. ASSUME UploadSignals(t) PROVE Import(t)' /\ Pending(t)'
  BY <1>0, <1>6, UploadStep
<1>7. ASSUME Uploaded(t) PROVE Import(t)' /\ Pending(t)'
  <2>1. /\ config' = config /\ signals' = signals /\ entries' = entries /\ todo' = todo
        /\ pc[t] = "signals" /\ pc'[t] = "unlink"
    BY <1>0, <1>7 DEF Uploaded, engine
  <2>2. Done(t)' = Done(t) /\ \A j \in 1 .. Done(t) : Sent(t, j)' <=> Sent(t, j)
    BY <2>1 DEF Done, Sent
  <2> QED
    BY <1>0, <2>1, <2>2 DEF Import, Pending
<1>8. ASSUME Unlink(t) PROVE Import(t)' /\ Pending(t)'
  <2>1. /\ config' = config /\ signals' = signals /\ entries' = entries
        /\ pc[t] = "unlink" /\ pc'[t] = "idle"
    BY <1>0, <1>8 DEF Unlink, engine
  <2>2. config' # None => Loaded'
    BY <2>1, ThroughIsReady DEF Loaded
  <2> QED
    BY <1>0, <2>1, <2>2 DEF Import, Pending
<1>9. ASSUME NEW id \in TextId, UploadByHand(id) PROVE Import(t)' /\ Pending(t)'
  <2>1. Keeps
    BY <1>9, ImportAssumption DEF UploadByHand, Keeps, Typed, IInv
  <2>2. Still
    BY <1>9 DEF UploadByHand
  <2> QED
    BY <1>0, <2>1, <2>2, Frame
<1>10. CASE Start
  BY <1>0, <1>10, Frame DEF Start, Keeps
<1>11. CASE Reset
  <2>1. config' = None /\ pc' = pc /\ entries' = entries
    BY <1>11 DEF Reset
  <2> QED
    BY <1>0, <2>1, NoneLocked DEF Import
<1>12. CASE UNCHANGED vars
  BY <1>0, <1>12, Frame DEF vars, engine, Keeps
<1> QED
  BY <1>0, <1>1, <1>2, <1>3, <1>4, <1>5, <1>6, <1>7, <1>8, <1>9, <1>10, <1>11, <1>12,
     OneImporter, ImportAssumption DEF Next, OneImporter

LEMMA ImportInvariance == ASSUME OneImporter PROVE Spec => []IInv
<1>1. Init => IInv
  BY ImportInit
<1>2. ASSUME IInv, [Next]_vars PROVE IInv'
  <2>1. Typed'
    BY <1>2, TypedStep DEF IInv
  <2>2. Running'
    BY <1>2, RunningStep
  <2>3. \A t \in Importer : Import(t)' /\ Pending(t)'
    BY <1>2, ImportStep
  <2> QED
    BY <2>1, <2>2, <2>3 DEF IInv
<1> QED
  BY <1>1, <1>2, PTL DEF Spec

\* With one tab that imports: when its import is through, every device of the
\* project it made has its signals.
THEOREM ReadyToStart == ASSUME OneImporter PROVE Spec => []AnswerReady
<1>1. IInv => AnswerReady
  BY ThroughIsReady DEF AnswerReady
<1> QED
  BY <1>1, ImportInvariance, PTL

\* With one tab that imports: an import that ends on a locked project ended at an
\* entry whose rows break a rule, or whose id YAML reads otherwise.
THEOREM FailsForCause == ASSUME OneImporter PROVE Spec => []PendingForCause
<1>1. IInv => PendingForCause
  BY DEF IInv, Pending, PendingForCause
<1> QED
  BY <1>1, ImportInvariance, PTL
=============================================================================
