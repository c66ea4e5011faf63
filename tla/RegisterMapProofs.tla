------------------------- MODULE RegisterMapProofs -------------------------
(***************************************************************************)
(* Machine-checked proofs about RegisterMap, for every set of API threads, *)
(* every signal list, every word size and every request: types and the     *)
(* lock, what a locked block reads and writes, the simulation settings,    *)
(* and that every call takes effect as AtomicRegisterMap says.             *)
(***************************************************************************)
EXTENDS RegisterMap, TLAPS

(***************************************************************************)
(* The calls are well typed.                                               *)
(***************************************************************************)
\* A signal's cells lie in the store.
LEMMA CellTyped ==
  ASSUME NEW s \in SignalSet
  PROVE  /\ s \in SignalRecord
         /\ CellOf(s, 0) \in Cell
         /\ IsWide(s) => CellOf(s, 1) \in Cell
<1>1. s \in SignalRecord
  BY SignalsAssumption DEF SignalSet
<1>2. s.address \in Address /\ s.register_type \in REGISTER_TYPES
  BY <1>1 DEF SignalRecord
<1>3. s.address + 0 = s.address
  BY <1>2, SignalsAssumption DEF Address
<1>4. CellOf(s, 0) \in Cell
  BY <1>2, <1>3 DEF CellOf, Cell
<1>5. IsWide(s) => CellOf(s, 1) \in Cell
  BY <1>2, SignalsAssumption DEF CellOf, Cell
<1> QED BY <1>1, <1>4, <1>5

\* The bits a signal owns are bits of a word.
LEMMA MaskTyped ==
  ASSUME NEW s \in SignalSet, NEW c
  PROVE  SignalMask(s, c) \in Word
BY DEF SignalMask, Word

\* So are the bits of several signals.
LEMMA SimMaskTyped ==
  ASSUME NEW sims \in SUBSET SignalSet, NEW c
  PROVE  SimMask(sims, c) \in Word
BY MaskTyped DEF SimMask, Word

\* A write is an access.
LEMMA WriteTyped ==
  ASSUME NEW cells \in SUBSET Cell, NEW mask \in Word, NEW bits \in Word
  PROVE  Write(cells, mask, bits) \in Access
BY DEF Write, Access

\* A read is an access.
LEMMA ReadTyped ==
  ASSUME NEW c \in Cell, NEW mask \in Word, NEW who \in SignalSet \cup {NoSignal}
  PROVE  Read(c, mask, who) \in Access
BY DEF Read, Access, Word

\* _store_raw of a typed value is a sequence of accesses.
LEMMA StoreRawTyped ==
  ASSUME NEW s \in SignalSet, NEW raw \in Raw
  PROVE  StoreRaw(s, raw) \in Seq(Access)
<1> DEFINE first == IF s.word_order = "little_endian" THEN raw.low ELSE raw.high
           second == IF s.word_order = "little_endian" THEN raw.high ELSE raw.low
           on == IF raw.low = {} THEN {} ELSE {BitOf(s)}
<1>1. first \in Word /\ second \in Word /\ raw.low \in Word
  BY DEF Raw
<1>2. on \in Word
  BY CellTyped, SignalsAssumption DEF SignalRecord, BitOf, Word, Bit
<1>3. Bit \in Word
  BY DEF Word
<1>4. {CellOf(s, 0)} \in SUBSET Cell /\ (IsWide(s) => {CellOf(s, 1)} \in SUBSET Cell)
  BY CellTyped
<1>5. SignalMask(s, CellOf(s, 0)) \in Word
  BY MaskTyped
<1>6. /\ Write({CellOf(s, 0)}, Bit, first) \in Access
      /\ Write({CellOf(s, 0)}, Bit, raw.low) \in Access
      /\ Write({CellOf(s, 0)}, Bit, on) \in Access
      /\ Write({CellOf(s, 0)}, SignalMask(s, CellOf(s, 0)), on) \in Access
      /\ IsWide(s) => Write({CellOf(s, 1)}, Bit, second) \in Access
  BY <1>1, <1>2, <1>3, <1>4, <1>5, WriteTyped
<1> QED BY <1>6 DEF StoreRaw

\* read_signal is a section.
LEMMA ReadSignalTyped ==
  ASSUME NEW s \in SignalSet
  PROVE  ReadSignal(s) \in Section
<1>1. Read(CellOf(s, 0), SignalMask(s, CellOf(s, 0)), s) \in Access
  BY CellTyped, MaskTyped, ReadTyped
<1>2. IsWide(s) => Read(CellOf(s, 1), SignalMask(s, CellOf(s, 1)), s) \in Access
  BY CellTyped, MaskTyped, ReadTyped
<1>3. ReadSignal(s).body \in Seq(Access)
  BY <1>1, <1>2 DEF ReadSignal
<1> QED BY <1>3 DEF ReadSignal, Section

\* Accesses under the lock are a section.
LEMMA LockedTyped ==
  ASSUME NEW body \in Seq(Access)
  PROVE  Locked(body) \in Section
BY DEF Locked, Prepared, Section

\* The API's calls are well typed.
LEMMA ApiCallsTyped == ApiCalls \subseteq Call
<1>1. ASSUME NEW s \in SignalSet, NEW raw \in RawValues
      PROVE  SetValue(s, raw) \in Call
  <2>1. raw \in Raw
    BY InputsAssumption
  <2>2. Locked(StoreRaw(s, raw)) \in Section /\ ReadSignal(s) \in Section
    BY <2>1, StoreRawTyped, LockedTyped, ReadSignalTyped
  <2> QED BY <2>2 DEF SetValue, Call
<1>2. Len(Signals) \in Nat /\ \A i \in 1 .. Len(Signals) : Signals[i] \in SignalSet
  BY SignalsAssumption DEF SignalSet
<1>3. SetDefaults \in Call
  <2>1. ASSUME NEW i \in 1 .. Len(Signals)
        PROVE  Locked(StoreRaw(Signals[i], Signals[i].default_raw)) \in Section
    <3>1. Signals[i] \in SignalSet /\ Signals[i].default_raw \in Raw
      BY <1>2, CellTyped DEF SignalRecord
    <3> QED BY <3>1, StoreRawTyped, LockedTyped
  <2>2. SetDefaults.sections \in Seq(Section)
    BY <1>2, <2>1 DEF SetDefaults
  <2> QED BY <2>2 DEF SetDefaults, Call
<1>4. ClearAll \in Call
  <2> DEFINE table(rt) == Write({rt} \X Address, Bit, {})
  <2>1. ASSUME NEW rt \in REGISTER_TYPES PROVE table(rt) \in Access
    <3>1. {rt} \X Address \in SUBSET Cell
      BY DEF Cell
    <3> QED BY <3>1, WriteTyped DEF Word
  <2>2. <<table("holding"), table("input"), table("coil"), table("discrete_input")>> \in Seq(Access)
    <3> HIDE DEF table
    <3> QED BY <2>1 DEF REGISTER_TYPES
  <2>3. Locked(<<table("holding"), table("input"), table("coil"), table("discrete_input")>>) \in Section
    BY <2>2, LockedTyped
  <2> QED BY <2>3 DEF ClearAll, Call
<1>5. GetValues \in Call
  <2>1. GetValues.sections \in Seq(Section)
    BY <1>2, ReadSignalTyped DEF GetValues
  <2> QED BY <2>1 DEF GetValues, Call
<1> QED BY <1>1, <1>3, <1>4, <1>5 DEF ApiCalls

\* Changes of the simulation settings are well typed.
LEMMA SimCallsTyped == SimCalls \subseteq Call
<1> SUFFICES ASSUME NEW sims \in SimChoices
             PROVE  SetSimDefaults(sims) \in Call
  BY DEF SimCalls
<1>1. sims \in SUBSET SignalSet
  BY InputsAssumption
<1>2. Prepared("assign", sims, <<>>) \in Section
  BY <1>1 DEF Prepared, Section
<1>3. Swap \in Access
  BY DEF Swap, Access, Word
<1>4. Prepared("build", {}, <<Swap>>) \in Section
  BY <1>3 DEF Prepared, Section
<1> QED BY <1>2, <1>4 DEF SetSimDefaults, Call

\* The Modbus server's calls are well typed.
LEMMA ModbusCallsTyped == ModbusCalls \subseteq Call
<1>1. Bit \in Word /\ {} \in Word /\ {0} \in Word
  BY SignalsAssumption DEF Word, Bit
<1>2. Overlay \in Access
  BY DEF Overlay, Access, Word
<1>3. ASSUME NEW r \in BlockReads
      PROVE  ReadBlock(r[1], r[2], r[3]) \in Call
  <2> DEFINE body == [i \in 1 .. r[3] + 1 |->
                        IF i = r[3] + 1 THEN Overlay
                        ELSE Read(<<r[1], r[2] + i - 1>>, Bit, NoSignal)]
  <2>1. r[3] \in Nat /\ r[1] \in REGISTER_TYPES
    BY InputsAssumption DEF REGISTER_TYPES
  <2>2. ASSUME NEW i \in 1 .. r[3] + 1 PROVE body[i] \in Access
    <3>1. CASE i = r[3] + 1
      BY <3>1, <1>2
    <3>2. CASE i # r[3] + 1
      <4>1. i \in 1 .. r[3]
        BY <2>1, <3>2
      <4>2. <<r[1], r[2] + i - 1>> \in Cell
        BY <2>1, <4>1, InputsAssumption DEF Cell
      <4> QED BY <3>2, <4>2, <1>1, ReadTyped
    <3> QED BY <3>1, <3>2
  <2>3. body \in Seq(Access)
    <3>1. DOMAIN body = 1 .. r[3] + 1 /\ body = [i \in DOMAIN body |-> body[i]]
      OBVIOUS
    <3> HIDE DEF body
    <3>2. body \in [1 .. r[3] + 1 -> Access]
      BY <2>2, <3>1
    <3> QED BY <2>1, <3>2
  <2>4. Locked(body) \in Section
    BY <2>3, LockedTyped
  <2> QED BY <2>4 DEF ReadBlock, Call
<1>4. ASSUME NEW w \in BlockWrites
      PROVE  WriteBlock(w[1], w[2]) \in Call
  <2> DEFINE body == [i \in 1 .. Len(w[2]) |->
                        Write({<<"holding", w[1] + i - 1>>}, Bit, w[2][i])]
  <2>1. w[2] \in Seq(Word) /\ Len(w[2]) \in Nat
    BY InputsAssumption
  <2>2. ASSUME NEW i \in 1 .. Len(w[2])
        PROVE  Write({<<"holding", w[1] + i - 1>>}, Bit, w[2][i]) \in Access
    <3>1. <<"holding", w[1] + i - 1>> \in Cell
      BY InputsAssumption DEF Cell, REGISTER_TYPES
    <3>2. w[2][i] \in Word
      BY <2>1
    <3> QED BY <3>1, <3>2, <1>1, WriteTyped
  <2>3. body \in Seq(Access)
    <3>1. \A i \in 1 .. Len(w[2]) : body[i] \in Access
      BY <2>2
    <3>2. DOMAIN body = 1 .. Len(w[2]) /\ body = [i \in DOMAIN body |-> body[i]]
      OBVIOUS
    <3> HIDE DEF body
    <3>3. body \in [1 .. Len(w[2]) -> Access]
      BY <3>1, <3>2
    <3> QED BY <2>1, <3>3
  <2>4. Locked(body) \in Section
    BY <2>3, LockedTyped
  <2> QED BY <2>4 DEF WriteBlock, Call
<1>5. ASSUME NEW r \in BitReads
      PROVE  ReadBits(r[1], r[2], r[3]) \in Call
  <2> DEFINE base == (r[2] \div WordSize) * WordSize
             n == r[3] * WordSize
             section(i) == Locked(<<Read(<<r[1], base + i - 1>>, {0}, NoSignal), Overlay>>)
  <2>1. n \in Nat /\ r[1] \in REGISTER_TYPES
    BY InputsAssumption, SignalsAssumption DEF REGISTER_TYPES, BitTypes
  <2>2. ASSUME NEW i \in 1 .. n PROVE section(i) \in Section
    <3>1. <<r[1], base + i - 1>> \in Cell
      BY <2>1, InputsAssumption DEF Cell
    <3>2. Read(<<r[1], base + i - 1>>, {0}, NoSignal) \in Access
      BY <3>1, <1>1, ReadTyped
    <3>3. <<Read(<<r[1], base + i - 1>>, {0}, NoSignal), Overlay>> \in Seq(Access)
      BY <3>2, <1>2
    <3> HIDE DEF base
    <3> QED BY <3>3, LockedTyped
  <2>3. [i \in 1 .. n |-> section(i)] \in Seq(Section)
    <3> HIDE DEF n, section
    <3> QED BY <2>1, <2>2
  <2> QED BY <2>3 DEF ReadBits, Call
<1>6. ASSUME NEW w \in BitWrites
      PROVE  WriteBits(w[1], w[2]) \in Call
  <2> DEFINE section(i) == Locked(<<Write({<<"coil", w[1] + i - 1>>}, Bit,
                                          IF w[2][i] THEN {0} ELSE {})>>)
  <2>1. Len(w[2]) \in Nat
    BY InputsAssumption
  <2>2. ASSUME NEW i \in 1 .. Len(w[2]) PROVE section(i) \in Section
    <3>1. <<"coil", w[1] + i - 1>> \in Cell
      BY InputsAssumption DEF Cell, REGISTER_TYPES
    <3>2. (IF w[2][i] THEN {0} ELSE {}) \in Word
      BY <1>1
    <3>3. Write({<<"coil", w[1] + i - 1>>}, Bit, IF w[2][i] THEN {0} ELSE {}) \in Access
      BY <3>1, <3>2, <1>1, WriteTyped
    <3> QED BY <3>3, LockedTyped
  <2>3. [i \in 1 .. Len(w[2]) |-> section(i)] \in Seq(Section)
    <3> HIDE DEF section
    <3> QED BY <2>1, <2>2
  <2> QED BY <2>3 DEF WriteBits, Call
<1> QED BY <1>3, <1>4, <1>5, <1>6 DEF ModbusCalls

\* All calls are well typed.
LEMMA CallsTyped == Calls \cup {NoCall} \subseteq Call
<1>1. NoCall \in Call
  BY DEF NoCall, Call
<1> QED BY <1>1, ApiCallsTyped, SimCallsTyped, ModbusCallsTyped DEF Calls

(***************************************************************************)
(* Where a thread is: a section is under way only if the call has it, and  *)
(* a word is loaded only for an access of that section.                    *)
(***************************************************************************)
Placed ==
  \A t \in Thread :
    /\ pc[t] \in {"ready", "inside", "loaded"} => HasSection(t)
    /\ pc[t] = "loaded" => HasAccess(t) /\ Now(t).do = "write"
    /\ pc[t] = "wait" => op[t].outer

IInv == TypeOK /\ LockInv /\ Placed

\* The current call, section and access of a thread are well typed.
LEMMA OpTyped ==
  ASSUME TypeOK, NEW t \in Thread
  PROVE  /\ op[t] \in Call
         /\ op[t].outer \in BOOLEAN
         /\ HasSection(t) => This(t) \in Section
         /\ HasSection(t) /\ HasAccess(t) => Now(t) \in Access
<1>1. op[t] \in Call
  BY CallsTyped DEF TypeOK
<1>2. op[t].sections \in Seq(Section) /\ op[t].outer \in BOOLEAN
  BY <1>1 DEF Call
<1>3. HasSection(t) => This(t) \in Section
  BY <1>2 DEF HasSection, This, Sections
<1>4. HasSection(t) /\ HasAccess(t) => Now(t) \in Access
  BY <1>3 DEF HasAccess, Now, Section
<1> QED BY <1>1, <1>2, <1>3, <1>4

\* The initial state satisfies IInv.
LEMMA InitIInv == Init => IInv
<1> SUFFICES ASSUME Init PROVE IInv
  OBVIOUS
<1>1. InitialStore \in [Cell -> Word]
  BY DEF InitialStore, Effect, Word
<1>2. simDefaults \in SUBSET SignalSet
  BY InputsAssumption DEF Init
<1>3. TypeOK
  BY <1>1, <1>2 DEF Init, TypeOK, Phases, Word
<1>4. LockInv
  BY DEF Init, LockInv, Held, InOuter, InSection
<1>5. Placed
  BY DEF Init, Placed
<1> QED BY <1>3, <1>4, <1>5 DEF IInv

\* The types of the observations a thread can make.
LEMMA ObservationsTyped ==
  /\ \A a \in Access : \A st \in [Cell -> Word] : Stored(a, st) \in SUBSET Observation
  /\ \A s \in SignalSet : Generated(s) \in SUBSET Observation
  /\ \A o \in Observation : \A sims \in SUBSET SignalSet : Overlaid(o, sims) \in Observation
<1>1. ASSUME NEW a \in Access, NEW st \in [Cell -> Word]
      PROVE  Stored(a, st) \in SUBSET Observation
  BY DEF Stored, Access, Observation, Word
<1>2. ASSUME NEW s \in SignalSet
      PROVE  Generated(s) \in SUBSET Observation
  <2>1. SignalCells(s) \in SUBSET Cell
    BY CellTyped DEF SignalCells
  <2> QED BY <2>1, MaskTyped DEF Generated, Observation, Word
<1>3. ASSUME NEW o \in Observation, NEW sims \in SUBSET SignalSet
      PROVE  Overlaid(o, sims) \in Observation
  <2>1. SimMask(sims, o.cell) \in Word
    BY SimMaskTyped
  <2> QED BY <2>1 DEF Overlaid, Observation, Word
<1> QED BY <1>1, <1>2, <1>3

\* A thread calls only the calls of the model.
LEMMA CallerTyped ==
  ASSUME NEW t \in Thread, NEW call \in MayCall(t)
  PROVE  call \in Calls
BY DEF MayCall, Calls

\* Every step keeps the types.
LEMMA TypeStep == IInv /\ [Next]_vars => TypeOK'
<1> SUFFICES ASSUME IInv, [Next]_vars PROVE TypeOK'
  OBVIOUS
<1> USE DEF IInv
<1>1. CASE UNCHANGED vars
  BY <1>1 DEF TypeOK, vars
<1>2. ASSUME NEW t \in Thread, NEW call \in MayCall(t), Begin(t, call)
      PROVE  TypeOK'
  BY <1>2, CallerTyped DEF Begin, TypeOK, Go, Phases, shared, lock
<1>3. ASSUME NEW t \in Thread, EnterOuter(t)
      PROVE  TypeOK'
  BY <1>3 DEF EnterOuter, Enter, TypeOK, Go, Phases, shared
<1>4. ASSUME NEW t \in Thread, EnterSection(t)
      PROVE  TypeOK'
  BY <1>4 DEF EnterSection, Enter, TypeOK, Go, Phases, shared
<1>5. ASSUME NEW t \in Thread, LookupHit(t)
      PROVE  TypeOK'
  <2>1. This(t).who \in SignalSet
    BY <1>5 DEF LookupHit, TypeOK
  <2>2. Generated(This(t).who) \in SUBSET Observation
    BY <2>1, ObservationsTyped
  <2>3. buf' \in [Thread -> SUBSET Observation] /\ got' \in [Thread -> SUBSET Observation]
    BY <1>5, <2>2 DEF LookupHit, TypeOK
  <2> QED BY <1>5, <2>3 DEF LookupHit, NextSection, TypeOK, shared, lock
<1>6. ASSUME NEW t \in Thread, LookupMiss(t)
      PROVE  TypeOK'
  BY <1>6 DEF LookupMiss, TypeOK, Go, Phases, shared, lock
<1>7. ASSUME NEW t \in Thread, AssignDefaults(t)
      PROVE  TypeOK'
  <2>1. This(t) \in Section
    BY <1>7, OpTyped DEF AssignDefaults, AtPrep
  <2> QED BY <1>7, <2>1 DEF AssignDefaults, NextSection, TypeOK, Section, lock
<1>8. ASSUME NEW t \in Thread, BuildProfiles(t)
      PROVE  TypeOK'
  BY <1>8 DEF BuildProfiles, TypeOK, Go, Phases, shared, lock
<1>9. ASSUME NEW t \in Thread, StoreWord(t)
      PROVE  TypeOK'
  <2>1. Now(t) \in Access
    BY <1>9, OpTyped DEF StoreWord, AtAccess, Placed
  <2>2. store' \in [Cell -> Word]
    BY <1>9, <2>1 DEF StoreWord, TypeOK, Access
  <2> QED BY <1>9, <2>2 DEF StoreWord, NextAccess, TypeOK, lock
<1>10. ASSUME NEW t \in Thread, LoadWord(t)
       PROVE  TypeOK'
  <2>1. Now(t) \in Access
    BY <1>10, OpTyped DEF LoadWord, AtAccess, Placed
  <2>2. UNION {store[c] : c \in Now(t).cells} \in Word
    BY <2>1 DEF TypeOK, Access, Word
  <2> QED BY <1>10, <2>2 DEF LoadWord, TypeOK, Go, Phases, shared, lock
<1>11. ASSUME NEW t \in Thread, StoreBit(t)
       PROVE  TypeOK'
  <2>1. Now(t) \in Access
    BY <1>11, OpTyped DEF StoreBit, Placed
  <2>2. (word[t] \ Now(t).mask) \cup (Now(t).bits \cap Now(t).mask) \in Word
    BY <2>1 DEF TypeOK, Access, Word
  <2>3. store' \in [Cell -> Word]
    BY <1>11, <2>2 DEF StoreBit, TypeOK
  <2> QED BY <1>11, <2>3 DEF StoreBit, NextAccess, TypeOK, Go, Phases, Word, lock
<1>12. ASSUME NEW t \in Thread, ReadWord(t)
       PROVE  TypeOK'
  <2>1. Now(t) \in Access
    BY <1>12, OpTyped DEF ReadWord, AtAccess, Placed
  <2>2. Stored(Now(t), store) \in SUBSET Observation
    BY <2>1, ObservationsTyped DEF TypeOK
  <2> QED BY <1>12, <2>2 DEF ReadWord, NextAccess, TypeOK, shared, lock
<1>13. ASSUME NEW t \in Thread, OverlayGenerated(t)
       PROVE  TypeOK'
  <2>1. {Overlaid(o, profiles) : o \in buf[t]} \in SUBSET Observation
    BY ObservationsTyped DEF TypeOK
  <2> QED BY <1>13, <2>1 DEF OverlayGenerated, NextAccess, TypeOK, shared, lock
<1>14. ASSUME NEW t \in Thread, SwapProfiles(t)
       PROVE  TypeOK'
  BY <1>14 DEF SwapProfiles, NextAccess, TypeOK, lock
<1>15. ASSUME NEW t \in Thread, LeaveSection(t)
       PROVE  TypeOK'
  <2>1. depth > 0
    BY <1>15, ThreadsAssumption DEF LeaveSection, LockInv, Held, InOuter, InSection, TypeOK, Thread
  <2>2. buf' \in [Thread -> SUBSET Observation] /\ got' \in [Thread -> SUBSET Observation]
    BY <1>15 DEF LeaveSection, Deliver, TypeOK
  <2>3. depth' \in Nat /\ owner' \in Thread \cup {Nobody} /\ committed' \in [Cell -> Word]
    BY <1>15, <2>1 DEF LeaveSection, Leave, TypeOK
  <2>4. pc' \in [Thread -> Phases] /\ sec' \in [Thread -> Nat \ {0}] /\ acc' \in [Thread -> Nat \ {0}]
    BY <1>15 DEF LeaveSection, Go, NextSection, TypeOK, Phases
  <2> QED BY <1>15, <2>2, <2>3, <2>4 DEF LeaveSection, TypeOK, shared
<1>16. ASSUME NEW t \in Thread, LeaveOuter(t)
       PROVE  TypeOK'
  <2>1. depth > 0
    BY <1>16, ThreadsAssumption DEF LeaveOuter, LockInv, Held, InOuter, InSection, TypeOK, Thread
  <2> QED BY <1>16, <2>1 DEF LeaveOuter, Leave, Deliver, TypeOK, Go, Phases, shared
<1>17. ASSUME NEW t \in Thread, Return(t)
       PROVE  TypeOK'
  BY <1>17 DEF Return, TypeOK, Go, Phases, shared, lock
<1> QED BY <1>1, <1>2, <1>3, <1>4, <1>5, <1>6, <1>7, <1>8, <1>9, <1>10, <1>11,
           <1>12, <1>13, <1>14, <1>15, <1>16, <1>17 DEF Next, Take, Step

(***************************************************************************)
(* The lock.  A thread that takes it finds it free or already its own, so  *)
(* no other thread is inside; a thread that is inside owns it.             *)
(***************************************************************************)
\* Every step keeps each thread where its call has something to do.
LEMMA PlacedStep == IInv /\ [Next]_vars => Placed'
<1> SUFFICES ASSUME IInv, [Next]_vars PROVE Placed'
  OBVIOUS
<1> USE DEF IInv, Placed, HasSection, HasAccess, This, Sections, Now
<1>1. CASE UNCHANGED vars
  BY <1>1 DEF vars
<1>2. ASSUME NEW t \in Thread, NEW call \in MayCall(t), Begin(t, call)
      PROVE  Placed'
  BY <1>2 DEF Begin, TypeOK, Go
<1>3. ASSUME NEW t \in Thread, Take(t)
      PROVE  Placed'
  BY <1>3 DEF Take, EnterOuter, EnterSection, AtPrep, TypeOK, Go
<1>4. ASSUME NEW t \in Thread,
             LookupHit(t) \/ LookupMiss(t) \/ AssignDefaults(t) \/ BuildProfiles(t)
      PROVE  Placed'
  BY <1>4 DEF LookupHit, LookupMiss, AssignDefaults, BuildProfiles, AtPrep, TypeOK, Go, NextSection
<1>5. ASSUME NEW t \in Thread, LoadWord(t) \/ StoreBit(t)
      PROVE  Placed'
  BY <1>5 DEF LoadWord, StoreBit, AtAccess, TypeOK, Go, NextAccess
<1>6. ASSUME NEW t \in Thread,
             StoreWord(t) \/ ReadWord(t) \/ OverlayGenerated(t) \/ SwapProfiles(t)
      PROVE  Placed'
  BY <1>6 DEF StoreWord, ReadWord, OverlayGenerated, SwapProfiles, AtAccess, TypeOK, NextAccess
<1>7. ASSUME NEW t \in Thread, LeaveSection(t) \/ LeaveOuter(t)
      PROVE  Placed'
  BY <1>7 DEF LeaveSection, LeaveOuter, TypeOK, Go, NextSection
<1>8. ASSUME NEW t \in Thread, Return(t)
      PROVE  Placed'
  BY <1>8 DEF Return, TypeOK, Go
<1> QED BY <1>1, <1>2, <1>3, <1>4, <1>5, <1>6, <1>7, <1>8 DEF Next, Step

\* Steps that leave the lock alone leave every thread inside it as often as before.
LEMMA HeldStep ==
  ASSUME TypeOK, NEW t \in Thread, NEW u \in Thread,
         \/ \E call \in MayCall(t) : Begin(t, call)
         \/ LookupHit(t) \/ LookupMiss(t) \/ AssignDefaults(t) \/ BuildProfiles(t)
         \/ StoreWord(t) \/ LoadWord(t) \/ StoreBit(t)
         \/ ReadWord(t) \/ OverlayGenerated(t) \/ SwapProfiles(t) \/ Return(t)
  PROVE  Held(u)' = Held(u) /\ UNCHANGED <<owner, depth>>
<1> USE DEF Held, InOuter, InSection, TypeOK
<1>1. ASSUME NEW call \in MayCall(t), Begin(t, call)
      PROVE  Held(u)' = Held(u) /\ UNCHANGED <<owner, depth>>
  BY <1>1 DEF Begin, Go, lock
<1>2. CASE LookupHit(t)
  BY <1>2 DEF LookupHit, lock
<1>3. CASE LookupMiss(t)
  BY <1>3 DEF LookupMiss, AtPrep, Go, lock
<1>4. CASE AssignDefaults(t)
  BY <1>4 DEF AssignDefaults, lock
<1>5. CASE BuildProfiles(t)
  BY <1>5 DEF BuildProfiles, AtPrep, Go, lock
<1>6. CASE StoreWord(t)
  BY <1>6 DEF StoreWord, lock
<1>7. CASE LoadWord(t)
  BY <1>7 DEF LoadWord, AtAccess, Go, lock
<1>8. CASE StoreBit(t)
  BY <1>8 DEF StoreBit, Go, lock
<1>9. CASE ReadWord(t)
  BY <1>9 DEF ReadWord, lock
<1>10. CASE OverlayGenerated(t)
  BY <1>10 DEF OverlayGenerated, lock
<1>11. CASE SwapProfiles(t)
  BY <1>11 DEF SwapProfiles, lock
<1>12. CASE Return(t)
  BY <1>12 DEF Return, Go, lock, NoCall
<1> QED BY <1>1, <1>2, <1>3, <1>4, <1>5, <1>6, <1>7, <1>8, <1>9, <1>10, <1>11, <1>12

\* Taking the lock: the taker is inside once more, the others as before.
LEMMA HeldTake ==
  ASSUME TypeOK, Placed, NEW t \in Thread, Take(t)
  PROVE  /\ Held(t)' = Held(t) + 1
         /\ \A u \in Thread \ {t} : Held(u)' = Held(u)
         /\ CanEnter(t) /\ owner' = t /\ depth' = depth + 1
<1> USE DEF Held, InOuter, InSection, TypeOK
<1>1. CASE EnterOuter(t)
  BY <1>1 DEF EnterOuter, Enter, Go, Placed
<1>2. CASE EnterSection(t)
  BY <1>2 DEF EnterSection, AtPrep, Enter, Go
<1> QED BY <1>1, <1>2 DEF Take

\* Releasing it: the thread was inside, and is inside once less.
LEMMA HeldLeave ==
  ASSUME TypeOK, NEW t \in Thread, LeaveSection(t) \/ LeaveOuter(t)
  PROVE  /\ Held(t) > 0
         /\ Held(t)' = Held(t) - 1
         /\ \A u \in Thread \ {t} : Held(u)' = Held(u)
         /\ Leave(t)
<1> USE DEF Held, InOuter, InSection, TypeOK
<1>1. CASE LeaveSection(t)
  BY <1>1 DEF LeaveSection, Go
<1>2. CASE LeaveOuter(t)
  BY <1>2 DEF LeaveOuter, Go
<1> QED BY <1>1, <1>2

\* Every step keeps the lock's owner and depth right.
LEMMA LockStep == IInv /\ [Next]_vars => LockInv'
<1> SUFFICES ASSUME IInv, [Next]_vars PROVE LockInv'
  OBVIOUS
<1> USE DEF IInv
<1>0. /\ \A t \in Thread : Held(t) \in Nat
      /\ depth \in Nat /\ owner \in Thread \cup {Nobody} /\ Nobody \notin Thread
  BY ThreadsAssumption DEF Held, TypeOK, Thread
<1>1. CASE UNCHANGED vars
  BY <1>1 DEF vars, LockInv, Held, InOuter, InSection
<1>2. ASSUME NEW t \in Thread,
             \/ \E call \in MayCall(t) : Begin(t, call)
             \/ LookupHit(t) \/ LookupMiss(t) \/ AssignDefaults(t) \/ BuildProfiles(t)
             \/ StoreWord(t) \/ LoadWord(t) \/ StoreBit(t)
             \/ ReadWord(t) \/ OverlayGenerated(t) \/ SwapProfiles(t) \/ Return(t)
      PROVE  LockInv'
  <2>1. \A u \in Thread : Held(u)' = Held(u) /\ UNCHANGED <<owner, depth>>
    BY <1>2, HeldStep
  <2> QED BY <1>0, <2>1 DEF LockInv
<1>3. ASSUME NEW t \in Thread, Take(t)
      PROVE  LockInv'
  <2>1. /\ Held(t)' = Held(t) + 1
        /\ \A u \in Thread \ {t} : Held(u)' = Held(u)
        /\ owner \in {t, Nobody} /\ owner' = t /\ depth' = depth + 1
    BY <1>3, HeldTake DEF CanEnter
  <2> QED BY <1>0, <2>1 DEF LockInv
<1>4. ASSUME NEW t \in Thread, LeaveSection(t) \/ LeaveOuter(t)
      PROVE  LockInv'
  <2>1. /\ Held(t) > 0
        /\ Held(t)' = Held(t) - 1
        /\ \A u \in Thread \ {t} : Held(u)' = Held(u)
        /\ Leave(t)
    BY <1>4, HeldLeave
  <2>2. owner = t /\ depth = Held(t)
    BY <1>0, <2>1 DEF LockInv
  <2>3. owner' = (IF depth = 1 THEN Nobody ELSE t) /\ depth' = Held(t)'
    BY <2>1, <2>2 DEF Leave
  <2> QED BY <1>0, <2>1, <2>2, <2>3 DEF LockInv
<1> QED BY <1>1, <1>2, <1>3, <1>4 DEF Next, Step

\* IInv is inductive and holds from the start.
THEOREM Invariance == Spec => []IInv
<1>1. IInv /\ [Next]_vars => IInv'
  BY TypeStep, PlacedStep, LockStep DEF IInv
<1> QED BY InitIInv, <1>1, PTL DEF Spec

\* The store, the lock and every thread's place in its call keep their types; in
\* particular the lock is never released more often than it is taken.
THEOREM TypeCorrect == Spec => []TypeOK
BY Invariance, PTL DEF IInv

\* Mutual exclusion with re-entrance: a thread inside a "with self._lock" block
\* owns the RLock, and the lock counts exactly the blocks its owner is in.
THEOREM LockSafe == Spec => []LockInv
BY Invariance, PTL DEF IInv

(***************************************************************************)
(* The shape of the calls: reads cover the bits of what they are made for, *)
(* a write of less than a word is to one cell, and no locked block both    *)
(* reads and writes.                                                       *)
(***************************************************************************)
AccessShape(a) ==
  /\ a.do = "read" => \A c \in a.cells : a.mask = Covered(a.who, c)
  /\ a.do = "write" /\ a.mask # Bit => \E c \in Cell : a.cells = {c}
Writes(section) == \A j \in DOMAIN section.body : section.body[j].do = "write"
NoWrites(section) == \A j \in DOMAIN section.body : section.body[j].do # "write"
SectionShape(section) ==
  /\ \A j \in DOMAIN section.body : AccessShape(section.body[j])
  /\ Writes(section) \/ NoWrites(section)
CallShape(call) ==
  /\ \A i \in DOMAIN call.sections : SectionShape(call.sections[i])
  /\ call.outer =>
       \/ \A i \in DOMAIN call.sections :
            Writes(call.sections[i]) /\ call.sections[i].prep # "lookup"
       \/ \A i \in DOMAIN call.sections : NoWrites(call.sections[i])

\* A write of a word, or to one cell, has the right shape.
LEMMA WriteShape ==
  ASSUME NEW cells, NEW mask, NEW bits, mask = Bit \/ \E c \in Cell : cells = {c}
  PROVE  AccessShape(Write(cells, mask, bits)) /\ Write(cells, mask, bits).do = "write"
BY DEF Write, AccessShape

\* A read of the bits it is made for has the right shape.
LEMMA ReadShape ==
  ASSUME NEW c, NEW mask, NEW who, mask = Covered(who, c)
  PROVE  AccessShape(Read(c, mask, who)) /\ Read(c, mask, who).do = "read"
BY DEF Read, AccessShape

\* _store_raw writes only.
LEMMA StoreRawShape ==
  ASSUME NEW s \in SignalSet, NEW raw
  PROVE  SectionShape(Locked(StoreRaw(s, raw))) /\ Writes(Locked(StoreRaw(s, raw)))
<1> DEFINE body == StoreRaw(s, raw)
<1>1. \A j \in DOMAIN body : AccessShape(body[j]) /\ body[j].do = "write"
  <2> DEFINE first == IF s.word_order = "little_endian" THEN raw.low ELSE raw.high
             second == IF s.word_order = "little_endian" THEN raw.high ELSE raw.low
             on == IF raw.low = {} THEN {} ELSE {BitOf(s)}
             ok(a) == AccessShape(a) /\ a.do = "write"
  <2>1. /\ ok(Write({CellOf(s, 0)}, Bit, first))
        /\ ok(Write({CellOf(s, 1)}, Bit, second))
        /\ ok(Write({CellOf(s, 0)}, Bit, raw.low))
        /\ ok(Write({CellOf(s, 0)}, Bit, on))
        /\ ok(Write({CellOf(s, 0)}, SignalMask(s, CellOf(s, 0)), on))
    BY WriteShape, CellTyped
  <2> HIDE DEF ok, first, second, on
  <2>2. \A j \in DOMAIN body : ok(body[j])
    <3>1. \/ body = <<Write({CellOf(s, 0)}, Bit, first), Write({CellOf(s, 1)}, Bit, second)>>
          \/ body = <<Write({CellOf(s, 0)}, Bit, raw.low)>>
          \/ body = <<Write({CellOf(s, 0)}, Bit, on)>>
          \/ body = <<Write({CellOf(s, 0)}, SignalMask(s, CellOf(s, 0)), on)>>
      BY DEF StoreRaw, first, second, on
    <3> HIDE DEF body
    <3> QED BY <2>1, <3>1
  <2> QED BY <2>2 DEF ok
<1>2. Locked(body).body = body
  BY DEF Locked, Prepared
<1> HIDE DEF body
<1>3. SectionShape(Locked(body)) /\ Writes(Locked(body))
  BY <1>1, <1>2 DEF SectionShape, Writes
<1> QED BY <1>3 DEF body

\* read_signal reads only.
LEMMA ReadSignalShape ==
  ASSUME NEW s \in SignalSet
  PROVE  SectionShape(ReadSignal(s)) /\ NoWrites(ReadSignal(s))
<1> DEFINE read(i) == Read(CellOf(s, i), SignalMask(s, CellOf(s, i)), s)
<1>1. s # NoSignal
  BY SignalsAssumption
<1>2. \A i \in {0, 1} : AccessShape(read(i)) /\ read(i).do = "read"
  BY <1>1, ReadShape DEF Covered
<1> HIDE DEF read
<1>3. ReadSignal(s).body = IF IsWide(s) THEN <<read(0), read(1)>> ELSE <<read(0)>>
  BY DEF ReadSignal, read
<1>4. \A j \in DOMAIN ReadSignal(s).body :
        AccessShape(ReadSignal(s).body[j]) /\ ReadSignal(s).body[j].do = "read"
  BY <1>2, <1>3
<1> QED BY <1>4 DEF SectionShape, NoWrites

\* The API's calls have the right shape.
LEMMA ApiCallsShape == \A call \in ApiCalls : CallShape(call)
<1>1. ASSUME NEW s \in SignalSet, NEW raw \in RawValues
      PROVE  CallShape(SetValue(s, raw))
  BY StoreRawShape, ReadSignalShape DEF SetValue, CallShape
<1>2. \A i \in 1 .. Len(Signals) : Signals[i] \in SignalSet
  BY SignalsAssumption DEF SignalSet
<1>3. CallShape(SetDefaults)
  <2> DEFINE section(i) == Locked(StoreRaw(Signals[i], Signals[i].default_raw))
  <2>1. \A i \in 1 .. Len(Signals) : SectionShape(section(i)) /\ Writes(section(i))
    BY <1>2, StoreRawShape
  <2>2. \A i \in 1 .. Len(Signals) : section(i).prep # "lookup"
    BY DEF Locked, Prepared
  <2> HIDE DEF section
  <2>3. SetDefaults.sections = [i \in 1 .. Len(Signals) |-> section(i)]
    BY DEF SetDefaults, section
  <2> QED BY <2>1, <2>2, <2>3 DEF CallShape
<1>4. CallShape(ClearAll)
  <2> DEFINE table(rt) == Write({rt} \X Address, Bit, {})
             body == <<table("holding"), table("input"), table("coil"), table("discrete_input")>>
  <2>1. \A rt \in REGISTER_TYPES : AccessShape(table(rt)) /\ table(rt).do = "write"
    BY WriteShape
  <2> HIDE DEF table
  <2>2. \A j \in DOMAIN body : AccessShape(body[j]) /\ body[j].do = "write"
    BY <2>1 DEF REGISTER_TYPES
  <2>3. ClearAll.outer = FALSE /\ ClearAll.sections = <<Locked(body)>>
    BY DEF ClearAll, table
  <2>4. Locked(body).body = body
    BY DEF Locked, Prepared
  <2> HIDE DEF body
  <2>5. SectionShape(Locked(body))
    BY <2>2, <2>4 DEF SectionShape, Writes
  <2> QED BY <2>3, <2>5 DEF CallShape
<1>5. CallShape(GetValues)
  BY <1>2, ReadSignalShape DEF GetValues, CallShape
<1> QED BY <1>1, <1>3, <1>4, <1>5 DEF ApiCalls

\* So have changes of the simulation settings.
LEMMA SimCallsShape == \A call \in SimCalls : CallShape(call)
<1> SUFFICES ASSUME NEW sims \in SimChoices
             PROVE  CallShape(SetSimDefaults(sims))
  BY DEF SimCalls
<1>1. SectionShape(Prepared("assign", sims, <<>>))
  BY DEF Prepared, SectionShape, Writes
<1>2. AccessShape(Swap) /\ Swap.do # "write"
  BY DEF Swap, AccessShape
<1>3. SectionShape(Prepared("build", {}, <<Swap>>))
  BY <1>2 DEF Prepared, SectionShape, NoWrites
<1> QED BY <1>1, <1>3 DEF SetSimDefaults, CallShape

\* So have the Modbus server's calls.
LEMMA ModbusCallsShape == \A call \in ModbusCalls : CallShape(call)
<1>1. AccessShape(Overlay) /\ Overlay.do # "write"
  BY DEF Overlay, AccessShape
<1>2. ASSUME NEW r \in BlockReads
      PROVE  CallShape(ReadBlock(r[1], r[2], r[3]))
  <2> DEFINE read(i) == Read(<<r[1], r[2] + i - 1>>, Bit, NoSignal)
             body == [i \in 1 .. r[3] + 1 |-> IF i = r[3] + 1 THEN Overlay ELSE read(i)]
  <2>1. r[1] \notin BitTypes
    BY InputsAssumption DEF BitTypes
  <2>2. \A i \in 1 .. r[3] + 1 : AccessShape(read(i)) /\ read(i).do = "read"
    BY <2>1, ReadShape DEF Covered
  <2> HIDE DEF read
  <2>3. \A j \in DOMAIN body : AccessShape(body[j]) /\ body[j].do # "write"
    BY <1>1, <2>2
  <2>4. /\ ReadBlock(r[1], r[2], r[3]).outer = FALSE
        /\ ReadBlock(r[1], r[2], r[3]).sections = <<Locked(body)>>
    BY DEF ReadBlock, read
  <2>5. Locked(body).body = body
    BY DEF Locked, Prepared
  <2> HIDE DEF body
  <2>6. SectionShape(Locked(body))
    BY <2>3, <2>5 DEF SectionShape, NoWrites
  <2> QED BY <2>4, <2>6 DEF CallShape
<1>3. ASSUME NEW w \in BlockWrites
      PROVE  CallShape(WriteBlock(w[1], w[2]))
  <2> DEFINE write(i) == Write({<<"holding", w[1] + i - 1>>}, Bit, w[2][i])
             body == [i \in 1 .. Len(w[2]) |-> write(i)]
  <2>1. \A i \in 1 .. Len(w[2]) : AccessShape(write(i)) /\ write(i).do = "write"
    BY WriteShape
  <2> HIDE DEF write
  <2>2. \A j \in DOMAIN body : AccessShape(body[j]) /\ body[j].do = "write"
    BY <2>1
  <2>3. /\ WriteBlock(w[1], w[2]).outer = FALSE
        /\ WriteBlock(w[1], w[2]).sections = <<Locked(body)>>
    BY DEF WriteBlock, write
  <2>4. Locked(body).body = body
    BY DEF Locked, Prepared
  <2> HIDE DEF body
  <2>5. SectionShape(Locked(body))
    BY <2>2, <2>4 DEF SectionShape, Writes
  <2> QED BY <2>3, <2>5 DEF CallShape
<1>4. ASSUME NEW r \in BitReads
      PROVE  CallShape(ReadBits(r[1], r[2], r[3]))
  <2> DEFINE base == (r[2] \div WordSize) * WordSize
             n == r[3] * WordSize
             read(i) == Read(<<r[1], base + i - 1>>, {0}, NoSignal)
             section(i) == Locked(<<read(i), Overlay>>)
  <2>1. r[1] \in BitTypes
    BY InputsAssumption
  <2>2. \A i \in 1 .. n : AccessShape(read(i)) /\ read(i).do = "read"
    BY <2>1, ReadShape DEF Covered
  <2> HIDE DEF read
  <2>3. \A i \in 1 .. n : SectionShape(section(i))
    BY <1>1, <2>2 DEF SectionShape, NoWrites, Locked, Prepared
  <2> HIDE DEF section
  <2>4. /\ ReadBits(r[1], r[2], r[3]).outer = FALSE
        /\ ReadBits(r[1], r[2], r[3]).sections = [i \in 1 .. n |-> section(i)]
    BY DEF ReadBits, read, section
  <2> HIDE DEF n
  <2> QED BY <2>3, <2>4 DEF CallShape
<1>5. ASSUME NEW w \in BitWrites
      PROVE  CallShape(WriteBits(w[1], w[2]))
  <2> DEFINE write(i) == Write({<<"coil", w[1] + i - 1>>}, Bit, IF w[2][i] THEN {0} ELSE {})
             section(i) == Locked(<<write(i)>>)
  <2>1. \A i \in 1 .. Len(w[2]) : AccessShape(write(i)) /\ write(i).do = "write"
    BY WriteShape
  <2> HIDE DEF write
  <2>2. \A i \in 1 .. Len(w[2]) : SectionShape(section(i))
    BY <2>1 DEF SectionShape, Writes, Locked, Prepared
  <2> HIDE DEF section
  <2>3. /\ WriteBits(w[1], w[2]).outer = FALSE
        /\ WriteBits(w[1], w[2]).sections = [i \in 1 .. Len(w[2]) |-> section(i)]
    BY DEF WriteBits, write, section
  <2> QED BY <2>2, <2>3 DEF CallShape
<1> QED BY <1>2, <1>3, <1>4, <1>5 DEF ModbusCalls

\* All calls have the right shape.
LEMMA CallsShape == \A call \in Calls \cup {NoCall} : CallShape(call)
<1>1. CallShape(NoCall)
  BY DEF NoCall, CallShape
<1> QED BY <1>1, ApiCallsShape, SimCallsShape, ModbusCallsShape DEF Calls

(***************************************************************************)
(* Reading under the lock.  ConsistentReads is not inductive alone: a      *)
(* thread that has read something must still be inside the lock, in a      *)
(* block that writes nothing, and the word a thread has loaded must still  *)
(* be the word of its cell.                                                *)
(***************************************************************************)
Reading ==
  \A t \in Thread : buf[t] # {} =>
    /\ Held(t) > 0
    /\ IF op[t].outer
       THEN \A i \in DOMAIN Sections(t) : NoWrites(Sections(t)[i])
       ELSE pc[t] = "inside" /\ NoWrites(This(t))
Loaded ==
  \A t \in Thread : pc[t] = "loaded" =>
    \A c \in Now(t).cells : word[t] = store[c]
RInv == IInv /\ Reading /\ Loaded /\ ConsistentReads

\* The initial state satisfies RInv.
LEMMA InitRInv == Init => RInv
<1> SUFFICES ASSUME Init PROVE RInv
  OBVIOUS
<1>1. Reading /\ Loaded /\ ConsistentReads
  BY DEF Init, Reading, Loaded, ConsistentReads
<1> QED BY <1>1, InitIInv DEF RInv

\* The thread that is about to access has the shapes above.
LEMMA AccessAt ==
  ASSUME IInv, NEW t \in Thread, HasSection(t), HasAccess(t)
  PROVE  /\ AccessShape(Now(t))
         /\ Now(t).do = "write" => Writes(This(t)) /\ ~NoWrites(This(t))
         /\ Now(t).do # "write" => NoWrites(This(t))
         /\ op[t].outer /\ Now(t).do # "write" =>
              \A i \in DOMAIN Sections(t) : NoWrites(Sections(t)[i])
<1>1. CallShape(op[t])
  BY CallsShape DEF IInv, TypeOK
<1>2. SectionShape(This(t))
  BY <1>1 DEF CallShape, HasSection, This, Sections
<1>3. AccessShape(Now(t))
  BY <1>2 DEF SectionShape, HasAccess, Now
<1>4. Writes(This(t)) => Now(t).do = "write"
  BY DEF Writes, HasAccess, Now
<1>5. NoWrites(This(t)) => Now(t).do # "write"
  BY DEF NoWrites, HasAccess, Now
<1>6. Writes(This(t)) \/ NoWrites(This(t))
  BY <1>2 DEF SectionShape
<1>7. op[t].outer /\ ~Writes(This(t)) =>
        \A i \in DOMAIN Sections(t) : NoWrites(Sections(t)[i])
  BY <1>1 DEF CallShape, HasSection, This, Sections
<1> QED BY <1>3, <1>4, <1>5, <1>6, <1>7

\* A thread that writes has read nothing, and no other thread is inside.
LEMMA WriterAlone ==
  ASSUME IInv, Reading, NEW t \in Thread, HasSection(t), HasAccess(t),
         Now(t).do = "write", pc[t] \in {"inside", "loaded"}
  PROVE  /\ \A u \in Thread : buf[u] = {}
         /\ \A u \in Thread : pc[u] = "loaded" => u = t
<1>1. ~NoWrites(This(t)) /\ This(t) = Sections(t)[sec[t]] /\ sec[t] \in DOMAIN Sections(t)
  BY AccessAt DEF This, HasSection
<1>2. buf[t] = {}
  BY <1>1 DEF Reading
<1>3. ASSUME NEW u \in Thread, u # t PROVE ~(Held(u) > 0)
  <2>1. Held(t) > 0
    BY DEF Held, InSection, InOuter
  <2> QED BY <2>1, <1>3 DEF IInv, LockInv
<1>4. \A u \in Thread : pc[u] = "loaded" => Held(u) > 0
  BY DEF Held, InSection, InOuter
<1> QED BY <1>2, <1>3, <1>4 DEF Reading

\* Steps that change neither the store nor what anybody has read or loaded.
LEMMA QuietStep ==
  ASSUME RInv, NEW t \in Thread,
         UNCHANGED <<store, buf>>,
         \A u \in Thread \ {t} : UNCHANGED <<pc[u], op[u], sec[u], acc[u], word[u]>>,
         pc'[t] # "loaded",
         buf[t] = {} \/ (op[t].outer /\ UNCHANGED op[t] /\ Held(t)' > 0)
  PROVE  Reading' /\ Loaded' /\ ConsistentReads'
<1>1. ConsistentReads'
  BY DEF RInv, ConsistentReads
<1>2. ASSUME NEW u \in Thread, u # t
      PROVE  /\ Held(u)' = Held(u)
             /\ Sections(u)' = Sections(u) /\ This(u)' = This(u) /\ Now(u)' = Now(u)
  BY <1>2 DEF Held, InOuter, InSection, This, Now, Sections
<1>3. Reading'
  <2> SUFFICES ASSUME NEW u \in Thread, buf'[u] # {}
               PROVE  /\ Held(u)' > 0
                      /\ IF op'[u].outer
                         THEN \A i \in DOMAIN Sections(u)' : NoWrites(Sections(u)'[i])
                         ELSE pc'[u] = "inside" /\ NoWrites(This(u)')
    BY DEF Reading, NoWrites
  <2>1. CASE u = t
    BY <2>1 DEF RInv, Reading, Sections
  <2>2. CASE u # t
    BY <2>2, <1>2 DEF RInv, Reading
  <2> QED BY <2>1, <2>2
<1>4. Loaded'
  BY <1>2 DEF RInv, Loaded
<1> QED BY <1>1, <1>3, <1>4

\* Every step keeps what was read and what was loaded up to date.
LEMMA ReadingStep == RInv /\ IInv' /\ [Next]_vars => Reading' /\ Loaded' /\ ConsistentReads'
<1> SUFFICES ASSUME RInv, IInv', [Next]_vars
             PROVE  Reading' /\ Loaded' /\ ConsistentReads'
  OBVIOUS
<1> DEFINE Goal == Reading' /\ Loaded' /\ ConsistentReads'
<1> USE DEF RInv
<1>0. TypeOK /\ Placed
  BY DEF IInv
<1>1. CASE UNCHANGED vars
  BY <1>1 DEF vars, Reading, Loaded, ConsistentReads, Held, InOuter, InSection,
              Sections, This, Now, NoWrites
<1>2. ASSUME NEW t \in Thread, NEW call \in MayCall(t), Begin(t, call)
      PROVE  Goal
  <2>1. buf[t] = {}
    BY <1>2 DEF Begin, Reading, Held, InOuter, InSection
  <2> QED BY <1>0, <1>2, <2>1, QuietStep DEF Begin, Go, TypeOK, shared
<1>3. ASSUME NEW t \in Thread, EnterOuter(t)
      PROVE  Goal
  <2>1. buf[t] = {}
    BY <1>3 DEF EnterOuter, Reading, Held, InOuter, InSection
  <2> QED BY <1>0, <1>3, <2>1, QuietStep DEF EnterOuter, Go, TypeOK, shared
<1>4. ASSUME NEW t \in Thread, EnterSection(t)
      PROVE  Goal
  <2>1. buf[t] = {} \/ op[t].outer
    BY <1>4 DEF EnterSection, AtPrep, Reading
  <2>2. Held(t)' > 0
    BY <1>0, <1>4 DEF EnterSection, Go, TypeOK, Held, InOuter, InSection
  <2> QED BY <1>0, <1>4, <2>1, <2>2, QuietStep DEF EnterSection, Go, TypeOK, shared
<1>5. ASSUME NEW t \in Thread, LookupHit(t)
      PROVE  Goal
  <2>1. \A u \in Thread \ {t} : buf'[u] = buf[u]
    BY <1>0, <1>5 DEF LookupHit, TypeOK
  <2>2. CASE op[t].outer
    <3>1. buf'[t] = buf[t] \cup Generated(This(t).who)
      BY <1>0, <1>5, <2>2 DEF LookupHit, TypeOK
    <3>2. \A i \in DOMAIN Sections(t) : NoWrites(Sections(t)[i])
      <4>1. CallShape(op[t])
        BY <1>0, CallsShape DEF TypeOK
      <4>2. sec[t] \in DOMAIN Sections(t) /\ Sections(t)[sec[t]].prep = "lookup"
        BY <1>5 DEF LookupHit, AtPrep, HasSection, This
      <4> QED BY <2>2, <4>1, <4>2 DEF CallShape, Sections
    <3>3. \A u \in Thread : Held(u)' = Held(u) /\ Sections(u)' = Sections(u)
      BY <1>5 DEF LookupHit, Held, InOuter, InSection, Sections
    <3>4. \A u \in Thread \ {t} : This(u)' = This(u) /\ Now(u)' = Now(u)
      BY <1>0, <1>5 DEF LookupHit, NextSection, TypeOK, This, Now, Sections
    <3>5. Held(t) > 0
      BY <1>5, <2>2 DEF LookupHit, AtPrep, Held, InOuter, InSection
    <3>6. Reading'
      BY <1>5, <2>1, <2>2, <3>2, <3>3, <3>4, <3>5 DEF LookupHit, Reading, NoWrites
    <3>7. Loaded'
      BY <1>5, <3>4 DEF LookupHit, AtPrep, Loaded, shared
    <3>8. ASSUME NEW o \in Generated(This(t).who)
          PROVE  o.bits = (store[o.cell] \cap Covered(o.who, o.cell)) \ o.gen
      <4>1. This(t).who \in SignalSet
        BY <1>0, <1>5 DEF LookupHit, TypeOK
      <4>2. This(t).who # NoSignal
        BY <4>1, SignalsAssumption
      <4> QED BY <4>2 DEF Generated, Covered
    <3>9. ConsistentReads'
      BY <1>5, <2>1, <3>1, <3>8 DEF LookupHit, ConsistentReads, shared
    <3> QED BY <3>6, <3>7, <3>9
  <2>3. CASE ~op[t].outer
    <3>1. buf[t] = {}
      BY <1>5, <2>3 DEF LookupHit, AtPrep, Reading
    <3> QED BY <1>0, <1>5, <2>3, <3>1, QuietStep DEF LookupHit, AtPrep, NextSection, TypeOK, shared
  <2> QED BY <2>2, <2>3
<1>6. ASSUME NEW t \in Thread, LookupMiss(t)
      PROVE  Goal
  <2>1. buf[t] = {} \/ op[t].outer
    BY <1>6 DEF LookupMiss, AtPrep, Reading
  <2>2. op[t].outer => Held(t)' > 0
    BY <1>0, <1>6 DEF LookupMiss, Go, TypeOK, Held, InOuter, InSection
  <2> QED BY <1>0, <1>6, <2>1, <2>2, QuietStep DEF LookupMiss, Go, TypeOK, shared
<1>7. ASSUME NEW t \in Thread, AssignDefaults(t)
      PROVE  Goal
  <2>1. buf[t] = {} \/ op[t].outer
    BY <1>7 DEF AssignDefaults, AtPrep, Reading
  <2>2. op[t].outer => Held(t)' > 0
    BY <1>7 DEF AssignDefaults, AtPrep, Held, InOuter, InSection
  <2> QED BY <1>0, <1>7, <2>1, <2>2, QuietStep DEF AssignDefaults, AtPrep, NextSection, TypeOK
<1>8. ASSUME NEW t \in Thread, BuildProfiles(t)
      PROVE  Goal
  <2>1. buf[t] = {} \/ op[t].outer
    BY <1>8 DEF BuildProfiles, AtPrep, Reading
  <2>2. op[t].outer => Held(t)' > 0
    BY <1>0, <1>8 DEF BuildProfiles, Go, TypeOK, Held, InOuter, InSection
  <2> QED BY <1>0, <1>8, <2>1, <2>2, QuietStep DEF BuildProfiles, Go, TypeOK, shared
<1>9. ASSUME NEW t \in Thread, StoreWord(t)
      PROVE  Goal
  <2>1. /\ \A u \in Thread : buf[u] = {}
        /\ \A u \in Thread : pc[u] # "loaded"
    BY <1>0, <1>9, WriterAlone DEF StoreWord, AtAccess, Placed
  <2>2. buf' = buf /\ pc' = pc
    BY <1>9 DEF StoreWord
  <2> QED BY <2>1, <2>2 DEF Reading, Loaded, ConsistentReads
<1>10. ASSUME NEW t \in Thread, LoadWord(t)
       PROVE  Goal
  <2>1. HasSection(t) /\ HasAccess(t) /\ Now(t).do = "write" /\ Now(t).mask # Bit
    BY <1>0, <1>10 DEF LoadWord, AtAccess, Placed
  <2>2. /\ \A u \in Thread : buf[u] = {}
        /\ \A u \in Thread : pc[u] # "loaded"
    BY <1>10, <2>1, WriterAlone DEF LoadWord, AtAccess
  <2>3. PICK c \in Cell : Now(t).cells = {c}
    BY <2>1, AccessAt DEF AccessShape
  <2>4. word'[t] = store[c] /\ Now(t)' = Now(t) /\ store' = store
    <3>1. UNION {store[d] : d \in Now(t).cells} = store[c]
      BY <2>3
    <3> QED BY <1>0, <1>10, <3>1 DEF LoadWord, TypeOK, Now, This, Sections, shared
  <2>5. \A u \in Thread : pc'[u] = "loaded" => u = t
    BY <1>0, <1>10, <2>2 DEF LoadWord, Go, TypeOK
  <2>6. buf' = buf
    BY <1>10 DEF LoadWord
  <2> QED BY <2>2, <2>3, <2>4, <2>5, <2>6 DEF Reading, Loaded, ConsistentReads
<1>11. ASSUME NEW t \in Thread, StoreBit(t)
       PROVE  Goal
  <2>1. HasSection(t) /\ HasAccess(t) /\ Now(t).do = "write"
    BY <1>0, <1>11 DEF StoreBit, Placed
  <2>2. /\ \A u \in Thread : buf[u] = {}
        /\ \A u \in Thread : pc[u] = "loaded" => u = t
    BY <1>11, <2>1, WriterAlone DEF StoreBit
  <2>3. buf' = buf /\ \A u \in Thread : pc'[u] # "loaded"
    BY <1>0, <1>11, <2>2 DEF StoreBit, Go, TypeOK
  <2> QED BY <2>2, <2>3 DEF Reading, Loaded, ConsistentReads
<1>12. ASSUME NEW t \in Thread, ReadWord(t)
       PROVE  Goal
  <2>1. HasSection(t) /\ HasAccess(t) /\ Now(t).do = "read" /\ pc[t] = "inside"
    BY <1>0, <1>12 DEF ReadWord, AtAccess, Placed
  <2>2. /\ AccessShape(Now(t)) /\ NoWrites(This(t))
        /\ op[t].outer => \A i \in DOMAIN Sections(t) : NoWrites(Sections(t)[i])
    BY <2>1, AccessAt
  <2>3. /\ buf'[t] = buf[t] \cup Stored(Now(t), store)
        /\ \A u \in Thread \ {t} : buf'[u] = buf[u]
    BY <1>0, <1>12 DEF ReadWord, TypeOK
  <2>4. \A u \in Thread : Held(u)' = Held(u) /\ Sections(u)' = Sections(u) /\ This(u)' = This(u)
    BY <1>12 DEF ReadWord, Held, InOuter, InSection, This, Sections
  <2>5. Held(t) > 0
    BY <2>1 DEF Held, InSection, InOuter
  <2>6. Reading'
    BY <1>12, <2>1, <2>2, <2>3, <2>4, <2>5 DEF ReadWord, Reading, NoWrites
  <2>7. Loaded'
    <3>1. \A u \in Thread \ {t} : Now(u)' = Now(u)
      BY <1>0, <1>12 DEF ReadWord, NextAccess, TypeOK, Now, This, Sections
    <3> QED BY <1>12, <2>1, <3>1 DEF ReadWord, Loaded, shared
  <2>8. ASSUME NEW o \in Stored(Now(t), store)
        PROVE  o.bits = (store[o.cell] \cap Covered(o.who, o.cell)) \ o.gen
    BY <2>1, <2>2 DEF Stored, AccessShape
  <2>9. ConsistentReads'
    BY <1>12, <2>3, <2>8 DEF ReadWord, ConsistentReads, shared
  <2> QED BY <2>6, <2>7, <2>9
<1>13. ASSUME NEW t \in Thread, OverlayGenerated(t)
       PROVE  Goal
  <2>1. pc[t] = "inside"
    BY <1>13 DEF OverlayGenerated, AtAccess
  <2>2. /\ buf'[t] = {Overlaid(o, profiles) : o \in buf[t]}
        /\ \A u \in Thread \ {t} : buf'[u] = buf[u]
    BY <1>0, <1>13 DEF OverlayGenerated, TypeOK
  <2>3. \A u \in Thread : Held(u)' = Held(u) /\ Sections(u)' = Sections(u) /\ This(u)' = This(u)
    BY <1>13 DEF OverlayGenerated, Held, InOuter, InSection, This, Sections
  <2>4. \A u \in Thread : buf'[u] # {} => buf[u] # {}
    BY <2>2
  <2>5. Reading'
    BY <1>13, <2>3, <2>4 DEF OverlayGenerated, Reading, NoWrites
  <2>6. Loaded'
    <3>1. \A u \in Thread \ {t} : Now(u)' = Now(u)
      BY <1>0, <1>13 DEF OverlayGenerated, NextAccess, TypeOK, Now, This, Sections
    <3> QED BY <1>13, <2>1, <3>1 DEF OverlayGenerated, Loaded, shared
  <2>7. ASSUME NEW o \in buf[t]
        PROVE  LET v == Overlaid(o, profiles)
               IN  v.bits = (store[v.cell] \cap Covered(v.who, v.cell)) \ v.gen
    <3>1. o.bits = (store[o.cell] \cap Covered(o.who, o.cell)) \ o.gen
      BY DEF ConsistentReads
    <3> QED BY <3>1 DEF Overlaid
  <2>8. ConsistentReads'
    BY <1>13, <2>2, <2>7 DEF OverlayGenerated, ConsistentReads, shared
  <2> QED BY <2>5, <2>6, <2>8
<1>14. ASSUME NEW t \in Thread, SwapProfiles(t)
       PROVE  Goal
  <2>1. \A u \in Thread : Held(u)' = Held(u) /\ Sections(u)' = Sections(u) /\ This(u)' = This(u)
    BY <1>14 DEF SwapProfiles, Held, InOuter, InSection, This, Sections
  <2>2. Reading'
    BY <1>14, <2>1 DEF SwapProfiles, Reading, NoWrites
  <2>3. Loaded'
    <3>1. \A u \in Thread \ {t} : Now(u)' = Now(u)
      BY <1>0, <1>14 DEF SwapProfiles, NextAccess, TypeOK, Now, This, Sections
    <3> QED BY <1>14, <3>1 DEF SwapProfiles, AtAccess, Loaded
  <2>4. ConsistentReads'
    BY <1>14 DEF SwapProfiles, ConsistentReads
  <2> QED BY <2>2, <2>3, <2>4
<1>15. ASSUME NEW t \in Thread, LeaveSection(t)
       PROVE  Goal
  <2>1. CASE op[t].outer
    <3>1. Held(t)' > 0
      BY <1>0, <1>15, <2>1 DEF LeaveSection, Go, TypeOK, Held, InOuter, InSection
    <3> QED BY <1>0, <1>15, <2>1, <3>1, QuietStep DEF LeaveSection, Go, NextSection, TypeOK, shared
  <2>2. CASE ~op[t].outer
    <3>1. buf'[t] = {} /\ \A u \in Thread \ {t} : buf'[u] = buf[u]
      BY <1>0, <1>15, <2>2 DEF LeaveSection, Deliver, TypeOK
    <3>2. ASSUME NEW u \in Thread \ {t}
          PROVE  /\ Held(u)' = Held(u) /\ pc'[u] = pc[u] /\ op'[u] = op[u] /\ word'[u] = word[u]
                 /\ Sections(u)' = Sections(u) /\ This(u)' = This(u) /\ Now(u)' = Now(u)
      BY <1>0, <1>15 DEF LeaveSection, Go, NextSection, TypeOK, Held, InOuter, InSection,
                         Sections, This, Now
    <3>3. Reading'
      BY <3>1, <3>2 DEF Reading, NoWrites
    <3>4. Loaded'
      BY <1>0, <1>15, <3>2 DEF LeaveSection, Go, TypeOK, Loaded, shared
    <3>5. ConsistentReads'
      BY <1>15, <3>1 DEF LeaveSection, ConsistentReads, shared
    <3> QED BY <3>3, <3>4, <3>5
  <2> QED BY <2>1, <2>2
<1>16. ASSUME NEW t \in Thread, LeaveOuter(t)
       PROVE  Goal
  <2>1. buf'[t] = {} /\ \A u \in Thread \ {t} : buf'[u] = buf[u]
    BY <1>0, <1>16 DEF LeaveOuter, Deliver, TypeOK
  <2>2. ASSUME NEW u \in Thread \ {t}
        PROVE  /\ Held(u)' = Held(u) /\ pc'[u] = pc[u] /\ op'[u] = op[u] /\ word'[u] = word[u]
               /\ Sections(u)' = Sections(u) /\ This(u)' = This(u) /\ Now(u)' = Now(u)
    BY <1>0, <1>16 DEF LeaveOuter, Go, TypeOK, Held, InOuter, InSection, Sections, This, Now
  <2>3. Reading'
    BY <2>1, <2>2 DEF Reading, NoWrites
  <2>4. Loaded'
    BY <1>0, <1>16, <2>2 DEF LeaveOuter, Go, TypeOK, Loaded, shared
  <2>5. ConsistentReads'
    BY <1>16, <2>1 DEF LeaveOuter, ConsistentReads, shared
  <2> QED BY <2>3, <2>4, <2>5
<1>17. ASSUME NEW t \in Thread, Return(t)
       PROVE  Goal
  <2>1. buf[t] = {}
    BY <1>17 DEF Return, Reading, Held, InOuter, InSection
  <2> QED BY <1>0, <1>17, <2>1, QuietStep DEF Return, Go, TypeOK, shared
<1> QED BY <1>1, <1>2, <1>3, <1>4, <1>5, <1>6, <1>7, <1>8, <1>9, <1>10, <1>11,
           <1>12, <1>13, <1>14, <1>15, <1>16, <1>17 DEF Next, Take, Step

\* RInv is inductive and holds from the start.
THEOREM ReadInvariance == Spec => []RInv
<1>1. RInv /\ [Next]_vars => RInv'
  <2>1. IInv /\ [Next]_vars => IInv'
    BY TypeStep, PlacedStep, LockStep DEF IInv
  <2> QED BY <2>1, ReadingStep DEF RInv
<1> QED BY InitRInv, <1>1, PTL DEF Spec

\* What a locked block has read stays what the store holds until the block ends:
\* no torn 32-bit value, no block read that mixes two writes.
THEOREM ReadsConsistent == Spec => []ConsistentReads
BY ReadInvariance, PTL DEF RInv

\* A thread leaves "loaded" only by writing its word back.
LEMMA OnlyStoreBit ==
  ASSUME IInv, Next, NEW t \in Thread, pc[t] = "loaded", pc'[t] # "loaded"
  PROVE  StoreBit(t)
<1>1. TypeOK
  BY DEF IInv
<1>2. PICK u \in Thread : (\E call \in MayCall(u) : Begin(u, call)) \/ Take(u) \/ Step(u)
  BY DEF Next
<1>3. ASSUME NEW call \in MayCall(u), Begin(u, call) PROVE FALSE
  BY <1>1, <1>3 DEF Begin, Go, TypeOK
<1>4. ~Take(u)
  BY <1>1 DEF Take, EnterOuter, EnterSection, AtPrep, Go, TypeOK
<1>5. ~(LookupHit(u) \/ LookupMiss(u) \/ AssignDefaults(u) \/ BuildProfiles(u))
  BY <1>1 DEF LookupHit, LookupMiss, AssignDefaults, BuildProfiles, AtPrep, Go, TypeOK
<1>6. ~(StoreWord(u) \/ ReadWord(u) \/ OverlayGenerated(u) \/ SwapProfiles(u) \/ LoadWord(u))
  BY <1>1 DEF StoreWord, ReadWord, OverlayGenerated, SwapProfiles, LoadWord, AtAccess, Go, TypeOK
<1>7. ~(LeaveSection(u) \/ LeaveOuter(u) \/ Return(u))
  BY <1>1 DEF LeaveSection, LeaveOuter, Return, Go, TypeOK
<1>8. StoreBit(u)
  BY <1>2, <1>3, <1>4, <1>5, <1>6, <1>7 DEF Step
<1>9. u = t
  BY <1>1, <1>8 DEF StoreBit, Go, TypeOK
<1> QED BY <1>8, <1>9

\* Setting or clearing one bool of a register keeps every other bit of it, whatever
\* the other threads write meanwhile.
THEOREM BitsKept == Spec => NoLostBits
<1>1. RInv /\ [Next]_vars => [\A t \in Thread : KeepsOtherBits(t)]_vars
  <2> SUFFICES ASSUME RInv, Next, NEW t \in Thread,
                      pc[t] = "loaded", pc'[t] = "inside", NEW c \in Cell
               PROVE  store'[c] \ Now(t).mask = store[c] \ Now(t).mask
    BY DEF KeepsOtherBits
  <2>1. StoreBit(t)
    BY OnlyStoreBit DEF RInv
  <2>2. CASE c \in Now(t).cells
    <3>1. word[t] = store[c]
      BY <2>2 DEF RInv, Loaded
    <3>2. store'[c] = (word[t] \ Now(t).mask) \cup (Now(t).bits \cap Now(t).mask)
      BY <2>1, <2>2 DEF StoreBit
    <3> QED BY <3>1, <3>2
  <2>3. CASE c \notin Now(t).cells
    BY <2>1, <2>3 DEF StoreBit
  <2> QED BY <2>2, <2>3
<1> QED BY ReadInvariance, <1>1, PTL DEF Spec, NoLostBits

(***************************************************************************)
(* More of the shape of the calls: what a section does before its lock     *)
(* says what it does inside, and generated values are put over what was    *)
(* read as the last thing.                                                 *)
(***************************************************************************)
SectionForm(section) ==
  LET body == section.body
  IN /\ section.prep = "assign" => body = <<>>
     /\ section.prep = "build" => body = <<Swap>>
     /\ section.prep # "build" => \A j \in DOMAIN body : body[j].do # "swap"
     /\ section.prep = "lookup" => section.who \in SignalSet
     /\ section.prep = "lookup" =>
          \A j \in DOMAIN body : body[j].do = "read" /\ body[j].who = section.who
     /\ \A j \in DOMAIN body : body[j].do = "overlay" => j = Len(body)
     /\ (\E j \in DOMAIN body : body[j].do = "read" /\ body[j].who = NoSignal)
          => body[Len(body)].do = "overlay"

\* A call that does not set the simulation.
Plain(call) == \A i \in DOMAIN call.sections : call.sections[i].prep \in {"none", "lookup"}
CallForm(call) ==
  /\ \A i \in DOMAIN call.sections : SectionForm(call.sections[i])
  /\ Plain(call) \/ (call \in SimCalls /\ ~call.outer)
  /\ call.outer =>
       \/ \A i \in DOMAIN call.sections :
            Writes(call.sections[i]) /\ call.sections[i].prep = "none"
       \/ \A i \in DOMAIN call.sections : call.sections[i].prep = "lookup"

\* A block of writes.
LEMMA WritesForm ==
  ASSUME NEW body, Writes(Locked(body))
  PROVE  SectionForm(Locked(body)) /\ Locked(body).prep = "none"
BY DEF Writes, Locked, Prepared, SectionForm

\* read_signal is about its signal only.
LEMMA ReadSignalForm ==
  ASSUME NEW s \in SignalSet
  PROVE  SectionForm(ReadSignal(s)) /\ ReadSignal(s).prep = "lookup"
<1> DEFINE read(i) == Read(CellOf(s, i), SignalMask(s, CellOf(s, i)), s)
<1>1. s # NoSignal
  BY SignalsAssumption
<1>2. \A i \in {0, 1} : read(i).who = s /\ read(i).do = "read"
  BY DEF Read
<1> HIDE DEF read
<1>3. /\ ReadSignal(s).body = IF IsWide(s) THEN <<read(0), read(1)>> ELSE <<read(0)>>
      /\ ReadSignal(s).prep = "lookup" /\ ReadSignal(s).who = s
  BY DEF ReadSignal, read
<1>4. \A j \in DOMAIN ReadSignal(s).body :
        ReadSignal(s).body[j].who = s /\ ReadSignal(s).body[j].do = "read"
  BY <1>2, <1>3
<1> QED BY <1>1, <1>3, <1>4 DEF SectionForm

\* The API's calls.
LEMMA ApiCallsForm == \A call \in ApiCalls : CallForm(call) /\ Plain(call)
<1>1. ASSUME NEW s \in SignalSet, NEW raw \in RawValues
      PROVE  CallForm(SetValue(s, raw)) /\ Plain(SetValue(s, raw))
  <2>1. SectionForm(Locked(StoreRaw(s, raw))) /\ Locked(StoreRaw(s, raw)).prep = "none"
    BY StoreRawShape, WritesForm
  <2>2. SectionForm(ReadSignal(s)) /\ ReadSignal(s).prep = "lookup"
    BY ReadSignalForm
  <2> QED BY <2>1, <2>2 DEF SetValue, CallForm, Plain
<1>2. \A i \in 1 .. Len(Signals) : Signals[i] \in SignalSet
  BY SignalsAssumption DEF SignalSet
<1>3. CallForm(SetDefaults) /\ Plain(SetDefaults)
  <2> DEFINE section(i) == Locked(StoreRaw(Signals[i], Signals[i].default_raw))
  <2>1. \A i \in 1 .. Len(Signals) :
          SectionForm(section(i)) /\ Writes(section(i)) /\ section(i).prep = "none"
    BY <1>2, StoreRawShape, WritesForm
  <2> HIDE DEF section
  <2>2. SetDefaults.sections = [i \in 1 .. Len(Signals) |-> section(i)]
    BY DEF SetDefaults, section
  <2> QED BY <2>1, <2>2 DEF CallForm, Plain
<1>4. CallForm(ClearAll) /\ Plain(ClearAll)
  <2> DEFINE table(rt) == Write({rt} \X Address, Bit, {})
             body == <<table("holding"), table("input"), table("coil"), table("discrete_input")>>
  <2>1. \A rt \in REGISTER_TYPES : table(rt).do = "write"
    BY DEF Write
  <2> HIDE DEF table
  <2>2. \A j \in DOMAIN body : body[j].do = "write"
    BY <2>1 DEF REGISTER_TYPES
  <2>3. ClearAll.outer = FALSE /\ ClearAll.sections = <<Locked(body)>>
    BY DEF ClearAll, table
  <2>4. Locked(body).body = body
    BY DEF Locked, Prepared
  <2> HIDE DEF body
  <2>5. SectionForm(Locked(body)) /\ Locked(body).prep = "none"
    BY <2>2, <2>4, WritesForm DEF Writes
  <2> QED BY <2>3, <2>5 DEF CallForm, Plain
<1>5. CallForm(GetValues) /\ Plain(GetValues)
  <2>1. \A i \in 1 .. Len(Signals) :
          SectionForm(ReadSignal(Signals[i])) /\ ReadSignal(Signals[i]).prep = "lookup"
    BY <1>2, ReadSignalForm
  <2>2. GetValues.sections = [i \in 1 .. Len(Signals) |-> ReadSignal(Signals[i])]
    BY DEF GetValues
  <2> QED BY <2>1, <2>2 DEF CallForm, Plain
<1> QED BY <1>1, <1>3, <1>4, <1>5 DEF ApiCalls

\* Changes of the simulation settings.
LEMMA SimCallsForm == \A call \in SimCalls : CallForm(call)
<1> SUFFICES ASSUME NEW sims \in SimChoices
             PROVE  CallForm(SetSimDefaults(sims))
  BY DEF SimCalls
<1>1. SectionForm(Prepared("assign", sims, <<>>))
  BY DEF Prepared, SectionForm
<1>2. Swap.do = "swap"
  BY DEF Swap
<1>3. SectionForm(Prepared("build", {}, <<Swap>>))
  BY <1>2 DEF Prepared, SectionForm
<1>4. SetSimDefaults(sims) \in SimCalls /\ ~SetSimDefaults(sims).outer
  BY DEF SimCalls, SetSimDefaults
<1> QED BY <1>1, <1>3, <1>4 DEF SetSimDefaults, CallForm

\* The Modbus server's calls.
LEMMA ModbusCallsForm == \A call \in ModbusCalls : CallForm(call) /\ Plain(call)
<1>1. Overlay.do = "overlay"
  BY DEF Overlay
<1>2. ASSUME NEW r \in BlockReads
      PROVE  CallForm(ReadBlock(r[1], r[2], r[3])) /\ Plain(ReadBlock(r[1], r[2], r[3]))
  <2> DEFINE read(i) == Read(<<r[1], r[2] + i - 1>>, Bit, NoSignal)
             n == r[3] + 1
             body == [i \in 1 .. n |-> IF i = n THEN Overlay ELSE read(i)]
  <2>1. \A i \in 1 .. n : read(i).do = "read"
    BY DEF Read
  <2>2. n \in Nat \ {0}
    BY InputsAssumption
  <2>3. /\ ReadBlock(r[1], r[2], r[3]).outer = FALSE
        /\ ReadBlock(r[1], r[2], r[3]).sections = <<Locked(body)>>
    BY DEF ReadBlock, read
  <2> HIDE DEF read, n
  <2>4. /\ DOMAIN body = 1 .. n /\ Len(body) = n /\ body[n] = Overlay
        /\ \A j \in DOMAIN body : j # n => body[j].do = "read"
    BY <2>1, <2>2
  <2>5. Locked(body).body = body /\ Locked(body).prep = "none"
    BY DEF Locked, Prepared
  <2> HIDE DEF body
  <2>6. SectionForm(Locked(body))
    BY <1>1, <2>4, <2>5 DEF SectionForm
  <2> QED BY <2>3, <2>5, <2>6 DEF CallForm, Plain
<1>3. ASSUME NEW w \in BlockWrites
      PROVE  CallForm(WriteBlock(w[1], w[2])) /\ Plain(WriteBlock(w[1], w[2]))
  <2> DEFINE write(i) == Write({<<"holding", w[1] + i - 1>>}, Bit, w[2][i])
             body == [i \in 1 .. Len(w[2]) |-> write(i)]
  <2>1. \A i \in 1 .. Len(w[2]) : write(i).do = "write"
    BY DEF Write
  <2> HIDE DEF write
  <2>2. \A j \in DOMAIN body : body[j].do = "write"
    BY <2>1
  <2>3. /\ WriteBlock(w[1], w[2]).outer = FALSE
        /\ WriteBlock(w[1], w[2]).sections = <<Locked(body)>>
    BY DEF WriteBlock, write
  <2>4. Locked(body).body = body
    BY DEF Locked, Prepared
  <2> HIDE DEF body
  <2>5. SectionForm(Locked(body)) /\ Locked(body).prep = "none"
    BY <2>2, <2>4, WritesForm DEF Writes
  <2> QED BY <2>3, <2>5 DEF CallForm, Plain
<1>4. ASSUME NEW r \in BitReads
      PROVE  CallForm(ReadBits(r[1], r[2], r[3])) /\ Plain(ReadBits(r[1], r[2], r[3]))
  <2> DEFINE base == (r[2] \div WordSize) * WordSize
             n == r[3] * WordSize
             read(i) == Read(<<r[1], base + i - 1>>, {0}, NoSignal)
             section(i) == Locked(<<read(i), Overlay>>)
  <2>1. \A i \in 1 .. n : read(i).do = "read"
    BY DEF Read
  <2> HIDE DEF read
  <2>2. \A i \in 1 .. n : SectionForm(section(i)) /\ section(i).prep = "none"
    BY <1>1, <2>1 DEF SectionForm, Locked, Prepared
  <2> HIDE DEF section
  <2>3. /\ ReadBits(r[1], r[2], r[3]).outer = FALSE
        /\ ReadBits(r[1], r[2], r[3]).sections = [i \in 1 .. n |-> section(i)]
    BY DEF ReadBits, read, section
  <2> HIDE DEF n
  <2> QED BY <2>2, <2>3 DEF CallForm, Plain
<1>5. ASSUME NEW w \in BitWrites
      PROVE  CallForm(WriteBits(w[1], w[2])) /\ Plain(WriteBits(w[1], w[2]))
  <2> DEFINE write(i) == Write({<<"coil", w[1] + i - 1>>}, Bit, IF w[2][i] THEN {0} ELSE {})
             section(i) == Locked(<<write(i)>>)
  <2>1. \A i \in 1 .. Len(w[2]) : write(i).do = "write"
    BY DEF Write
  <2> HIDE DEF write
  <2>2. \A i \in 1 .. Len(w[2]) : SectionForm(section(i)) /\ section(i).prep = "none"
    BY <2>1, WritesForm DEF Writes, Locked, Prepared
  <2> HIDE DEF section
  <2>3. /\ WriteBits(w[1], w[2]).outer = FALSE
        /\ WriteBits(w[1], w[2]).sections = [i \in 1 .. Len(w[2]) |-> section(i)]
    BY DEF WriteBits, write, section
  <2> QED BY <2>2, <2>3 DEF CallForm, Plain
<1> QED BY <1>2, <1>3, <1>4, <1>5 DEF ModbusCalls

\* All calls have this form.
LEMMA CallsForm == \A call \in Calls \cup {NoCall} : CallForm(call)
<1>1. CallForm(NoCall)
  BY DEF NoCall, CallForm, Plain
<1> QED BY <1>1, ApiCallsForm, SimCallsForm, ModbusCallsForm DEF Calls

(***************************************************************************)
(* Where a call starts and how far a section goes.                         *)
(***************************************************************************)
CountedAt(t) ==
  /\ pc[t] \in {"idle", "wait"} => sec[t] = 1
  /\ pc[t] = "idle" => op[t] = NoCall
  /\ InSection(t) => acc[t] <= Len(This(t).body) + 1
  /\ pc[t] = "ready" => This(t).prep \in {"lookup", "build"}
  /\ InSection(t) => This(t).prep # "assign"

Counted == \A t \in Thread : CountedAt(t)

CInv == IInv /\ Counted

\* A step of one thread leaves the call and the place of the others alone.
LEMMA OthersStay ==
  ASSUME TypeOK, NEW t \in Thread,
         (\E call \in MayCall(t) : Begin(t, call)) \/ Take(t) \/ Step(t),
         NEW u \in Thread \ {t}
  PROVE  /\ pc'[u] = pc[u] /\ op'[u] = op[u] /\ sec'[u] = sec[u] /\ acc'[u] = acc[u]
         /\ built'[u] = built[u] /\ got'[u] = got[u] /\ buf'[u] = buf[u] /\ word'[u] = word[u]
BY DEF Take, Step, Begin, EnterOuter, EnterSection, LookupHit, LookupMiss, AssignDefaults,
       BuildProfiles, StoreWord, LoadWord, StoreBit, ReadWord, OverlayGenerated, SwapProfiles,
       LeaveSection, LeaveOuter, Return, Go, NextSection, NextAccess, Deliver, TypeOK

\* A thread that has an access before it goes on in the same section.
LEMMA CountAccess ==
  ASSUME IInv, NEW t \in Thread, HasSection(t), HasAccess(t),
         op' = op, sec' = sec, acc'[t] = acc[t] + 1, This(t).prep # "assign",
         pc'[t] = "inside"
  PROVE  CountedAt(t)'
<1>1. This(t)' = This(t)
  BY DEF This, Sections
<1>2. This(t).body \in Seq(Access)
  BY OpTyped DEF IInv, Section
<1>3. acc[t] <= Len(This(t).body) /\ acc[t] \in Nat /\ Len(This(t).body) \in Nat
  BY <1>2 DEF HasAccess, IInv, TypeOK
<1> QED BY <1>1, <1>3 DEF CountedAt, InSection

\* Every step keeps the count.
LEMMA CountedStep == CInv /\ [Next]_vars => Counted'
<1> SUFFICES ASSUME CInv, [Next]_vars PROVE Counted'
  OBVIOUS
<1>0. IInv /\ TypeOK /\ Placed /\ \A t \in Thread : CountedAt(t)
  BY DEF CInv, IInv, Counted, CountedAt
<1>1. CASE UNCHANGED vars
  BY <1>1 DEF vars, CInv, Counted, CountedAt, InSection, This, Sections
<1>2. ASSUME NEW t \in Thread, CountedAt(t)',
             (\E call \in MayCall(t) : Begin(t, call)) \/ Take(t) \/ Step(t)
      PROVE  Counted'
  <2>1. SUFFICES ASSUME NEW u \in Thread PROVE CountedAt(u)'
    BY DEF Counted, CountedAt
  <2>2. CASE u = t
    BY <1>2, <2>2
  <2>3. CASE u # t
    <3>1. /\ pc'[u] = pc[u] /\ op'[u] = op[u] /\ sec'[u] = sec[u] /\ acc'[u] = acc[u]
      BY <1>0, <1>2, <2>3, OthersStay
    <3> QED BY <1>0, <3>1 DEF CountedAt, InSection, This, Sections
  <2> QED BY <2>2, <2>3
<1>3. ASSUME NEW t \in Thread, NEW call \in MayCall(t), Begin(t, call) PROVE CountedAt(t)'
  <2>1. pc'[t] \in {"wait", "next"} /\ sec' = sec /\ pc[t] = "idle"
    BY <1>0, <1>3 DEF Begin, Go, TypeOK
  <2> QED BY <1>0, <2>1 DEF CountedAt, InSection
<1>4. ASSUME NEW t \in Thread, EnterOuter(t) \/ LeaveOuter(t) \/ LeaveSection(t) PROVE CountedAt(t)'
  <2>1. pc'[t] \in {"next", "done"}
    BY <1>0, <1>4 DEF EnterOuter, LeaveOuter, LeaveSection, Go, TypeOK
  <2> QED BY <2>1 DEF CountedAt, InSection
<1>5. ASSUME NEW t \in Thread, LookupHit(t) \/ AssignDefaults(t) PROVE CountedAt(t)'
  <2>1. pc'[t] = "next"
    BY <1>5 DEF LookupHit, AssignDefaults, AtPrep
  <2> QED BY <2>1 DEF CountedAt, InSection
<1>6. ASSUME NEW t \in Thread, LookupMiss(t) \/ BuildProfiles(t) PROVE CountedAt(t)'
  <2>1. pc'[t] = "ready" /\ This(t)' = This(t) /\ This(t).prep \in {"lookup", "build"}
    BY <1>0, <1>6 DEF LookupMiss, BuildProfiles, AtPrep, Go, TypeOK, This, Sections
  <2> QED BY <2>1 DEF CountedAt, InSection
<1>7. ASSUME NEW t \in Thread, EnterSection(t) PROVE CountedAt(t)'
  <2>1. /\ pc'[t] = "inside" /\ acc'[t] = 1 /\ This(t)' = This(t) /\ HasSection(t)
        /\ This(t).prep # "assign"
    BY <1>0, <1>7 DEF EnterSection, AtPrep, Go, TypeOK, This, Sections, CountedAt, Placed
  <2>2. Len(This(t).body) \in Nat
    BY <1>0, <2>1, OpTyped DEF Section
  <2> QED BY <2>1, <2>2 DEF CountedAt, InSection
<1>8. ASSUME NEW t \in Thread, StoreWord(t) \/ ReadWord(t) \/ OverlayGenerated(t) \/ SwapProfiles(t)
      PROVE CountedAt(t)'
  <2>1. /\ pc[t] = "inside" /\ pc' = pc /\ op' = op /\ sec' = sec /\ acc'[t] = acc[t] + 1
        /\ HasAccess(t) /\ HasSection(t)
    BY <1>0, <1>8 DEF StoreWord, ReadWord, OverlayGenerated, SwapProfiles, AtAccess, NextAccess, TypeOK, Placed
  <2>2. This(t).prep # "assign"
    BY <1>0, <2>1 DEF CountedAt, InSection
  <2> QED BY <1>0, <2>1, <2>2, CountAccess
<1>9. ASSUME NEW t \in Thread, LoadWord(t) PROVE CountedAt(t)'
  <2>1. /\ pc[t] = "inside" /\ pc'[t] = "loaded" /\ acc' = acc /\ This(t)' = This(t)
    BY <1>0, <1>9 DEF LoadWord, AtAccess, Go, TypeOK, This, Sections
  <2> QED BY <1>0, <2>1 DEF CountedAt, InSection
<1>10. ASSUME NEW t \in Thread, StoreBit(t) PROVE CountedAt(t)'
  <2>1. /\ pc[t] = "loaded" /\ pc'[t] = "inside" /\ op' = op /\ sec' = sec
        /\ acc'[t] = acc[t] + 1 /\ HasAccess(t) /\ HasSection(t)
    BY <1>0, <1>10 DEF StoreBit, Go, NextAccess, TypeOK, Placed
  <2>2. This(t).prep # "assign"
    BY <1>0, <2>1 DEF CountedAt, InSection
  <2> QED BY <1>0, <2>1, <2>2, CountAccess
<1>11. ASSUME NEW t \in Thread, Return(t) PROVE CountedAt(t)'
  <2>1. pc'[t] = "idle" /\ op'[t] = NoCall /\ sec'[t] = 1
    BY <1>0, <1>11 DEF Return, Go, TypeOK
  <2> QED BY <2>1 DEF CountedAt, InSection
<1>12. PICK t \in Thread : \/ UNCHANGED vars
                           \/ \E call \in MayCall(t) : Begin(t, call)
                           \/ Take(t) \/ Step(t)
  BY <1>1 DEF Next, Thread
<1>13. UNCHANGED vars \/ CountedAt(t)'
  BY <1>12, <1>3, <1>4, <1>5, <1>6, <1>7, <1>8, <1>9, <1>10, <1>11 DEF Take, Step
<1> QED BY <1>1, <1>2, <1>12, <1>13

\* CInv is inductive.
THEOREM CountInvariance == Spec => []CInv
<1>1. Init => CInv
  BY InitIInv DEF Init, CInv, Counted, CountedAt, InSection
<1>2. CInv /\ [Next]_vars => CInv'
  BY TypeStep, PlacedStep, LockStep, CountedStep DEF CInv, IInv
<1> QED BY <1>1, <1>2, PTL DEF Spec

(***************************************************************************)
(* The settings in force.  With one thread that sets the simulation, the   *)
(* profiles are those of the settings but between its assignment and its   *)
(* swap; two threads may assign and swap in opposite orders.               *)
(***************************************************************************)
OneSetter == \A t, u \in SimSetters : t = u

Setting(t) == op[t] \in SimCalls /\ ~Plain(op[t])
InForce(t) ==
  /\ pc[t] \in {"next", "ready", "inside"} /\ sec[t] \in {1, 2, 3}
  /\ sec[t] \in {1, 3} => pc[t] = "next" /\ profiles = simDefaults
  /\ pc[t] \in {"ready", "inside"} => built[t] = simDefaults
  /\ pc[t] = "inside" /\ acc[t] > 1 => profiles = simDefaults
Settings ==
  /\ \A t \in Thread : Setting(t) => t \in SimSetters /\ InForce(t)
  /\ (\A t \in Thread : ~Setting(t)) => profiles = simDefaults
SInv == CInv /\ Settings

\* The two sections of set_sim_defaults.
LEMMA SettingCall ==
  ASSUME NEW t \in Thread, Setting(t)
  PROVE  /\ ~op[t].outer /\ DOMAIN Sections(t) = {1, 2}
         /\ Sections(t)[1].prep = "assign" /\ Sections(t)[2].prep = "build"
         /\ Sections(t)[2].body = <<Swap>> /\ Swap.do = "swap" /\ DOMAIN <<Swap>> = {1}
<1>1. PICK sims \in SimChoices : op[t] = SetSimDefaults(sims)
  BY DEF Setting, SimCalls
<1>2. Sections(t) = <<Prepared("assign", sims, <<>>), Prepared("build", {}, <<Swap>>)>>
  BY <1>1 DEF Sections, SetSimDefaults
<1>3. Prepared("assign", sims, <<>>).prep = "assign" /\ Prepared("build", {}, <<Swap>>).prep = "build"
      /\ Prepared("build", {}, <<Swap>>).body = <<Swap>>
  BY DEF Prepared
<1>4. ~op[t].outer
  BY <1>1 DEF SetSimDefaults
<1>5. Swap.do = "swap" /\ DOMAIN <<Swap>> = {1}
  BY DEF Swap
<1>6. DOMAIN Sections(t) = {1, 2}
  BY <1>2
<1> QED BY <1>2, <1>3, <1>4, <1>5, <1>6

\* A thread that does not set the simulation changes neither settings nor profiles.
LEMMA OtherCalls ==
  ASSUME IInv, NEW t \in Thread, ~Setting(t), Take(t) \/ Step(t)
  PROVE  /\ UNCHANGED <<profiles, simDefaults>> /\ ~Setting(t)'
         /\ \A u \in Thread \ {t} : UNCHANGED <<op[u], pc[u], sec[u], acc[u], built[u]>>
<1>1. TypeOK /\ Placed
  BY DEF IInv
<1>2. op[t] \in Calls \cup {NoCall} /\ CallForm(op[t])
  BY <1>1, CallsForm DEF TypeOK
<1>3. Plain(op[t])
  BY <1>2 DEF Setting, CallForm
<1>4. HasSection(t) => This(t).prep \in {"none", "lookup"} /\ SectionForm(This(t))
  BY <1>2, <1>3 DEF CallForm, Plain, HasSection, This, Sections
<1>5. ~AssignDefaults(t) /\ ~BuildProfiles(t)
  BY <1>4 DEF AssignDefaults, BuildProfiles, AtPrep
<1>6. ~SwapProfiles(t)
  BY <1>1, <1>4 DEF SwapProfiles, AtAccess, Placed, SectionForm, HasAccess, Now
<1>7. UNCHANGED <<profiles, simDefaults>>
  BY <1>5, <1>6 DEF Take, Step, EnterOuter, EnterSection, LookupHit, LookupMiss, StoreWord,
       LoadWord, StoreBit, ReadWord, OverlayGenerated, LeaveSection, LeaveOuter, Return, shared
<1>8. op'[t] \in {op[t], NoCall}
  BY <1>1 DEF Take, Step, EnterOuter, EnterSection, LookupHit, LookupMiss, AssignDefaults,
       BuildProfiles, StoreWord, LoadWord, StoreBit, ReadWord, OverlayGenerated, SwapProfiles,
       LeaveSection, LeaveOuter, Return, TypeOK
<1>9. ~Setting(t)'
  BY <1>3, <1>8 DEF Setting, Plain, NoCall
<1>10. \A u \in Thread \ {t} : UNCHANGED <<op[u], pc[u], sec[u], acc[u], built[u]>>
  BY <1>1 DEF Take, Step, EnterOuter, EnterSection, LookupHit, LookupMiss, AssignDefaults,
       BuildProfiles, StoreWord, LoadWord, StoreBit, ReadWord, OverlayGenerated, SwapProfiles,
       LeaveSection, LeaveOuter, Return, Go, NextSection, NextAccess, TypeOK
<1> QED BY <1>7, <1>9, <1>10

\* The setter goes on to the swap, and is done with it.
LEMMA SetterMoves ==
  ASSUME IInv, NEW t \in Thread, Setting(t), InForce(t), Take(t) \/ Step(t)
  PROVE  /\ \/ Setting(t)' /\ InForce(t)'
            \/ ~Setting(t)' /\ profiles' = simDefaults'
         /\ \A u \in Thread \ {t} : op'[u] = op[u]
<1> DEFINE Goal == Setting(t)' /\ InForce(t)' /\ \A u \in Thread \ {t} : op'[u] = op[u]
<1>1. TypeOK /\ Placed
  BY DEF IInv
<1>2. /\ ~op[t].outer /\ DOMAIN Sections(t) = {1, 2}
      /\ Sections(t)[1].prep = "assign" /\ Sections(t)[2].prep = "build"
      /\ Sections(t)[2].body = <<Swap>> /\ Swap.do = "swap" /\ DOMAIN <<Swap>> = {1}
      /\ <<Swap>>[1] = Swap
  BY SettingCall
<1>3. /\ This(t) = Sections(t)[sec[t]] /\ Now(t) = This(t).body[acc[t]]
      /\ HasSection(t) <=> sec[t] \in {1, 2}
  BY <1>2 DEF This, Now, HasSection
<1>4. pc[t] = "inside" => sec[t] = 2
  BY <1>1, <1>3 DEF InForce, Placed
<1>5. ~EnterOuter(t) /\ ~LookupHit(t) /\ ~LookupMiss(t) /\ ~StoreBit(t) /\ ~LeaveOuter(t)
  BY <1>2, <1>3 DEF EnterOuter, LookupHit, LookupMiss, StoreBit, LeaveOuter, AtPrep, InForce
<1>6. ~StoreWord(t) /\ ~LoadWord(t) /\ ~ReadWord(t) /\ ~OverlayGenerated(t)
  BY <1>2, <1>3, <1>4 DEF StoreWord, LoadWord, ReadWord, OverlayGenerated, AtAccess, HasAccess
<1>7. CASE AssignDefaults(t)
  <2>1. sec[t] = 1 /\ pc[t] = "next"
    BY <1>2, <1>3, <1>7 DEF AssignDefaults, AtPrep, InForce
  <2>2. sec'[t] = 2 /\ pc' = pc /\ op' = op
    BY <1>1, <1>7, <2>1 DEF AssignDefaults, NextSection, TypeOK
  <2> QED BY <2>1, <2>2 DEF Setting, InForce
<1>8. CASE BuildProfiles(t)
  <2>1. sec[t] = 2 /\ pc[t] = "next"
    BY <1>2, <1>3, <1>8 DEF BuildProfiles, AtPrep, InForce
  <2>2. /\ sec' = sec /\ pc'[t] = "ready" /\ op' = op /\ built'[t] = simDefaults
        /\ simDefaults' = simDefaults
    BY <1>1, <1>8 DEF BuildProfiles, Go, TypeOK, shared
  <2> QED BY <2>1, <2>2 DEF Setting, InForce
<1>9. CASE EnterSection(t)
  <2>1. pc[t] = "ready"
    BY <1>2, <1>3, <1>9 DEF EnterSection, AtPrep
  <2>2. /\ sec' = sec /\ pc'[t] = "inside" /\ op' = op /\ built' = built /\ acc'[t] = 1
        /\ simDefaults' = simDefaults /\ profiles' = profiles
    BY <1>1, <1>9 DEF EnterSection, Go, TypeOK, shared
  <2> QED BY <2>1, <2>2 DEF Setting, InForce
<1>10. CASE SwapProfiles(t)
  <2>1. /\ pc[t] = "inside" /\ sec' = sec /\ pc' = pc /\ op' = op /\ built' = built
        /\ profiles' = built[t] /\ simDefaults' = simDefaults
    BY <1>10 DEF SwapProfiles, AtAccess
  <2> QED BY <2>1 DEF Setting, InForce
<1>11. CASE LeaveSection(t)
  <2>1. pc[t] = "inside" /\ sec[t] = 2 /\ acc[t] # 1
    BY <1>2, <1>3, <1>4, <1>11 DEF LeaveSection, HasAccess
  <2>2. acc[t] > 1
    BY <1>1, <2>1 DEF TypeOK
  <2>3. /\ sec'[t] = 3 /\ pc'[t] = "next" /\ op' = op /\ built' = built
        /\ profiles' = profiles /\ simDefaults' = simDefaults
    BY <1>1, <1>11, <2>1 DEF LeaveSection, Go, NextSection, TypeOK, shared
  <2> QED BY <2>1, <2>2, <2>3 DEF Setting, InForce
<1>12. CASE Return(t)
  <2>1. sec[t] = 3
    BY <1>3, <1>12 DEF Return, InForce
  <2>2. /\ op'[t] = NoCall /\ \A u \in Thread \ {t} : op'[u] = op[u]
        /\ profiles' = profiles /\ simDefaults' = simDefaults
    BY <1>1, <1>12 DEF Return, TypeOK, shared
  <2> QED BY <2>1, <2>2 DEF Setting, InForce, Plain, NoCall
<1> QED BY <1>5, <1>6, <1>7, <1>8, <1>9, <1>10, <1>11, <1>12 DEF Take, Step

\* set_sim_defaults has no outer block.
LEMMA SettingOuter == \A call \in SimCalls : ~call.outer
BY DEF SimCalls, SetSimDefaults

\* Every step keeps the settings where the setter has got to with them.
LEMMA SettingsStep == OneSetter /\ SInv /\ [Next]_vars => Settings'
<1> SUFFICES ASSUME OneSetter, SInv, [Next]_vars PROVE Settings'
  OBVIOUS
<1>0. IInv /\ TypeOK /\ Settings
  BY DEF SInv, CInv, IInv
<1>1. CASE UNCHANGED vars
  BY <1>0, <1>1 DEF vars, Settings, Setting, InForce
<1>2. ASSUME NEW t \in Thread, NEW call \in MayCall(t), Begin(t, call) PROVE Settings'
  <2>2. /\ op'[t] = call /\ sec' = sec /\ built' = built /\ acc' = acc
        /\ profiles' = profiles /\ simDefaults' = simDefaults
        /\ pc'[t] = (IF call.outer THEN "wait" ELSE "next")
        /\ \A u \in Thread \ {t} : op'[u] = op[u] /\ pc'[u] = pc[u]
    BY <1>0, <1>2 DEF Begin, Go, TypeOK, shared
  <2>3. ~Setting(t)
    BY <1>0, <1>2 DEF Begin, Settings, InForce
  <2>4. CASE Plain(call)
    <3>1. ~Setting(t)'
      BY <2>2, <2>4 DEF Setting
    <3>2. \A u \in Thread : Setting(u)' => Setting(u) /\ u # t
      BY <2>2, <3>1 DEF Setting
    <3>3. (\A u \in Thread : ~Setting(u)') => \A u \in Thread : ~Setting(u)
      BY <2>2, <2>3 DEF Setting
    <3> QED BY <1>0, <2>2, <3>2, <3>3 DEF Settings, InForce
  <2>5. CASE ~Plain(call)
    <3>1. t \in SimSetters /\ call \in SimCalls /\ ~call.outer
      <4>1. call \notin ModbusCalls /\ call \notin ApiCalls
        BY <2>5, ApiCallsForm, ModbusCallsForm
      <4> QED BY <1>2, <4>1, SettingOuter DEF MayCall
    <3>2. \A u \in Thread : ~Setting(u)
      BY <1>0, <2>3, <3>1 DEF Settings, OneSetter
    <3>3. sec[t] = 1
      BY <1>2 DEF Begin, SInv, CInv, Counted, CountedAt
    <3> QED BY <1>0, <2>2, <2>5, <3>1, <3>2, <3>3 DEF Settings, Setting, InForce
  <2> QED BY <2>4, <2>5
<1>3. ASSUME NEW t \in Thread, Take(t) \/ Step(t) PROVE Settings'
  <2>1. CASE ~Setting(t)
    <3>1. /\ UNCHANGED <<profiles, simDefaults>> /\ ~Setting(t)'
          /\ \A u \in Thread \ {t} : UNCHANGED <<op[u], pc[u], sec[u], acc[u], built[u]>>
      BY <1>0, <1>3, <2>1, OtherCalls
    <3> QED BY <1>0, <2>1, <3>1 DEF Settings, Setting, InForce
  <2>2. CASE Setting(t)
    <3>1. /\ \/ Setting(t)' /\ InForce(t)'
             \/ ~Setting(t)' /\ profiles' = simDefaults'
          /\ \A u \in Thread \ {t} : op'[u] = op[u]
      BY <1>0, <1>3, <2>2, SetterMoves DEF Settings
    <3>2. t \in SimSetters /\ \A u \in Thread \ {t} : ~Setting(u)'
      BY <1>0, <2>2, <3>1 DEF Settings, OneSetter, Setting
    <3> QED BY <3>1, <3>2 DEF Settings
  <2> QED BY <2>1, <2>2
<1> QED BY <1>1, <1>2, <1>3 DEF Next

\* "Swap the project simulation settings and rebuild profiles": if one thread sets the
\* simulation, then whenever no call is under way reads are simulated as the settings
\* in force say, whatever other calls went on meanwhile.
THEOREM SettingsInForce ==
  ASSUME OneSetter PROVE Spec => []SettingsApplied
<1>1. Init => SInv
  BY InitIInv DEF Init, SInv, CInv, Counted, CountedAt, InSection, Settings, Setting, Plain, NoCall
<1>2. SInv /\ [Next]_vars => SInv'
  BY TypeStep, PlacedStep, LockStep, CountedStep, SettingsStep DEF SInv, CInv, IInv
<1>3. SInv => SettingsApplied
  BY DEF SInv, Settings, InForce, SettingsApplied
<1> QED BY <1>1, <1>2, <1>3, PTL DEF Spec

(***************************************************************************)
(* What has been written.  While a thread holds the lock, a bit of the     *)
(* store is what the last write of the block so far made it, and what it   *)
(* was when the lock was taken if there is none.                           *)
(***************************************************************************)
Block(t) == IF op[t].outer THEN Sections(t) ELSE <<This(t)>>
Here(t) == IF op[t].outer THEN sec[t] ELSE 1

\* The access at place p of the block is done.
IsDone(t, p) ==
  \/ p[1] < Here(t)
  \/ p[1] = Here(t) /\ InSection(t) /\ p[2] < acc[t]

Before(p, q) == p[1] < q[1] \/ (p[1] = q[1] /\ p[2] <= q[2])
LastIs(places, p) == p \in places /\ \A q \in places : Before(q, p)

\* The last write of places decides bit b of cell c in new.
Decides(block, places, old, new, c, b) ==
  \/ places = {} /\ (b \in new[c] <=> b \in old[c])
  \/ \E p \in places : LastIs(places, p) /\ (b \in new[c] <=> b \in block[p[1]].body[p[2]].bits)

DoneWrites(t, c, b) == {p \in WritesTo(Block(t), c, b) : IsDone(t, p)}
WrittenBy(t) ==
  \A c \in Cell, b \in Bit : Decides(Block(t), DoneWrites(t, c, b), committed, store, c, b)
Written ==
  /\ owner = Nobody => store = committed
  /\ owner # Nobody => WrittenBy(owner)
WInv == CInv /\ Reading /\ Loaded /\ ConsistentReads /\ Written

\* Places are pairs of numbers.
LEMMA PlacesTyped ==
  ASSUME NEW block \in Seq(Section), NEW c, NEW b, NEW p \in WritesTo(block, c, b)
  PROVE  /\ p = <<p[1], p[2]>> /\ p[1] \in DOMAIN block /\ p[2] \in DOMAIN block[p[1]].body
         /\ p[1] \in Nat /\ p[2] \in Nat
<1>1. PICK i \in DOMAIN block, j \in UNION {DOMAIN block[k].body : k \in DOMAIN block} : p = <<i, j>>
  BY DEF WritesTo
<1>2. p[1] \in DOMAIN block /\ p[2] \in DOMAIN block[p[1]].body
  BY <1>1 DEF WritesTo
<1>3. block[p[1]] \in Section
  BY <1>2
<1>4. block[p[1]].body \in Seq(Access)
  BY <1>3 DEF Section
<1> QED BY <1>1, <1>2, <1>4

\* The last of some places is the only last one.
LEMMA LastUnique ==
  ASSUME NEW block \in Seq(Section), NEW c, NEW b,
         NEW p, LastIs(WritesTo(block, c, b), p)
  PROVE  LastOf(WritesTo(block, c, b)) = p
<1> DEFINE places == WritesTo(block, c, b)
           last == LastOf(places)
<1>1. p \in places /\ \A q \in places : q[1] < p[1] \/ (q[1] = p[1] /\ q[2] <= p[2])
  BY DEF LastIs, Before
<1>2. last \in places /\ \A q \in places : q[1] < last[1] \/ (q[1] = last[1] /\ q[2] <= last[2])
  BY <1>1 DEF LastOf
<1>3. /\ p = <<p[1], p[2]>> /\ last = <<last[1], last[2]>>
      /\ p[1] \in Nat /\ p[2] \in Nat /\ last[1] \in Nat /\ last[2] \in Nat
  BY <1>1, <1>2, PlacesTyped
<1>4. p[1] = last[1] /\ p[2] = last[2]
  BY <1>1, <1>2, <1>3
<1> QED BY <1>3, <1>4

\* A store whose bits are all decided by the last write of a block is its effect.
LEMMA EffectDecided ==
  ASSUME NEW block \in Seq(Section), NEW old, NEW new \in [Cell -> Word],
         \A c \in Cell, b \in Bit : Decides(block, WritesTo(block, c, b), old, new, c, b)
  PROVE  Effect(block, old) = new
<1> DEFINE places(c, b) == WritesTo(block, c, b)
           bit(c, b) == IF places(c, b) = {} THEN b \in old[c]
                        ELSE b \in block[LastOf(places(c, b))[1]].body[LastOf(places(c, b))[2]].bits
<1>1. ASSUME NEW c \in Cell, NEW b \in Bit PROVE bit(c, b) <=> b \in new[c]
  <2>1. CASE places(c, b) = {}
    BY <2>1 DEF Decides
  <2>2. CASE places(c, b) # {}
    <3>1. PICK p \in places(c, b) : /\ LastIs(places(c, b), p)
                                    /\ b \in new[c] <=> b \in block[p[1]].body[p[2]].bits
      BY <2>2 DEF Decides
    <3>2. LastOf(places(c, b)) = p
      BY <3>1, LastUnique
    <3> QED BY <2>2, <3>1, <3>2
  <2> QED BY <2>1, <2>2
<1>2. Effect(block, old) = [c \in Cell |-> {b \in Bit : bit(c, b)}]
  BY DEF Effect
<1>3. ASSUME NEW c \in Cell PROVE {b \in Bit : bit(c, b)} = new[c]
  <2>1. new[c] \subseteq Bit
    BY DEF Word
  <2> HIDE DEF bit
  <2> QED BY <1>1, <2>1
<1> HIDE DEF bit
<1> QED BY <1>2, <1>3

\* The block of a thread is a sequence of sections.
LEMMA BlockTyped ==
  ASSUME TypeOK, NEW t \in Thread, op[t].outer \/ HasSection(t)
  PROVE  /\ Block(t) \in Seq(Section)
         /\ HasSection(t) => Here(t) \in DOMAIN Block(t) /\ Block(t)[Here(t)] = This(t)
         /\ Here(t) \in Nat
<1>1. op[t] \in Call /\ op[t].outer \in BOOLEAN /\ (HasSection(t) => This(t) \in Section)
  BY OpTyped
<1>2. Sections(t) \in Seq(Section)
  BY <1>1 DEF Call, Sections
<1>3. CASE op[t].outer
  BY <1>2, <1>3 DEF Block, Here, HasSection, This, TypeOK
<1>4. CASE ~op[t].outer
  <2>1. <<This(t)>> \in Seq(Section)
    BY <1>1, <1>4
  <2> QED BY <1>4, <2>1 DEF Block, Here
<1> QED BY <1>3, <1>4

\* The holder of the lock goes on without writing.
LEMMA KeepWritten ==
  ASSUME NEW t \in Thread, WrittenBy(t), store' = store, committed' = committed,
         Block(t)' = Block(t),
         \A c \in Cell, b \in Bit : \A p \in WritesTo(Block(t), c, b) : IsDone(t, p)' <=> IsDone(t, p)
  PROVE  WrittenBy(t)'
<1> SUFFICES ASSUME NEW c \in Cell, NEW b \in Bit
             PROVE  Decides(Block(t), DoneWrites(t, c, b), committed, store, c, b)'
  BY DEF WrittenBy
<1>1. DoneWrites(t, c, b)' = DoneWrites(t, c, b)
  BY DEF DoneWrites, WritesTo
<1>2. Decides(Block(t), DoneWrites(t, c, b), committed, store, c, b)
  BY DEF WrittenBy
<1> QED BY <1>1, <1>2 DEF Decides

\* The holder of the lock writes.
LEMMA AddWrite ==
  ASSUME TypeOK, NEW t \in Thread, WrittenBy(t), HasSection(t), HasAccess(t), InSection(t),
         Now(t).do = "write", committed' = committed, op' = op, sec' = sec,
         acc'[t] = acc[t] + 1, InSection(t)',
         \A c \in Cell, b \in Bit :
           IF c \in Now(t).cells /\ b \in Now(t).mask
           THEN b \in store'[c] <=> b \in Now(t).bits
           ELSE b \in store'[c] <=> b \in store[c]
  PROVE  WrittenBy(t)'
<1> SUFFICES ASSUME NEW c \in Cell, NEW b \in Bit
             PROVE  Decides(Block(t), DoneWrites(t, c, b), committed, store, c, b)'
  BY DEF WrittenBy
<1> DEFINE n == <<Here(t), acc[t]>>
           old == DoneWrites(t, c, b)
           new == DoneWrites(t, c, b)'
           block == Block(t)
<1>1. /\ block \in Seq(Section) /\ Here(t) \in DOMAIN block /\ block[Here(t)] = This(t)
      /\ Here(t) \in Nat /\ acc[t] \in Nat
  BY BlockTyped DEF TypeOK
<1>2. Block(t)' = block /\ Here(t)' = Here(t)
  BY DEF Block, Here, This, Sections
<1>3. ASSUME NEW p \in WritesTo(block, c, b)
      PROVE  /\ IsDone(t, p)' <=> IsDone(t, p) \/ p = n
             /\ IsDone(t, p) => Before(p, n)
  <2>1. p = <<p[1], p[2]>> /\ p[1] \in Nat /\ p[2] \in Nat
    BY <1>1, PlacesTyped
  <2>2. p = n <=> p[1] = Here(t) /\ p[2] = acc[t]
    BY <2>1
  <2> QED BY <1>1, <1>2, <2>1, <2>2 DEF IsDone, Before
<1>4. n \in WritesTo(block, c, b) <=> c \in Now(t).cells /\ b \in Now(t).mask
  <2>1. acc[t] \in DOMAIN block[Here(t)].body /\ block[Here(t)].body[acc[t]] = Now(t)
    BY <1>1 DEF HasAccess, Now
  <2>2. n \in {<<i, j>> : i \in DOMAIN block, j \in UNION {DOMAIN block[k].body : k \in DOMAIN block}}
    BY <1>1, <2>1
  <2>3. n[1] = Here(t) /\ n[2] = acc[t]
    OBVIOUS
  <2> HIDE DEF n
  <2> QED BY <2>1, <2>2, <2>3 DEF WritesTo
<1>5. new = {p \in WritesTo(block, c, b) : IsDone(t, p) \/ p = n}
  <2>1. new = {p \in WritesTo(block, c, b) : IsDone(t, p)'}
    BY <1>2 DEF DoneWrites, WritesTo
  <2> QED BY <1>3, <2>1
<1>6. Decides(block, old, committed, store, c, b)
  BY DEF WrittenBy
<1>7. CASE c \in Now(t).cells /\ b \in Now(t).mask
  <2>1. n \in new /\ \A q \in new : Before(q, n)
    BY <1>1, <1>3, <1>4, <1>5, <1>7 DEF Before
  <2>2. block[n[1]].body[n[2]] = Now(t)
    BY <1>1 DEF Now
  <2>3. b \in store'[c] <=> b \in block[n[1]].body[n[2]].bits
    BY <1>7, <2>2
  <2> HIDE DEF n, new
  <2>4. Decides(block, new, committed', store', c, b)
    BY <2>1, <2>3 DEF Decides, LastIs
  <2> QED BY <1>2, <2>4 DEF new, Decides
<1>8. CASE ~(c \in Now(t).cells /\ b \in Now(t).mask)
  <2>1. new = old
    BY <1>4, <1>5, <1>8 DEF DoneWrites
  <2>2. b \in store'[c] <=> b \in store[c]
    BY <1>8
  <2> HIDE DEF n, new, old
  <2>3. Decides(block, new, committed', store', c, b)
    BY <1>6, <2>1, <2>2 DEF Decides
  <2> QED BY <1>2, <2>3 DEF new, Decides
<1> QED BY <1>7, <1>8

\* Who is inside the lock owns it.
LEMMA Holder ==
  ASSUME IInv, NEW t \in Thread
  PROVE  /\ Held(t) > 0 => owner = t /\ depth = Held(t) /\ owner # Nobody
         /\ Held(t) = 0 => owner # t
         /\ owner \in Thread \cup {Nobody} /\ t # Nobody
BY ThreadsAssumption DEF IInv, LockInv, TypeOK, Thread

\* A step of a thread that is not inside, and stays out.
LEMMA OutsideWritten ==
  ASSUME WInv, NEW t \in Thread,
         (\E call \in MayCall(t) : Begin(t, call)) \/ Take(t) \/ Step(t),
         Held(t) = 0, owner' = owner, store' = store, committed' = committed
  PROVE  Written'
<1>1. IInv /\ TypeOK /\ Written
  BY DEF WInv, CInv, IInv
<1>2. CASE owner = Nobody
  BY <1>1, <1>2 DEF Written
<1>3. CASE owner # Nobody
  <2>1. owner \in Thread \ {t}
    BY <1>1, <1>3, Holder
  <2>2. PICK u \in Thread \ {t} : u = owner
    BY <2>1
  <2>3. /\ pc'[u] = pc[u] /\ op'[u] = op[u] /\ sec'[u] = sec[u] /\ acc'[u] = acc[u]
    BY <1>1, OthersStay
  <2>4. Block(u)' = Block(u) /\ \A p : IsDone(u, p)' <=> IsDone(u, p)
    BY <2>3 DEF Block, Here, IsDone, InSection, Sections, This
  <2>5. WrittenBy(u)'
    BY <1>1, <1>3, <2>2, <2>4, KeepWritten DEF Written
  <2> QED BY <1>3, <2>2, <2>5 DEF Written
<1> QED BY <1>2, <1>3

\* A step of the holder that writes nothing.
LEMMA HolderKeeps ==
  ASSUME WInv, NEW t \in Thread, Held(t) > 0, owner' = owner, store' = store,
         committed' = committed, Block(t)' = Block(t),
         \A c \in Cell, b \in Bit : \A p \in WritesTo(Block(t), c, b) :
           IsDone(t, p)' <=> IsDone(t, p)
  PROVE  Written'
<1>1. owner = t /\ owner # Nobody /\ Written
  BY Holder DEF WInv, CInv
<1>2. WrittenBy(t)
  BY <1>1 DEF Written
<1>3. WrittenBy(t)'
  BY <1>2, KeepWritten
<1> QED BY <1>1, <1>3 DEF Written

\* A thread takes the lock for its block.
LEMMA TakeWritten ==
  ASSUME WInv, NEW t \in Thread, Held(t) = 0, CanEnter(t), owner' = t,
         store' = store, committed' = committed, Block(t)' \in Seq(Section),
         \A p \in Nat \X Nat : p[1] >= 1 /\ p[2] >= 1 => ~IsDone(t, p)'
  PROVE  Written'
<1>1. owner = Nobody /\ store = committed /\ t # Nobody
  BY Holder DEF CanEnter, WInv, CInv, Written
<1>2. SUFFICES ASSUME NEW c \in Cell, NEW b \in Bit
               PROVE  Decides(Block(t), DoneWrites(t, c, b), committed, store, c, b)'
  BY <1>1 DEF Written, WrittenBy
<1>3. ASSUME NEW p \in WritesTo(Block(t)', c, b) PROVE ~IsDone(t, p)'
  <2>1. /\ p = <<p[1], p[2]>> /\ p[1] \in Nat /\ p[2] \in Nat
        /\ p[1] \in DOMAIN Block(t)' /\ p[2] \in DOMAIN Block(t)'[p[1]].body
    BY <1>3, PlacesTyped
  <2>2. Block(t)'[p[1]] \in Section
    BY <2>1
  <2>3. Block(t)'[p[1]].body \in Seq(Access)
    BY <2>2 DEF Section
  <2>4. p[1] >= 1 /\ p[2] >= 1 /\ p \in Nat \X Nat
    BY <2>1, <2>3
  <2> QED BY <2>4
<1>4. DoneWrites(t, c, b)' = {}
  BY <1>3 DEF DoneWrites, WritesTo
<1> QED BY <1>1, <1>4 DEF Decides

\* Every step keeps the account of what has been written.
LEMMA WrittenStep == WInv /\ [Next]_vars => Written'
<1> SUFFICES ASSUME WInv, [Next]_vars PROVE Written'
  OBVIOUS
<1>0. /\ CInv /\ IInv /\ TypeOK /\ Placed /\ Counted /\ Written /\ Loaded
  BY DEF WInv, CInv, IInv
<1>a. ASSUME NEW t \in Thread PROVE op[t] \in Call /\ CallForm(op[t])
  BY <1>0, OpTyped, CallsForm DEF TypeOK
<1>b. ASSUME NEW t \in Thread, HasSection(t)
      PROVE  /\ SectionForm(This(t)) /\ This(t) \in Section
             /\ op[t].outer => This(t).prep \in {"none", "lookup"}
  <2>1. This(t) = op[t].sections[sec[t]] /\ sec[t] \in DOMAIN op[t].sections
    BY <1>b DEF HasSection, This, Sections
  <2> QED BY <1>0, <1>a, <1>b, <2>1, OpTyped DEF CallForm
<1>1. CASE UNCHANGED vars
  <2>1. CASE owner = Nobody
    BY <1>0, <1>1, <2>1 DEF vars, Written
  <2>2. CASE owner # Nobody
    <3>1. PICK u \in Thread : u = owner
      BY <1>0, <2>2 DEF TypeOK
    <3>2. Block(u)' = Block(u) /\ \A p : IsDone(u, p)' <=> IsDone(u, p)
      BY <1>1 DEF vars, Block, Here, IsDone, InSection, Sections, This
    <3>3. WrittenBy(u)'
      BY <1>0, <1>1, <2>2, <3>1, <3>2, KeepWritten DEF vars, Written
    <3> QED BY <1>1, <2>2, <3>1, <3>3 DEF vars, Written
  <2> QED BY <2>1, <2>2
<1>2. ASSUME NEW t \in Thread, NEW call \in MayCall(t), Begin(t, call) PROVE Written'
  <2>1. Held(t) = 0
    BY <1>2 DEF Begin, Held, InOuter, InSection
  <2> QED BY <1>2, <2>1, OutsideWritten DEF Begin, shared, lock
<1>3. ASSUME NEW t \in Thread, EnterOuter(t) PROVE Written'
  <2>1. Held(t) = 0 /\ op[t].outer /\ sec[t] = 1
    BY <1>0, <1>3 DEF EnterOuter, Held, InOuter, InSection, Placed, Counted, CountedAt
  <2>2. /\ op' = op /\ sec' = sec /\ pc'[t] = "next" /\ CanEnter(t) /\ owner' = t
        /\ store' = store /\ committed' = committed
    BY <1>0, <1>3 DEF EnterOuter, Enter, Go, TypeOK, shared
  <2>3. Block(t)' = Sections(t) /\ Here(t)' = 1 /\ ~InSection(t)'
    BY <2>1, <2>2 DEF Block, Here, Sections, InSection
  <2>4. Sections(t) \in Seq(Section)
    BY <1>a DEF Sections, Call
  <2>5. \A p \in Nat \X Nat : p[1] >= 1 /\ p[2] >= 1 => ~IsDone(t, p)'
    BY <2>3 DEF IsDone
  <2> QED BY <2>1, <2>2, <2>3, <2>4, <2>5, TakeWritten
<1>4. ASSUME NEW t \in Thread, EnterSection(t) PROVE Written'
  <2>1. /\ op' = op /\ sec' = sec /\ pc'[t] = "inside" /\ CanEnter(t) /\ owner' = t
        /\ store' = store /\ committed' = committed /\ acc'[t] = 1 /\ HasSection(t)
        /\ pc[t] \in {"next", "ready"}
    BY <1>0, <1>4 DEF EnterSection, AtPrep, Enter, Go, TypeOK, shared, Placed
  <2>2. Block(t)' = Block(t) /\ Here(t)' = Here(t) /\ InSection(t)' /\ ~InSection(t)
    BY <2>1 DEF Block, Here, Sections, This, InSection
  <2>3. Block(t) \in Seq(Section) /\ Here(t) \in Nat
    BY <1>0, <2>1, BlockTyped
  <2>4. CASE op[t].outer
    <3>1. Held(t) > 0
      BY <2>1, <2>4 DEF Held, InOuter, InSection
    <3>2. owner' = owner
      BY <1>0, <2>1, <3>1, Holder
    <3>3. ASSUME NEW c \in Cell, NEW b \in Bit, NEW p \in WritesTo(Block(t), c, b)
          PROVE  IsDone(t, p)' <=> IsDone(t, p)
      <4>1. Block(t)[p[1]] \in Section /\ p[2] \in DOMAIN Block(t)[p[1]].body
        BY <2>3, <3>3, PlacesTyped
      <4>2. p[2] \in Nat /\ p[2] >= 1
        BY <4>1 DEF Section
      <4> QED BY <2>1, <2>2, <4>2 DEF IsDone
    <3> QED BY <2>1, <2>2, <3>1, <3>2, <3>3, HolderKeeps
  <2>5. CASE ~op[t].outer
    <3>1. Held(t) = 0 /\ Here(t)' = 1
      BY <2>1, <2>2, <2>5 DEF Held, InOuter, InSection, Here
    <3>2. \A p \in Nat \X Nat : p[1] >= 1 /\ p[2] >= 1 => ~IsDone(t, p)'
      BY <2>1, <3>1 DEF IsDone
    <3> QED BY <2>1, <2>2, <2>3, <3>1, <3>2, TakeWritten
  <2> QED BY <2>4, <2>5
<1>5. ASSUME NEW t \in Thread, LookupHit(t) PROVE Written'
  <2>1. /\ op' = op /\ sec'[t] = sec[t] + 1 /\ pc' = pc /\ pc[t] = "next" /\ owner' = owner
        /\ store' = store /\ committed' = committed /\ HasSection(t) /\ This(t).prep = "lookup"
    BY <1>0, <1>5 DEF LookupHit, AtPrep, NextSection, TypeOK, shared, lock
  <2>2. CASE op[t].outer
    <3>1. Held(t) > 0
      BY <2>1, <2>2 DEF Held, InOuter, InSection
    <3>2. /\ Block(t)' = Block(t) /\ Here(t)' = Here(t) + 1 /\ ~InSection(t)' /\ ~InSection(t)
          /\ Block(t) \in Seq(Section) /\ Block(t)[Here(t)] = This(t) /\ Here(t) \in Nat
      BY <1>0, <2>1, <2>2, BlockTyped DEF Block, Here, Sections, InSection
    <3>3. ASSUME NEW c \in Cell, NEW b \in Bit, NEW p \in WritesTo(Block(t), c, b)
          PROVE  IsDone(t, p)' <=> IsDone(t, p)
      <4>1. p[1] \in Nat /\ p[2] \in DOMAIN Block(t)[p[1]].body
            /\ Block(t)[p[1]].body[p[2]].do = "write"
        BY <3>2, <3>3, PlacesTyped DEF WritesTo
      <4>2. p[1] # Here(t)
        BY <1>b, <2>1, <3>2, <4>1 DEF SectionForm
      <4> QED BY <3>2, <4>1, <4>2 DEF IsDone
    <3> QED BY <2>1, <3>1, <3>2, <3>3, HolderKeeps
  <2>3. CASE ~op[t].outer
    <3>1. Held(t) = 0
      BY <2>1, <2>3 DEF Held, InOuter, InSection
    <3> QED BY <1>5, <2>1, <3>1, OutsideWritten DEF Step
  <2> QED BY <2>2, <2>3
<1>6. ASSUME NEW t \in Thread, LookupMiss(t) PROVE Written'
  <2>1. /\ op' = op /\ sec' = sec /\ pc'[t] = "ready" /\ pc[t] = "next" /\ owner' = owner
        /\ store' = store /\ committed' = committed
    BY <1>0, <1>6 DEF LookupMiss, AtPrep, Go, TypeOK, shared, lock
  <2>2. CASE op[t].outer
    <3>1. Held(t) > 0
      BY <2>1, <2>2 DEF Held, InOuter, InSection
    <3>2. Block(t)' = Block(t) /\ \A p : IsDone(t, p)' <=> IsDone(t, p)
      BY <2>1 DEF Block, Here, Sections, This, InSection, IsDone
    <3> QED BY <2>1, <3>1, <3>2, HolderKeeps
  <2>3. CASE ~op[t].outer
    <3>1. Held(t) = 0
      BY <2>1, <2>3 DEF Held, InOuter, InSection
    <3> QED BY <1>6, <2>1, <3>1, OutsideWritten DEF Step
  <2> QED BY <2>2, <2>3
<1>7. ASSUME NEW t \in Thread, AssignDefaults(t) \/ BuildProfiles(t) PROVE Written'
  <2>1. /\ pc[t] = "next" /\ HasSection(t) /\ This(t).prep \in {"assign", "build"} /\ owner' = owner
        /\ store' = store /\ committed' = committed
    BY <1>7 DEF AssignDefaults, BuildProfiles, AtPrep, shared, lock
  <2>2. Held(t) = 0
    BY <1>b, <2>1 DEF Held, InOuter, InSection
  <2> QED BY <1>7, <2>1, <2>2, OutsideWritten DEF Step
<1>8. ASSUME NEW t \in Thread, StoreWord(t) \/ StoreBit(t) PROVE Written'
  <2>1. /\ HasSection(t) /\ HasAccess(t) /\ Now(t).do = "write" /\ InSection(t) /\ InSection(t)'
        /\ op' = op /\ sec' = sec /\ acc'[t] = acc[t] + 1 /\ owner' = owner /\ committed' = committed
    BY <1>0, <1>8 DEF StoreWord, StoreBit, AtAccess, NextAccess, Go, TypeOK, Placed, lock, InSection
  <2>2. Held(t) > 0
    BY <2>1 DEF Held, InOuter
  <2>3. owner = t /\ owner # Nobody
    BY <1>0, <2>2, Holder
  <2>4. ASSUME NEW c \in Cell, NEW b \in Bit
        PROVE  IF c \in Now(t).cells /\ b \in Now(t).mask
               THEN b \in store'[c] <=> b \in Now(t).bits
               ELSE b \in store'[c] <=> b \in store[c]
    <3>1. CASE StoreWord(t)
      BY <3>1 DEF StoreWord
    <3>2. CASE StoreBit(t)
      <4>1. c \in Now(t).cells => word[t] = store[c]
        BY <1>0, <3>2 DEF StoreBit, Loaded
      <4> QED BY <3>2, <4>1 DEF StoreBit
    <3> QED BY <1>8, <3>1, <3>2
  <2>5. WrittenBy(t)'
    BY <1>0, <2>1, <2>3, <2>4, AddWrite DEF Written
  <2> QED BY <2>1, <2>3, <2>5 DEF Written
<1>9. ASSUME NEW t \in Thread, LoadWord(t) PROVE Written'
  <2>1. /\ InSection(t) /\ InSection(t)' /\ op' = op /\ sec' = sec /\ acc' = acc
        /\ owner' = owner /\ committed' = committed /\ store' = store
    BY <1>0, <1>9 DEF LoadWord, AtAccess, Go, TypeOK, lock, shared, InSection
  <2>2. Held(t) > 0
    BY <2>1 DEF Held, InOuter
  <2>3. Block(t)' = Block(t) /\ \A p : IsDone(t, p)' <=> IsDone(t, p)
    BY <2>1 DEF Block, Here, Sections, This, IsDone
  <2> QED BY <2>1, <2>2, <2>3, HolderKeeps
<1>10. ASSUME NEW t \in Thread, ReadWord(t) \/ OverlayGenerated(t) \/ SwapProfiles(t) PROVE Written'
  <2>1. /\ pc[t] = "inside" /\ op' = op /\ sec' = sec /\ acc'[t] = acc[t] + 1 /\ pc' = pc
        /\ owner' = owner /\ committed' = committed /\ store' = store
        /\ HasSection(t) /\ HasAccess(t) /\ Now(t).do # "write"
    BY <1>0, <1>10 DEF ReadWord, OverlayGenerated, SwapProfiles, AtAccess, NextAccess, TypeOK,
         lock, shared, Placed
  <2>2. Held(t) > 0
    BY <2>1 DEF Held, InSection, InOuter
  <2>3. /\ Block(t)' = Block(t) /\ Here(t)' = Here(t) /\ Block(t) \in Seq(Section)
        /\ Block(t)[Here(t)] = This(t) /\ Here(t) \in Nat /\ acc[t] \in Nat
    BY <1>0, <2>1, BlockTyped DEF Block, Here, Sections, This, TypeOK
  <2>4. ASSUME NEW c \in Cell, NEW b \in Bit, NEW p \in WritesTo(Block(t), c, b)
        PROVE  IsDone(t, p)' <=> IsDone(t, p)
    <3>1. p[1] \in Nat /\ p[2] \in Nat
      BY <2>3, <2>4, PlacesTyped
    <3>2. Block(t)[p[1]].body[p[2]].do = "write"
      BY <2>4 DEF WritesTo
    <3>3. ~(p[1] = Here(t) /\ p[2] = acc[t])
      BY <2>1, <2>3, <3>2 DEF Now
    <3> QED BY <2>1, <2>3, <3>1, <3>3 DEF IsDone, InSection
  <2> QED BY <2>1, <2>2, <2>3, <2>4, HolderKeeps
<1>11. ASSUME NEW t \in Thread, LeaveSection(t) PROVE Written'
  <2>1. /\ pc[t] = "inside" /\ pc'[t] = "next" /\ op' = op /\ sec'[t] = sec[t] + 1 /\ store' = store
        /\ Leave(t) /\ ~HasAccess(t) /\ HasSection(t)
    BY <1>0, <1>11 DEF LeaveSection, Go, NextSection, TypeOK, shared, Placed
  <2>2. Held(t) = IF op[t].outer THEN 2 ELSE 1
    BY <2>1 DEF Held, InOuter, InSection
  <2>3. owner = t /\ depth = Held(t)
    BY <1>0, <2>2, Holder
  <2>4. CASE op[t].outer
    <3>1. owner' = owner /\ committed' = committed
      BY <2>1, <2>2, <2>3, <2>4 DEF Leave
    <3>2. /\ Block(t)' = Block(t) /\ Here(t)' = Here(t) + 1 /\ ~InSection(t)' /\ InSection(t)
          /\ Block(t) \in Seq(Section) /\ Block(t)[Here(t)] = This(t) /\ Here(t) \in Nat
      BY <1>0, <2>1, <2>4, BlockTyped DEF Block, Here, Sections, InSection
    <3>3. This(t).body \in Seq(Access) /\ acc[t] \in Nat \ {0}
      BY <1>0, <1>b, <2>1 DEF Section, TypeOK
    <3>4. \A j \in DOMAIN This(t).body : j < acc[t]
      BY <2>1, <3>3 DEF HasAccess
    <3>5. ASSUME NEW c \in Cell, NEW b \in Bit, NEW p \in WritesTo(Block(t), c, b)
          PROVE  IsDone(t, p)' <=> IsDone(t, p)
      <4>1. p[1] \in Nat /\ p[2] \in DOMAIN Block(t)[p[1]].body
        BY <3>2, <3>5, PlacesTyped
      <4> QED BY <3>2, <3>4, <4>1 DEF IsDone
    <3> QED BY <2>1, <2>2, <2>4, <3>1, <3>2, <3>5, HolderKeeps
  <2>5. CASE ~op[t].outer
    BY <2>1, <2>2, <2>3, <2>5 DEF Leave, Written
  <2> QED BY <2>4, <2>5
<1>12. ASSUME NEW t \in Thread, LeaveOuter(t) PROVE Written'
  <2>1. Held(t) = 1 /\ Leave(t) /\ store' = store
    BY <1>12 DEF LeaveOuter, Held, InOuter, InSection, shared
  <2>2. owner = t /\ depth = 1
    BY <1>0, <2>1, Holder
  <2> QED BY <2>1, <2>2 DEF Leave, Written
<1>13. ASSUME NEW t \in Thread, Return(t) PROVE Written'
  <2>1. Held(t) = 0
    BY <1>13 DEF Return, Held, InOuter, InSection
  <2> QED BY <1>13, <2>1, OutsideWritten DEF Return, Step, shared, lock
<1> QED BY <1>1, <1>2, <1>3, <1>4, <1>5, <1>6, <1>7, <1>8, <1>9, <1>10, <1>11, <1>12, <1>13
        DEF Next, Take, Step

(***************************************************************************)
(* What has been read.  While a thread is in a locked block it has what    *)
(* its accesses so far read of one store and one set of profiles.          *)
(***************************************************************************)
\* The first n - 1 accesses of a section: what they read, and overlay.
Reads(st, section, n) ==
  UNION {Stored(section.body[j], st) :
           j \in {k \in DOMAIN section.body : k < n /\ section.body[k].do = "read"}}
OverlaidBy(section, n) ==
  \E k \in DOMAIN section.body : k < n /\ section.body[k].do = "overlay"
SeenUpTo(st, sims, section, n) ==
  IF OverlaidBy(section, n) THEN {Overlaid(o, sims) : o \in Reads(st, section, n)}
                            ELSE Reads(st, section, n)

\* The whole section, its lookup included.
SeenIn(st, sims, section) ==
  IF section.prep = "lookup" /\ section.who \in sims THEN Generated(section.who)
  ELSE SeenUpTo(st, sims, section, Len(section.body) + 1)
SeenBefore(st, sims, sections, n) ==
  UNION {SeenIn(st, sims, sections[i]) : i \in {k \in DOMAIN sections : k < n}}

RecordedAt(t) ==
  /\ buf[t] = (IF InOuter(t) THEN SeenBefore(store, profiles, Sections(t), sec[t]) ELSE {})
              \cup (IF InSection(t) THEN SeenUpTo(store, profiles, This(t), acc[t]) ELSE {})
  /\ InOuter(t) /\ pc[t] # "next" /\ This(t).prep = "lookup" => This(t).who \notin profiles
Recorded == \A t \in Thread : RecordedAt(t)

\* Nothing is read by a section that has no read and no overlay among these accesses.
LEMMA NothingSeen ==
  ASSUME NEW st, NEW sims, NEW section, NEW n,
         \A k \in DOMAIN section.body : k < n => section.body[k].do \notin {"read", "overlay"}
  PROVE  SeenUpTo(st, sims, section, n) = {}
BY DEF SeenUpTo, Reads, OverlaidBy

\* One access more.
LEMMA SeenMore ==
  ASSUME NEW st, NEW sims, NEW section \in Section, SectionForm(section),
         NEW n \in DOMAIN section.body
  PROVE  /\ section.body[n].do = "read" =>
              SeenUpTo(st, sims, section, n + 1)
                = SeenUpTo(st, sims, section, n) \cup Stored(section.body[n], st)
         /\ section.body[n].do = "overlay" =>
              SeenUpTo(st, sims, section, n + 1)
                = {Overlaid(o, sims) : o \in SeenUpTo(st, sims, section, n)}
<1>1. section.body \in Seq(Access)
  BY DEF Section
<1>2. n \in Nat /\ n <= Len(section.body) /\ DOMAIN section.body \subseteq Nat
  BY <1>1
<1>3. ~OverlaidBy(section, n)
  BY <1>1, <1>2 DEF OverlaidBy, SectionForm
<1>4. \A k \in DOMAIN section.body : k < n + 1 <=> k < n \/ k = n
  BY <1>2
<1>5. ASSUME section.body[n].do = "read"
      PROVE  SeenUpTo(st, sims, section, n + 1)
               = SeenUpTo(st, sims, section, n) \cup Stored(section.body[n], st)
  <2>1. ~OverlaidBy(section, n + 1)
    BY <1>3, <1>4, <1>5 DEF OverlaidBy
  <2>2. {k \in DOMAIN section.body : k < n + 1 /\ section.body[k].do = "read"}
        = {k \in DOMAIN section.body : k < n /\ section.body[k].do = "read"} \cup {n}
    BY <1>4, <1>5
  <2>3. Reads(st, section, n + 1) = Reads(st, section, n) \cup Stored(section.body[n], st)
    BY <2>2 DEF Reads
  <2> QED BY <1>3, <2>1, <2>3 DEF SeenUpTo
<1>6. ASSUME section.body[n].do = "overlay"
      PROVE  SeenUpTo(st, sims, section, n + 1)
               = {Overlaid(o, sims) : o \in SeenUpTo(st, sims, section, n)}
  <2>1. OverlaidBy(section, n + 1)
    BY <1>2, <1>6 DEF OverlaidBy
  <2>2. {k \in DOMAIN section.body : k < n + 1 /\ section.body[k].do = "read"}
        = {k \in DOMAIN section.body : k < n /\ section.body[k].do = "read"}
    BY <1>4, <1>6
  <2>3. Reads(st, section, n + 1) = Reads(st, section, n)
    BY <2>2 DEF Reads
  <2> QED BY <1>3, <2>1, <2>3 DEF SeenUpTo
<1> QED BY <1>5, <1>6

\* One section more.
LEMMA SeenOneMore ==
  ASSUME NEW st, NEW sims, NEW sections \in Seq(Section), NEW n \in DOMAIN sections
  PROVE  SeenBefore(st, sims, sections, n + 1)
           = SeenBefore(st, sims, sections, n) \cup SeenIn(st, sims, sections[n])
<1>1. n \in Nat /\ DOMAIN sections \subseteq Nat
  OBVIOUS
<1>2. {k \in DOMAIN sections : k < n + 1} = {k \in DOMAIN sections : k < n} \cup {n}
  BY <1>1
<1> QED BY <1>2 DEF SeenBefore

\* A thread that is not in a locked block has nothing; the others are as they were.
LEMMA OthersRecorded ==
  ASSUME IInv, Recorded, NEW t \in Thread,
         (\E call \in MayCall(t) : Begin(t, call)) \/ Take(t) \/ Step(t),
         RecordedAt(t)'
  PROVE  Recorded'
<1>1. TypeOK
  BY DEF IInv
<1>2. SUFFICES ASSUME NEW u \in Thread \ {t} PROVE RecordedAt(u)'
  BY DEF Recorded
<1>3. /\ pc'[u] = pc[u] /\ op'[u] = op[u] /\ sec'[u] = sec[u] /\ acc'[u] = acc[u]
      /\ buf'[u] = buf[u]
  BY <1>1, OthersStay
<1>4. /\ InOuter(u)' <=> InOuter(u)
      /\ InSection(u)' <=> InSection(u)
      /\ Sections(u)' = Sections(u) /\ This(u)' = This(u)
  BY <1>3 DEF InOuter, InSection, Sections, This
<1>5. RecordedAt(u)
  BY DEF Recorded
<1>6. CASE store' = store /\ profiles' = profiles
  BY <1>3, <1>4, <1>5, <1>6 DEF RecordedAt
<1>7. CASE ~(store' = store /\ profiles' = profiles)
  <2>1. InSection(t)
    BY <1>7 DEF Take, Step, Begin, EnterOuter, EnterSection, LookupHit, LookupMiss,
       AssignDefaults, BuildProfiles, StoreWord, LoadWord, StoreBit, ReadWord, OverlayGenerated,
       SwapProfiles, LeaveSection, LeaveOuter, Return, shared, AtAccess, InSection
  <2>2. Held(t) > 0
    BY <2>1 DEF Held, InOuter
  <2>3. Held(u) = 0
    <3>1. ~(Held(u) > 0)
      BY <2>2, Holder
    <3> QED BY <3>1 DEF Held
  <2>4. ~InOuter(u) /\ ~InSection(u)
    BY <2>3 DEF Held
  <2> QED BY <1>3, <1>4, <1>5, <2>4 DEF RecordedAt
<1> QED BY <1>6, <1>7

\* Every step keeps the account of what has been read.
LEMMA RecordedStep == CInv /\ Recorded /\ [Next]_vars => Recorded'
<1> SUFFICES ASSUME CInv, Recorded, [Next]_vars PROVE Recorded'
  OBVIOUS
<1>0. IInv /\ TypeOK /\ Placed /\ Counted /\ \A t \in Thread : RecordedAt(t)
  BY DEF CInv, IInv, Recorded
<1>a. ASSUME NEW t \in Thread
      PROVE  op[t] \in Call /\ CallForm(op[t]) /\ Sections(t) \in Seq(Section)
  BY <1>0, OpTyped, CallsForm DEF TypeOK, Call, Sections
<1>b. ASSUME NEW t \in Thread, HasSection(t)
      PROVE  /\ SectionForm(This(t)) /\ This(t) \in Section /\ This(t).body \in Seq(Access)
             /\ This(t) = Sections(t)[sec[t]] /\ sec[t] \in DOMAIN Sections(t)
             /\ op[t].outer => This(t).prep \in {"none", "lookup"}
  <2>1. This(t) = op[t].sections[sec[t]] /\ sec[t] \in DOMAIN op[t].sections
    BY <1>b DEF HasSection, This, Sections
  <2>2. This(t) \in Section
    BY <1>0, <1>b, OpTyped
  <2>3. SectionForm(This(t)) /\ (op[t].outer => This(t).prep \in {"none", "lookup"})
    BY <1>a, <2>1 DEF CallForm
  <2> QED BY <2>1, <2>2, <2>3 DEF Section, Sections
<1>c. ASSUME NEW t \in Thread, ~InOuter(t), ~InSection(t) PROVE buf[t] = {}
  BY <1>0, <1>c DEF RecordedAt
<1>1. CASE UNCHANGED vars
  BY <1>0, <1>1 DEF vars, Recorded, RecordedAt, InOuter, InSection, Sections, This
<1>2. ASSUME NEW t \in Thread, NEW call \in MayCall(t), Begin(t, call) PROVE RecordedAt(t)'
  <2>1. /\ pc[t] = "idle" /\ buf' = buf /\ pc'[t] \in {"wait", "next"}
        /\ pc'[t] = "next" => ~op'[t].outer
    BY <1>0, <1>2 DEF Begin, Go, TypeOK
  <2>2. buf[t] = {}
    BY <1>c, <2>1 DEF InOuter, InSection
  <2> QED BY <2>1, <2>2 DEF RecordedAt, InOuter, InSection
<1>3. ASSUME NEW t \in Thread, EnterOuter(t) PROVE RecordedAt(t)'
  <2>1. /\ pc[t] = "wait" /\ buf' = buf /\ pc'[t] = "next" /\ op' = op /\ sec' = sec
        /\ sec[t] = 1 /\ store' = store /\ profiles' = profiles
    BY <1>0, <1>3 DEF EnterOuter, Go, TypeOK, Counted, CountedAt, shared
  <2>2. buf[t] = {}
    BY <1>c, <2>1 DEF InOuter, InSection
  <2>3. SeenBefore(store, profiles, Sections(t), 1) = {}
    BY <1>a DEF SeenBefore
  <2> QED BY <2>1, <2>2, <2>3 DEF RecordedAt, InOuter, InSection, Sections
<1>4. ASSUME NEW t \in Thread, LookupHit(t) PROVE RecordedAt(t)'
  <2>1. /\ pc[t] = "next" /\ HasSection(t) /\ This(t).prep = "lookup" /\ This(t).who \in profiles
        /\ pc' = pc /\ op' = op /\ sec'[t] = sec[t] + 1 /\ store' = store /\ profiles' = profiles
        /\ buf'[t] = IF op[t].outer THEN buf[t] \cup Generated(This(t).who) ELSE buf[t]
    BY <1>0, <1>4 DEF LookupHit, AtPrep, NextSection, TypeOK, shared
  <2>2. CASE op[t].outer
    <3>1. buf[t] = SeenBefore(store, profiles, Sections(t), sec[t])
      BY <1>0, <2>1, <2>2 DEF RecordedAt, InOuter, InSection
    <3>2. SeenIn(store, profiles, This(t)) = Generated(This(t).who)
      BY <2>1 DEF SeenIn
    <3>3. buf'[t] = SeenBefore(store, profiles, Sections(t), sec[t] + 1)
      BY <1>a, <1>b, <2>1, <2>2, <3>1, <3>2, SeenOneMore
    <3> QED BY <2>1, <2>2, <3>3 DEF RecordedAt, InOuter, InSection, Sections
  <2>3. CASE ~op[t].outer
    BY <1>c, <2>1, <2>3 DEF RecordedAt, InOuter, InSection
  <2> QED BY <2>2, <2>3
<1>5. ASSUME NEW t \in Thread, LookupMiss(t) PROVE RecordedAt(t)'
  <2>1. /\ pc[t] = "next" /\ This(t).who \notin profiles /\ This(t)' = This(t)
        /\ pc'[t] = "ready" /\ op' = op /\ sec' = sec /\ store' = store /\ profiles' = profiles
        /\ buf' = buf /\ Sections(t)' = Sections(t)
    BY <1>0, <1>5 DEF LookupMiss, AtPrep, Go, TypeOK, shared, This, Sections
  <2> QED BY <1>0, <2>1 DEF RecordedAt, InOuter, InSection
<1>6. ASSUME NEW t \in Thread, AssignDefaults(t) \/ BuildProfiles(t) PROVE RecordedAt(t)'
  <2>1. /\ pc[t] = "next" /\ HasSection(t) /\ This(t).prep \in {"assign", "build"}
        /\ pc'[t] \in {"next", "ready"} /\ op' = op /\ buf' = buf
    BY <1>0, <1>6 DEF AssignDefaults, BuildProfiles, AtPrep, Go, TypeOK
  <2>2. ~op[t].outer
    BY <1>b, <2>1
  <2> QED BY <1>c, <2>1, <2>2 DEF RecordedAt, InOuter, InSection
<1>7. ASSUME NEW t \in Thread, EnterSection(t) PROVE RecordedAt(t)'
  <2>1. /\ pc[t] \in {"next", "ready"} /\ HasSection(t) /\ This(t)' = This(t) /\ acc'[t] = 1
        /\ pc[t] = "next" => This(t).prep = "none"
        /\ pc'[t] = "inside" /\ op' = op /\ sec' = sec /\ store' = store /\ profiles' = profiles
        /\ buf' = buf /\ Sections(t)' = Sections(t)
    BY <1>0, <1>7 DEF EnterSection, AtPrep, Go, TypeOK, shared, This, Sections, Placed
  <2>2. SeenUpTo(store, profiles, This(t), 1) = {}
    BY <1>b, <2>1, NothingSeen
  <2> QED BY <1>0, <2>1, <2>2 DEF RecordedAt, InOuter, InSection
<1>8. ASSUME NEW t \in Thread, StoreWord(t) \/ StoreBit(t) PROVE RecordedAt(t)'
  <2>1. /\ HasSection(t) /\ HasAccess(t) /\ Now(t).do = "write" /\ InSection(t) /\ InSection(t)'
        /\ op' = op /\ sec' = sec /\ buf' = buf /\ profiles' = profiles
        /\ This(t)' = This(t) /\ Sections(t)' = Sections(t) /\ InOuter(t)' = InOuter(t)
    BY <1>0, <1>8 DEF StoreWord, StoreBit, AtAccess, Go, TypeOK, Placed, This, Sections, InSection,
       InOuter
  <2>2. Writes(This(t))
    BY <1>0, <2>1, AccessAt
  <2>3. \A st, n : SeenUpTo(st, profiles, This(t), n) = {}
    BY <2>2, NothingSeen DEF Writes
  <2>4. ASSUME op[t].outer PROVE \A i \in DOMAIN Sections(t) : Writes(Sections(t)[i])
                                                             /\ Sections(t)[i].prep = "none"
    BY <1>a, <1>b, <2>1, <2>4 DEF CallForm, Sections, SectionForm, HasAccess, Now
  <2>5. \A st : op[t].outer => SeenBefore(st, profiles, Sections(t), sec[t]) = {}
    <3>1. ASSUME NEW st, op[t].outer, NEW i \in DOMAIN Sections(t)
          PROVE  SeenIn(st, profiles, Sections(t)[i]) = {}
      BY <2>4, <3>1, NothingSeen DEF SeenIn, Writes
    <3> QED BY <3>1 DEF SeenBefore
  <2>6. InOuter(t) => op[t].outer
    BY DEF InOuter
  <2>7. buf[t] = {}
    BY <1>0, <2>1, <2>3, <2>5, <2>6 DEF RecordedAt
  <2>8. InOuter(t) => This(t).prep = "none"
    BY <1>b, <2>1, <2>4, <2>6
  <2> QED BY <2>1, <2>3, <2>5, <2>6, <2>7, <2>8 DEF RecordedAt
<1>9. ASSUME NEW t \in Thread, LoadWord(t) PROVE RecordedAt(t)'
  <2>1. /\ pc[t] = "inside" /\ pc'[t] = "loaded" /\ op' = op /\ sec' = sec /\ acc' = acc
        /\ buf' = buf /\ profiles' = profiles /\ store' = store
        /\ This(t)' = This(t) /\ Sections(t)' = Sections(t)
    BY <1>0, <1>9 DEF LoadWord, AtAccess, Go, TypeOK, This, Sections, shared
  <2> QED BY <1>0, <2>1 DEF RecordedAt, InOuter, InSection
<1>10. ASSUME NEW t \in Thread, ReadWord(t) PROVE RecordedAt(t)'
  <2>1. /\ pc[t] = "inside" /\ pc' = pc /\ op' = op /\ sec' = sec /\ acc'[t] = acc[t] + 1
        /\ buf'[t] = buf[t] \cup Stored(Now(t), store) /\ profiles' = profiles /\ store' = store
        /\ This(t)' = This(t) /\ Sections(t)' = Sections(t)
        /\ HasSection(t) /\ HasAccess(t) /\ Now(t).do = "read"
    BY <1>0, <1>10 DEF ReadWord, AtAccess, NextAccess, TypeOK, This, Sections, shared, Placed
  <2>2. SeenUpTo(store, profiles, This(t), acc[t] + 1)
        = SeenUpTo(store, profiles, This(t), acc[t]) \cup Stored(Now(t), store)
    BY <1>b, <2>1, SeenMore DEF HasAccess, Now
  <2> QED BY <1>0, <2>1, <2>2 DEF RecordedAt, InOuter, InSection
<1>11. ASSUME NEW t \in Thread, OverlayGenerated(t) PROVE RecordedAt(t)'
  <2>1. /\ pc[t] = "inside" /\ pc' = pc /\ op' = op /\ sec' = sec /\ acc'[t] = acc[t] + 1
        /\ buf'[t] = {Overlaid(o, profiles) : o \in buf[t]} /\ profiles' = profiles /\ store' = store
        /\ This(t)' = This(t) /\ Sections(t)' = Sections(t)
        /\ HasSection(t) /\ HasAccess(t) /\ Now(t).do = "overlay"
    BY <1>0, <1>11 DEF OverlayGenerated, AtAccess, NextAccess, TypeOK, This, Sections, shared, Placed
  <2>2. SeenUpTo(store, profiles, This(t), acc[t] + 1)
        = {Overlaid(o, profiles) : o \in SeenUpTo(store, profiles, This(t), acc[t])}
    BY <1>b, <2>1, SeenMore DEF HasAccess, Now
  <2>3. ~op[t].outer
    BY <1>a, <1>b, <2>1 DEF CallForm, Sections, SectionForm, Writes, HasAccess, Now
  <2> QED BY <1>0, <2>1, <2>2, <2>3 DEF RecordedAt, InOuter, InSection
<1>12. ASSUME NEW t \in Thread, SwapProfiles(t) PROVE RecordedAt(t)'
  <2>1. /\ pc[t] = "inside" /\ pc' = pc /\ op' = op /\ sec' = sec
        /\ buf' = buf /\ This(t)' = This(t)
        /\ HasSection(t) /\ HasAccess(t) /\ Now(t).do = "swap"
    BY <1>0, <1>12 DEF SwapProfiles, AtAccess, TypeOK, This, Sections, Placed
  <2>2. This(t).prep = "build" /\ This(t).body = <<Swap>>
    BY <1>b, <2>1 DEF SectionForm, HasAccess, Now
  <2>3. ~op[t].outer
    BY <1>b, <2>1, <2>2
  <2>4. \A st, sims, n : SeenUpTo(st, sims, This(t), n) = {}
    BY <2>2, NothingSeen DEF Swap
  <2> QED BY <1>0, <2>1, <2>3, <2>4 DEF RecordedAt, InOuter, InSection
<1>13. ASSUME NEW t \in Thread, LeaveSection(t) PROVE RecordedAt(t)'
  <2>1. /\ pc[t] = "inside" /\ pc'[t] = "next" /\ op' = op /\ sec'[t] = sec[t] + 1
        /\ profiles' = profiles /\ store' = store /\ Sections(t)' = Sections(t)
        /\ HasSection(t) /\ ~HasAccess(t)
        /\ buf'[t] = IF op[t].outer THEN buf[t] ELSE {}
    BY <1>0, <1>13 DEF LeaveSection, Go, NextSection, Deliver, TypeOK, Sections, shared, Placed
  <2>2. CASE op[t].outer
    <3>1. acc[t] = Len(This(t).body) + 1
      BY <1>0, <1>b, <2>1 DEF Counted, CountedAt, InSection, HasAccess, TypeOK
    <3>2. /\ buf[t] = SeenBefore(store, profiles, Sections(t), sec[t])
                      \cup SeenUpTo(store, profiles, This(t), acc[t])
          /\ This(t).prep = "lookup" => This(t).who \notin profiles
      BY <1>0, <2>1, <2>2 DEF RecordedAt, InOuter, InSection
    <3>3. SeenIn(store, profiles, This(t)) = SeenUpTo(store, profiles, This(t), acc[t])
      BY <3>1, <3>2 DEF SeenIn
    <3>4. buf'[t] = SeenBefore(store, profiles, Sections(t), sec[t] + 1)
      BY <1>a, <1>b, <2>1, <2>2, <3>2, <3>3, SeenOneMore
    <3> QED BY <2>1, <2>2, <3>4 DEF RecordedAt, InOuter, InSection
  <2>3. CASE ~op[t].outer
    BY <2>1, <2>3 DEF RecordedAt, InOuter, InSection
  <2> QED BY <2>2, <2>3
<1>14. ASSUME NEW t \in Thread, LeaveOuter(t) PROVE RecordedAt(t)'
  <2>1. buf'[t] = {} /\ pc'[t] = "done"
    BY <1>0, <1>14 DEF LeaveOuter, Deliver, Go, TypeOK
  <2> QED BY <2>1 DEF RecordedAt, InOuter, InSection
<1>15. ASSUME NEW t \in Thread, Return(t) PROVE RecordedAt(t)'
  <2>1. ~InOuter(t) /\ ~InSection(t) /\ buf' = buf /\ pc'[t] = "idle"
    BY <1>0, <1>15 DEF Return, Go, TypeOK, InOuter, InSection
  <2> QED BY <1>c, <2>1 DEF RecordedAt, InOuter, InSection
<1>16. PICK t \in Thread : \/ UNCHANGED vars
                           \/ \E call \in MayCall(t) : Begin(t, call)
                           \/ Take(t) \/ Step(t)
  BY <1>1 DEF Next, Thread
<1>17. UNCHANGED vars \/ RecordedAt(t)'
  BY <1>16, <1>2, <1>3, <1>4, <1>5, <1>6, <1>7, <1>8, <1>9, <1>10, <1>11, <1>12, <1>13, <1>14,
     <1>15 DEF Take, Step
<1> QED BY <1>0, <1>1, <1>16, <1>17, OthersRecorded

(***************************************************************************)
(* What leaves a locked block.                                             *)
(***************************************************************************)
AInv == WInv /\ Recorded

\* AInv is inductive.
THEOREM BlockInvariance == Spec => []AInv
<1>1. Init => AInv
  <2> SUFFICES ASSUME Init PROVE AInv
    OBVIOUS
  <2>1. RInv /\ Counted
    BY InitRInv DEF Init, Counted, CountedAt, InSection
  <2>2. Written
    BY DEF Init, Written
  <2>3. Recorded
    BY DEF Init, Recorded, RecordedAt, InOuter, InSection
  <2> QED BY <2>1, <2>2, <2>3 DEF AInv, WInv, CInv, RInv
<1>2. AInv /\ [Next]_vars => AInv'
  <2> SUFFICES ASSUME AInv, [Next]_vars PROVE AInv'
    OBVIOUS
  <2>1. WInv /\ CInv /\ RInv /\ Recorded
    BY DEF AInv, WInv, CInv, RInv
  <2>2. CInv'
    BY <2>1, TypeStep, PlacedStep, LockStep, CountedStep DEF CInv, IInv
  <2>3. Reading' /\ Loaded' /\ ConsistentReads'
    BY <2>1, <2>2, ReadingStep DEF CInv
  <2>4. Written'
    BY <2>1, WrittenStep
  <2>5. Recorded'
    BY <2>1, RecordedStep
  <2> QED BY <2>2, <2>3, <2>4, <2>5 DEF AInv, WInv
<1> QED BY <1>1, <1>2, PTL DEF Spec

\* Whatever a block reads that is not read for a signal is overlaid in the end.
LEMMA SectionMasked ==
  ASSUME NEW st, NEW sims, NEW section \in Section, SectionForm(section),
         NEW o \in SeenUpTo(st, sims, section, Len(section.body) + 1), o.who = NoSignal
  PROVE  o.bits \cap SimMask(sims, o.cell) = {}
<1> DEFINE n == Len(section.body)
<1>1. section.body \in Seq(Access) /\ n \in Nat
  BY DEF Section
<1>2. CASE OverlaidBy(section, n + 1)
  <2>1. PICK p \in Reads(st, section, n + 1) : o = Overlaid(p, sims)
    BY <1>2 DEF SeenUpTo
  <2> QED BY <2>1 DEF Overlaid
<1>3. CASE ~OverlaidBy(section, n + 1)
  <2>1. PICK j \in DOMAIN section.body :
          section.body[j].do = "read" /\ o \in Stored(section.body[j], st)
    BY <1>3 DEF SeenUpTo, Reads
  <2>2. section.body[j].who = NoSignal
    BY <2>1 DEF Stored
  <2>3. section.body[n].do = "overlay" /\ n \in DOMAIN section.body /\ n < n + 1
    BY <1>1, <2>1, <2>2 DEF SectionForm
  <2> QED BY <1>3, <2>3 DEF OverlaidBy
<1> QED BY <1>2, <1>3

\* A read of one signal under the lock is generated exactly if it is simulated.
LEMMA LookupMasked ==
  ASSUME NEW st, NEW sims, NEW section \in Section, SectionForm(section),
         section.prep = "lookup", NEW o \in SeenIn(st, sims, section)
  PROVE  o.who # NoSignal /\ (o.gen # {} <=> o.who \in sims)
<1>1. section.who \in SignalSet /\ section.who # NoSignal
  BY SignalsAssumption DEF SectionForm
<1>2. CASE section.who \in sims
  <2>1. PICK c \in SignalCells(section.who) :
          o = [who |-> section.who, cell |-> c, bits |-> {}, gen |-> SignalMask(section.who, c)]
    BY <1>2 DEF SeenIn, Generated
  <2>2. section.who \in SignalRecord
    BY <1>1, CellTyped
  <2>3. 0 \in Bit /\ BitOf(section.who) \in Bit
    BY <2>2, SignalsAssumption DEF Bit, BitOf, SignalRecord
  <2>4. BitOf(section.who) \in SignalMask(section.who, c)
    BY <2>1, <2>3 DEF SignalMask
  <2> QED BY <1>1, <1>2, <2>1, <2>4
<1>3. CASE section.who \notin sims
  <2>1. ~OverlaidBy(section, Len(section.body) + 1)
    BY DEF OverlaidBy, SectionForm
  <2>2. PICK j \in DOMAIN section.body : o \in Stored(section.body[j], st)
    BY <1>3, <2>1 DEF SeenIn, SeenUpTo, Reads
  <2>3. section.body[j].who = section.who
    BY DEF SectionForm
  <2> QED BY <1>1, <1>3, <2>2, <2>3 DEF Stored
<1> QED BY <1>2, <1>3

\* A call gets something when a lookup hits or a locked block ends.
LEMMA MaskedStep ==
  ASSUME AInv, Next, NEW t \in Thread, NEW o \in got'[t] \ got[t]
  PROVE  /\ o.who = NoSignal => o.bits \cap SimMask(profiles, o.cell) = {}
         /\ op[t].outer => (o.gen # {} <=> o.who \in profiles)
<1>0. IInv /\ TypeOK /\ Placed /\ CountedAt(t) /\ RecordedAt(t)
  BY DEF AInv, WInv, CInv, IInv, Counted, Recorded
<1>1. op[t] \in Call /\ CallForm(op[t]) /\ Sections(t) \in Seq(Section)
  BY <1>0, OpTyped, CallsForm DEF TypeOK, Call, Sections
<1>2. ASSUME HasSection(t)
      PROVE  /\ SectionForm(This(t)) /\ This(t) \in Section
  BY <1>0, <1>1, <1>2, OpTyped DEF CallForm, HasSection, This, Sections
<1>3. LookupHit(t) \/ LeaveSection(t) \/ LeaveOuter(t)
  <2>1. PICK u \in Thread : (\E call \in MayCall(u) : Begin(u, call)) \/ Take(u) \/ Step(u)
    BY DEF Next, Thread
  <2>2. u = t
    BY <1>0, <2>1, OthersStay
  <2>3. ~Return(t)
    BY <1>0 DEF Return, TypeOK
  <2> QED BY <2>1, <2>2, <2>3 DEF Take, Step, Begin, EnterOuter, EnterSection, LookupHit, LookupMiss,
       AssignDefaults, BuildProfiles, StoreWord, LoadWord, StoreBit, ReadWord, OverlayGenerated,
       SwapProfiles
<1>4. CASE LookupHit(t)
  <2>1. ~op[t].outer /\ HasSection(t) /\ This(t).prep = "lookup" /\ o \in Generated(This(t).who)
    BY <1>0, <1>4 DEF LookupHit, AtPrep, TypeOK
  <2>2. o.bits = {}
    BY <2>1 DEF Generated
  <2> QED BY <2>1, <2>2
<1>5. CASE LeaveSection(t)
  <2>1. ~op[t].outer /\ pc[t] = "inside" /\ HasSection(t) /\ ~HasAccess(t) /\ o \in buf[t]
    BY <1>0, <1>5 DEF LeaveSection, Deliver, TypeOK, Placed
  <2>2. This(t).body \in Seq(Access)
    BY <1>2, <2>1 DEF Section
  <2>3. acc[t] = Len(This(t).body) + 1
    BY <1>0, <2>1, <2>2 DEF CountedAt, InSection, HasAccess, TypeOK
  <2>4. o \in SeenUpTo(store, profiles, This(t), Len(This(t).body) + 1)
    BY <1>0, <2>1, <2>3 DEF RecordedAt, InOuter, InSection
  <2> QED BY <1>2, <2>1, <2>4, SectionMasked
<1>6. CASE LeaveOuter(t)
  <2>1. op[t].outer /\ pc[t] = "next" /\ o \in buf[t]
    BY <1>0, <1>6 DEF LeaveOuter, Deliver, TypeOK
  <2>2. buf[t] = SeenBefore(store, profiles, Sections(t), sec[t])
    BY <1>0, <2>1 DEF RecordedAt, InOuter, InSection
  <2>3. PICK i \in DOMAIN Sections(t) : o \in SeenIn(store, profiles, Sections(t)[i])
    BY <2>1, <2>2 DEF SeenBefore
  <2>4. SectionForm(Sections(t)[i]) /\ Sections(t)[i] \in Section
    BY <1>1 DEF CallForm, Sections
  <2>5. ~(Writes(Sections(t)[i]) /\ Sections(t)[i].prep = "none")
    BY <2>3, NothingSeen DEF SeenIn, Writes
  <2>6. Sections(t)[i].prep = "lookup"
    BY <1>1, <2>1, <2>5 DEF CallForm, Sections
  <2> QED BY <2>3, <2>4, <2>6, LookupMasked
<1> QED BY <1>3, <1>4, <1>5, <1>6

\* Reads that hold the lock over their lookup: raw bits that reach a Modbus client
\* are never those of a simulated signal, and get_values_by_name hands out generated
\* values for exactly the signals simulated when it releases the lock.
THEOREM ReadsMasked == Spec => MaskedReads
<1>1. AInv /\ [Next]_vars =>
        [\A t \in Thread : \A o \in got'[t] \ got[t] :
           /\ o.who = NoSignal => o.bits \cap SimMask(profiles, o.cell) = {}
           /\ op[t].outer => (o.gen # {} <=> o.who \in profiles)]_vars
  BY MaskedStep
<1> QED BY <1>1, BlockInvariance, PTL DEF Spec, MaskedReads

(***************************************************************************)
(* The refinement.  The abstract map's vocabulary is this one: its         *)
(* instance only puts the committed store in the place of the store.       *)
(***************************************************************************)
LEMMA SameBits ==
  /\ Atomic!Bit = Bit /\ Atomic!Address = Address /\ Atomic!Cell = Cell
  /\ Atomic!SignalSet = SignalSet
  /\ \A s, i : Atomic!CellOf(s, i) = CellOf(s, i)
  /\ \A s : Atomic!IsWide(s) = IsWide(s)
  /\ \A s : Atomic!SignalCells(s) = SignalCells(s)
  /\ \A s, c : Atomic!SignalMask(s, c) = SignalMask(s, c)
  /\ \A sims, c : Atomic!SimMask(sims, c) = SimMask(sims, c)
BY DEF Bit, Atomic!Bit, Address, Atomic!Address, Cell, Atomic!Cell, SignalSet, Atomic!SignalSet,
       CellOf, Atomic!CellOf, IsWide, Atomic!IsWide, WIDE_TYPES, Atomic!WIDE_TYPES,
       SignalCells, Atomic!SignalCells, SignalMask, Atomic!SignalMask, BitOf, Atomic!BitOf,
       BitTypes, Atomic!BitTypes, SimMask, Atomic!SimMask, REGISTER_TYPES, Atomic!REGISTER_TYPES

\* Sections are made of the same accesses.
LEMMA SameSections ==
  /\ \A body : Atomic!Locked(body) = Locked(body)
  /\ \A prep, sims, body : Atomic!Prepared(prep, sims, body) = Prepared(prep, sims, body)
  /\ \A cells, mask, bits : Atomic!Write(cells, mask, bits) = Write(cells, mask, bits)
  /\ Atomic!Swap = Swap
  /\ \A s, raw : Atomic!StoreRaw(s, raw) = StoreRaw(s, raw)
  /\ \A s : Atomic!ReadSignal(s) = ReadSignal(s)
BY DEF StoreRaw, Atomic!StoreRaw, Write, Atomic!Write, CellOf, Atomic!CellOf, SignalMask,
       Atomic!SignalMask, BitOf, Atomic!BitOf, IsWide, Atomic!IsWide, WIDE_TYPES, Atomic!WIDE_TYPES,
       Bit, Atomic!Bit, BitTypes, Atomic!BitTypes, SignalCells, Atomic!SignalCells, Read, Atomic!Read,
       Swap, Atomic!Swap, Prepared, Atomic!Prepared, Locked, Atomic!Locked, ReadSignal,
       Atomic!ReadSignal

\* What is read is read the same way.
LEMMA SameObservations ==
  /\ \A a, st : Atomic!Stored(a, st) = Stored(a, st)
  /\ \A s : Atomic!Generated(s) = Generated(s)
  /\ \A o, sims : Atomic!Overlaid(o, sims) = Overlaid(o, sims)
BY SameBits DEF Stored, Atomic!Stored, Generated, Atomic!Generated, Overlaid, Atomic!Overlaid

\* So is what a block does to a store,
LEMMA SameEffect == \A block, st : Atomic!Effect(block, st) = Effect(block, st)
BY DEF Effect, Atomic!Effect, WritesTo, Atomic!WritesTo, LastOf, Atomic!LastOf, Cell, Atomic!Cell,
       Bit, Atomic!Bit, REGISTER_TYPES, Atomic!REGISTER_TYPES, Address, Atomic!Address

\* the call of Simulate,
LEMMA SameDefaults == Atomic!SetDefaults = SetDefaults
<1> DEFINE section(i) == Locked(StoreRaw(Signals[i], Signals[i].default_raw))
           there(i) == Atomic!Locked(Atomic!StoreRaw(Signals[i], Signals[i].default_raw))
<1>1. \A i : there(i) = section(i)
  BY SameSections
<1>2. /\ SetDefaults = [outer |-> TRUE, sections |-> [i \in 1 .. Len(Signals) |-> section(i)]]
      /\ Atomic!SetDefaults = [outer |-> TRUE, sections |-> [i \in 1 .. Len(Signals) |-> there(i)]]
  BY DEF SetDefaults, Atomic!SetDefaults
<1> HIDE DEF section, there
<1>3. [i \in 1 .. Len(Signals) |-> there(i)] = [i \in 1 .. Len(Signals) |-> section(i)]
  BY <1>1
<1> QED BY <1>2, <1>3

\* the store it leaves at the start,
LEMMA SameInitial == Atomic!InitialStore = InitialStore
BY SameEffect, SameDefaults, SameBits DEF InitialStore, Atomic!InitialStore

\* and what a thread may call.
LEMMA SameCalls ==
  ASSUME NEW t
  PROVE  Atomic!MayCall(t) = MayCall(t)
<1>1. Atomic!ModbusCalls = ModbusCalls
  BY DEF ModbusCalls, Atomic!ModbusCalls, ReadBlock, Atomic!ReadBlock, WriteBlock, Atomic!WriteBlock,
         ReadBits, Atomic!ReadBits, WriteBits, Atomic!WriteBits, Write, Atomic!Write, Bit, Atomic!Bit,
         Read, Atomic!Read, Overlay, Atomic!Overlay, Locked, Atomic!Locked, Prepared, Atomic!Prepared
<1>2. \A s, raw : Atomic!SetValue(s, raw) = SetValue(s, raw)
  BY SameSections DEF SetValue, Atomic!SetValue
<1>3. Atomic!ClearAll = ClearAll
  BY SameSections, SameBits DEF ClearAll, Atomic!ClearAll
<1>4. Atomic!GetValues = GetValues
  <2>1. [i \in 1 .. Len(Signals) |-> Atomic!ReadSignal(Signals[i])]
        = [i \in 1 .. Len(Signals) |-> ReadSignal(Signals[i])]
    BY SameSections
  <2> QED BY <2>1 DEF GetValues, Atomic!GetValues
<1>5. Atomic!ApiCalls = ApiCalls
  BY <1>2, <1>3, <1>4, SameDefaults, SameBits DEF ApiCalls, Atomic!ApiCalls
<1>6. Atomic!SimCalls = SimCalls
  BY SameSections DEF SimCalls, Atomic!SimCalls, SetSimDefaults, Atomic!SetSimDefaults
<1> QED BY <1>1, <1>5, <1>6 DEF MayCall, Atomic!MayCall

\* Initial states are initial states.
LEMMA InitRefines == Init => Atomic!Init
BY SameInitial DEF Init, Atomic!Init, AbstractPhase, AbstractPos, Swapped, NoCall, Atomic!NoCall,
   Thread, Atomic!Thread

\* A step of one thread leaves what the others are abstractly alone.
LEMMA AbstractOthers ==
  ASSUME TypeOK, NEW t \in Thread,
         (\E call \in MayCall(t) : Begin(t, call)) \/ Take(t) \/ Step(t)
  PROVE  /\ [u \in Thread |-> AbstractPhase(u)]'
              = [[u \in Thread |-> AbstractPhase(u)] EXCEPT ![t] = AbstractPhase(t)']
         /\ [u \in Thread |-> AbstractPos(u)]'
              = [[u \in Thread |-> AbstractPos(u)] EXCEPT ![t] = AbstractPos(t)']
<1>1. ASSUME NEW u \in Thread \ {t}
      PROVE  AbstractPhase(u)' = AbstractPhase(u) /\ AbstractPos(u)' = AbstractPos(u)
  <2>1. /\ pc'[u] = pc[u] /\ op'[u] = op[u] /\ sec'[u] = sec[u] /\ acc'[u] = acc[u]
    BY OthersStay
  <2>2. This(u)' = This(u) /\ (Swapped(u)' <=> Swapped(u))
    BY <2>1 DEF This, Sections, Swapped
  <2> QED BY <2>1, <2>2 DEF AbstractPhase, AbstractPos
<1> QED BY <1>1

\* What a section observes at one instant is what its accesses have seen.
LEMMA ObservedSeen ==
  ASSUME NEW section \in Section
  PROVE  /\ Atomic!Observed(section, TRUE) = SeenIn(committed, profiles, section)
         /\ Atomic!Observed(section, FALSE)
              = SeenUpTo(committed, profiles, section, Len(section.body) + 1)
<1> DEFINE n == Len(section.body) + 1
<1>1. section.body \in Seq(Access)
  BY DEF Section
<1>2. \A k \in DOMAIN section.body : k < n
  BY <1>1
<1>3. Atomic!ReadsOf(section) = Reads(committed, section, n)
  BY <1>2, SameObservations DEF Atomic!ReadsOf, Reads
<1>4. "overlay" \in Atomic!Do(section) <=> OverlaidBy(section, n)
  BY <1>2 DEF Atomic!Do, OverlaidBy
<1> HIDE DEF n
<1> QED BY <1>3, <1>4, SameObservations DEF Atomic!Observed, SeenIn, SeenUpTo, n

\* The holder's block is over, or has no writes: its effect is the store.
LEMMA BlockOver ==
  ASSUME AInv, NEW t \in Thread, Held(t) > 0, Block(t) \in Seq(Section),
         \A c \in Cell, b \in Bit : \A p \in WritesTo(Block(t), c, b) : IsDone(t, p)
  PROVE  Effect(Block(t), committed) = store
<1>1. IInv /\ TypeOK /\ Written
  BY DEF AInv, WInv, CInv, IInv
<1>2. WrittenBy(t)
  BY <1>1, Holder DEF Written
<1>3. ASSUME NEW c \in Cell, NEW b \in Bit
      PROVE  Decides(Block(t), WritesTo(Block(t), c, b), committed, store, c, b)
  <2>1. DoneWrites(t, c, b) = WritesTo(Block(t), c, b)
    BY DEF DoneWrites
  <2> QED BY <1>2, <2>1 DEF WrittenBy
<1> QED BY <1>1, <1>3, EffectDecided DEF TypeOK

\* A block without a write has no effect.
LEMMA NoEffect ==
  ASSUME NEW block \in Seq(Section), NEW st \in [Cell -> Word],
         \A i \in DOMAIN block : NoWrites(block[i])
  PROVE  Effect(block, st) = st
<1>1. \A c \in Cell, b \in Bit : WritesTo(block, c, b) = {}
  BY DEF WritesTo, NoWrites
<1> QED BY <1>1, EffectDecided DEF Decides

\* What AInv says of one thread, for the steps below.
LEMMA AtThread ==
  ASSUME AInv, NEW t \in Thread
  PROVE  /\ IInv /\ TypeOK /\ Placed /\ CountedAt(t) /\ RecordedAt(t)
         /\ op[t].outer \in BOOLEAN /\ Sections(t) \in Seq(Section)
         /\ op[t].outer =>
              \/ \A i \in DOMAIN Sections(t) : Writes(Sections(t)[i]) /\ Sections(t)[i].prep = "none"
              \/ \A i \in DOMAIN Sections(t) : NoWrites(Sections(t)[i])
         /\ HasSection(t) =>
              /\ This(t) \in Section /\ This(t).body \in Seq(Access) /\ SectionForm(This(t))
              /\ This(t) = Sections(t)[sec[t]] /\ sec[t] \in DOMAIN Sections(t)
              /\ Writes(This(t)) \/ NoWrites(This(t))
              /\ op[t].outer => This(t).prep \in {"none", "lookup"}
<1>1. IInv /\ TypeOK /\ Placed /\ CountedAt(t) /\ RecordedAt(t)
  BY DEF AInv, WInv, CInv, IInv, Counted, Recorded
<1>2. op[t] \in Call /\ op[t] \in Calls \cup {NoCall}
  BY <1>1, OpTyped DEF TypeOK
<1>3. CallForm(op[t]) /\ CallShape(op[t])
  BY <1>2, CallsForm, CallsShape
<1>4. /\ op[t].outer \in BOOLEAN /\ Sections(t) \in Seq(Section)
      /\ op[t].outer =>
           \/ \A i \in DOMAIN Sections(t) : Writes(Sections(t)[i]) /\ Sections(t)[i].prep = "none"
           \/ \A i \in DOMAIN Sections(t) : NoWrites(Sections(t)[i])
  <2>1. ASSUME NEW i \in DOMAIN Sections(t), Sections(t)[i].prep = "lookup"
        PROVE  NoWrites(Sections(t)[i])
    BY <1>3, <2>1 DEF CallForm, SectionForm, NoWrites, Sections
  <2> QED BY <1>2, <1>3, <2>1 DEF Call, CallForm, Sections
<1>5. ASSUME HasSection(t)
      PROVE  /\ This(t) \in Section /\ This(t).body \in Seq(Access) /\ SectionForm(This(t))
             /\ This(t) = Sections(t)[sec[t]] /\ sec[t] \in DOMAIN Sections(t)
             /\ Writes(This(t)) \/ NoWrites(This(t))
             /\ op[t].outer => This(t).prep \in {"none", "lookup"}
  <2>1. This(t) = Sections(t)[sec[t]] /\ sec[t] \in DOMAIN Sections(t)
    BY <1>5 DEF HasSection, This
  <2>2. This(t) \in Section
    BY <1>4, <2>1
  <2> QED BY <1>3, <2>1, <2>2 DEF Section, CallForm, CallShape, SectionShape, Sections
<1> QED BY <1>1, <1>4, <1>5

\* A call starts.
LEMMA BeginRefines ==
  ASSUME AInv, NEW t \in Thread, NEW call \in MayCall(t), Begin(t, call)
  PROVE  Atomic!Begin(t, call)
<1>1. /\ pc[t] = "idle" /\ op[t] = NoCall /\ sec[t] = 1 /\ pc'[t] \in {"wait", "next"}
      /\ sec' = sec /\ TypeOK /\ op' = [op EXCEPT ![t] = call] /\ op[t].outer = FALSE
      /\ op'[t].outer \/ pc'[t] \in {"wait", "next"}
  BY AtThread DEF Begin, Go, TypeOK, CountedAt, NoCall
<1>2. AbstractPhase(t) = "idle" /\ AbstractPhase(t)' = "next"
  BY <1>1 DEF AbstractPhase
<1>3. AbstractPos(t) = 1 /\ AbstractPos(t)' = 1
  BY <1>1 DEF AbstractPos, Swapped
<1>4. /\ [u \in Thread |-> AbstractPhase(u)]'
           = [[u \in Thread |-> AbstractPhase(u)] EXCEPT ![t] = "next"]
      /\ [u \in Thread |-> AbstractPos(u)]' = [u \in Thread |-> AbstractPos(u)]
  BY <1>1, <1>2, <1>3, AbstractOthers
<1>5. call \in Atomic!MayCall(t)
  BY SameCalls
<1> QED BY <1>2, <1>4, <1>5 DEF Begin, Atomic!Begin, shared, lock

\* A step between the abstract ones.
LEMMA Stutters ==
  ASSUME AInv, NEW t \in Thread,
         (\E call \in MayCall(t) : Begin(t, call)) \/ Take(t) \/ Step(t),
         AbstractPhase(t)' = AbstractPhase(t), AbstractPos(t)' = AbstractPos(t),
         UNCHANGED <<committed, profiles, simDefaults, op, built, got>>
  PROVE  UNCHANGED Atomic!vars
<1>1. TypeOK
  BY AtThread
<1>2. /\ [u \in Thread |-> AbstractPhase(u)]' = [u \in Thread |-> AbstractPhase(u)]
      /\ [u \in Thread |-> AbstractPos(u)]' = [u \in Thread |-> AbstractPos(u)]
  BY <1>1, AbstractOthers
<1> QED BY <1>2 DEF Atomic!vars

\* Taking the lock, or an access other than a swap, is not seen.
LEMMA InsideRefines ==
  ASSUME AInv, NEW t \in Thread,
         \/ Take(t)
         \/ StoreWord(t) \/ LoadWord(t) \/ StoreBit(t) \/ ReadWord(t) \/ OverlayGenerated(t)
  PROVE  UNCHANGED Atomic!vars
<1>0. /\ TypeOK /\ Placed /\ CountedAt(t)
      /\ HasSection(t) => SectionForm(This(t)) /\ This(t).body \in Seq(Access)
  BY AtThread
<1>1. UNCHANGED <<committed, profiles, simDefaults, op, sec, built, got>>
  BY DEF Take, EnterOuter, EnterSection, StoreWord, LoadWord, StoreBit, ReadWord,
         OverlayGenerated, shared, lock
<1>2. This(t)' = This(t)
  BY <1>1 DEF This, Sections
<1>3. CASE EnterOuter(t)
  <2>1. op[t].outer /\ pc[t] = "wait" /\ pc'[t] = "next"
    BY <1>0, <1>3 DEF EnterOuter, Go, Placed, TypeOK
  <2>2. AbstractPhase(t)' = AbstractPhase(t) /\ AbstractPos(t)' = AbstractPos(t)
    BY <1>1, <2>1 DEF AbstractPhase, AbstractPos
  <2> QED BY <1>1, <1>3, <2>2, Stutters DEF Take
<1>4. CASE EnterSection(t)
  <2>1. /\ pc[t] = "ready" \/ (pc[t] = "next" /\ This(t).prep = "none")
        /\ pc[t] = "ready" => This(t).prep # "none"
        /\ pc'[t] = "inside" /\ acc'[t] = 1
    BY <1>0, <1>4 DEF EnterSection, AtPrep, Go, CountedAt, TypeOK
  <2>2. ~Swapped(t) /\ ~Swapped(t)'
    BY <2>1 DEF Swapped
  <2>3. AbstractPhase(t)' = AbstractPhase(t) /\ AbstractPos(t)' = AbstractPos(t)
    BY <1>1, <1>2, <2>1, <2>2 DEF AbstractPhase, AbstractPos
  <2> QED BY <1>1, <1>4, <2>3, Stutters DEF Take
<1>5. CASE StoreWord(t) \/ LoadWord(t) \/ StoreBit(t) \/ ReadWord(t) \/ OverlayGenerated(t)
  <2>1. /\ pc[t] \in {"inside", "loaded"} /\ pc'[t] \in {"inside", "loaded"}
        /\ HasSection(t) /\ HasAccess(t) /\ Now(t).do # "swap"
        /\ acc'[t] \in {acc[t], acc[t] + 1}
    BY <1>0, <1>5 DEF StoreWord, LoadWord, StoreBit, ReadWord, OverlayGenerated, AtAccess, Go,
       NextAccess, Placed, TypeOK
  <2>2. This(t).prep # "build"
    BY <1>0, <2>1 DEF SectionForm, HasAccess, Now, Swap
  <2>3. \A j \in DOMAIN This(t).body : This(t).body[j].do # "swap"
    BY <1>0, <2>1, <2>2 DEF SectionForm
  <2>4. acc[t] \in Nat /\ acc[t] \in DOMAIN This(t).body
    BY <1>0, <2>1 DEF HasAccess, TypeOK
  <2>5. ~Swapped(t) /\ ~Swapped(t)'
    <3>1. ASSUME NEW n \in {acc[t], acc[t] + 1}, n > 1 PROVE n - 1 \in DOMAIN This(t).body
      BY <1>0, <2>1, <2>4, <3>1
    <3> QED BY <1>2, <2>1, <2>3, <3>1 DEF Swapped
  <2>6. AbstractPhase(t)' = AbstractPhase(t) /\ AbstractPos(t)' = AbstractPos(t)
    BY <1>1, <1>2, <2>1, <2>5 DEF AbstractPhase, AbstractPos
  <2> QED BY <1>1, <1>5, <2>6, Stutters DEF Step
<1> QED BY <1>3, <1>4, <1>5 DEF Take

\* What is done before the lock.
LEMMA PrepRefines ==
  ASSUME AInv, NEW t \in Thread,
         LookupHit(t) \/ LookupMiss(t) \/ AssignDefaults(t) \/ BuildProfiles(t)
  PROVE  \/ UNCHANGED Atomic!vars
         \/ Atomic!Lookup(t) \/ Atomic!Assign(t) \/ Atomic!Resolve(t)
<1> DEFINE phase == [u \in Thread |-> AbstractPhase(u)]
           pos == [u \in Thread |-> AbstractPos(u)]
<1>0. /\ TypeOK /\ op[t].outer \in BOOLEAN
      /\ HasSection(t) => (op[t].outer => This(t).prep \in {"none", "lookup"})
  BY AtThread
<1>1. /\ pc[t] = "next" /\ HasSection(t) /\ pc'[t] \in {"next", "ready"}
      /\ op' = op /\ committed' = committed
  BY <1>0 DEF LookupHit, LookupMiss, AssignDefaults, BuildProfiles, AtPrep, Go, lock, TypeOK
<1>2. CASE op[t].outer
  <2>1. This(t).prep \in {"none", "lookup"}
    BY <1>0, <1>1, <1>2
  <2>2. UNCHANGED <<committed, profiles, simDefaults, op, built, got>>
    BY <1>2, <2>1 DEF LookupHit, LookupMiss, AssignDefaults, BuildProfiles, AtPrep, lock, shared
  <2>3. AbstractPhase(t)' = AbstractPhase(t) /\ AbstractPos(t)' = AbstractPos(t)
    BY <1>1, <1>2 DEF AbstractPhase, AbstractPos
  <2> QED BY <2>2, <2>3, Stutters DEF Step
<1>3. CASE ~op[t].outer
  <2>1. ~Swapped(t) /\ ~Swapped(t)'
    BY <1>1 DEF Swapped
  <2>2. AbstractPhase(t) = "next" /\ AbstractPos(t) = sec[t] /\ AbstractPos(t)' = sec'[t]
    BY <1>1, <1>3, <2>1 DEF AbstractPhase, AbstractPos
  <2>3. /\ phase' = [phase EXCEPT ![t] = AbstractPhase(t)']
        /\ pos' = [pos EXCEPT ![t] = AbstractPos(t)']
    BY <1>0, AbstractOthers DEF Step
  <2>4. phase[t] = "next" /\ pos[t] = sec[t] /\ DOMAIN phase = Thread
    BY <2>2
  <2>5. /\ LookupHit(t) \/ AssignDefaults(t) =>
             AbstractPhase(t)' = "next" /\ sec'[t] = sec[t] + 1
        /\ LookupMiss(t) \/ BuildProfiles(t) =>
             AbstractPhase(t)' = "ready" /\ sec'[t] = sec[t]
    <3>1. This(t)' = This(t) \/ sec' # sec
      BY <1>1 DEF This, Sections
    <3> QED BY <1>0, <1>1, <1>3, <2>1, <3>1 DEF LookupHit, LookupMiss, AssignDefaults, BuildProfiles,
               AtPrep, Go, NextSection, AbstractPhase, TypeOK
  <2> HIDE DEF phase, pos
  <2>6. op[t].sections[pos[t]] = This(t) /\ pos[t] \in DOMAIN op[t].sections
    BY <1>1, <2>4 DEF This, Sections, HasSection
  <2>7. /\ LookupHit(t) \/ AssignDefaults(t) =>
             phase' = phase /\ pos' = [pos EXCEPT ![t] = pos[t] + 1]
        /\ LookupMiss(t) \/ BuildProfiles(t) =>
             phase' = [phase EXCEPT ![t] = "ready"] /\ pos' = pos
    <3>1. phase = [phase EXCEPT ![t] = "next"] /\ pos = [pos EXCEPT ![t] = sec[t]]
      BY <2>4 DEF phase, pos
    <3> QED BY <2>2, <2>3, <2>4, <2>5, <3>1
  <2>8. CASE LookupHit(t)
    BY <1>1, <1>3, <2>4, <2>6, <2>7, <2>8, SameObservations
       DEF phase, pos, LookupHit, AtPrep, Atomic!Lookup, Atomic!AtSection, Atomic!Here, shared
  <2>9. CASE LookupMiss(t)
    BY <1>1, <1>3, <2>4, <2>6, <2>7, <2>9
       DEF phase, pos, LookupMiss, AtPrep, Atomic!Lookup, Atomic!AtSection, Atomic!Here, shared
  <2>10. CASE AssignDefaults(t)
    BY <1>1, <1>3, <2>4, <2>6, <2>7, <2>10
       DEF phase, pos, AssignDefaults, AtPrep, Atomic!Assign, Atomic!AtSection, Atomic!Here, shared
  <2>11. CASE BuildProfiles(t)
    BY <1>1, <1>3, <2>4, <2>6, <2>7, <2>11
       DEF phase, pos, BuildProfiles, AtPrep, Atomic!Resolve, Atomic!AtSection, Atomic!Here, shared
  <2> QED BY <2>8, <2>9, <2>10, <2>11
<1> QED BY <1>0, <1>2, <1>3

\* A block that writes nothing leaves the committed store as it was.
LEMMA ReadsCommitted ==
  ASSUME AInv, NEW t \in Thread, Held(t) > 0, op[t].outer \/ HasSection(t),
         \A i \in DOMAIN Block(t) : NoWrites(Block(t)[i])
  PROVE  store = committed
<1>1. TypeOK /\ Block(t) \in Seq(Section)
  BY AtThread, BlockTyped
<1>2. \A c \in Cell, b \in Bit : WritesTo(Block(t), c, b) = {}
  BY DEF WritesTo, NoWrites
<1>3. Effect(Block(t), committed) = store
  BY <1>1, <1>2, BlockOver
<1>4. Effect(Block(t), committed) = committed
  BY <1>1, NoEffect DEF TypeOK
<1> QED BY <1>3, <1>4

\* Profiles are swapped: the abstract block of that section.
LEMMA SwapRefines ==
  ASSUME AInv, NEW t \in Thread, SwapProfiles(t)
  PROVE  Atomic!Block(t)
<1> DEFINE phase == [u \in Thread |-> AbstractPhase(u)]
           pos == [u \in Thread |-> AbstractPos(u)]
<1>0. /\ TypeOK /\ HasSection(t) /\ HasAccess(t) /\ Now(t).do = "swap" /\ pc[t] = "inside"
      /\ This(t) \in Section /\ SectionForm(This(t)) /\ op[t].outer \in BOOLEAN
      /\ op[t].outer => This(t).prep \in {"none", "lookup"}
  BY AtThread DEF SwapProfiles, AtAccess, Placed
<1>1. This(t).prep = "build" /\ This(t).body = <<Swap>> /\ Swap.do = "swap"
  BY <1>0 DEF SectionForm, HasAccess, Now, Swap
<1>2. acc[t] = 1 /\ ~op[t].outer
  BY <1>0, <1>1 DEF HasAccess
<1>3. /\ UNCHANGED <<committed, simDefaults, op, sec, built, got, pc>>
      /\ profiles' = built[t] /\ acc'[t] = 2 /\ This(t)' = This(t)
  BY <1>0, <1>2 DEF SwapProfiles, NextAccess, lock, This, Sections, TypeOK
<1>4. ~Swapped(t) /\ Swapped(t)'
  BY <1>0, <1>1, <1>2, <1>3 DEF Swapped
<1>5. /\ AbstractPhase(t) = "ready" /\ AbstractPhase(t)' = "next"
      /\ AbstractPos(t) = sec[t] /\ AbstractPos(t)' = sec[t] + 1
  BY <1>0, <1>1, <1>2, <1>3, <1>4 DEF AbstractPhase, AbstractPos
<1>6. /\ phase' = [phase EXCEPT ![t] = "next"] /\ phase[t] = "ready"
      /\ pos' = [pos EXCEPT ![t] = sec[t] + 1] /\ pos[t] = sec[t]
  BY <1>0, <1>5, AbstractOthers DEF Step
<1> HIDE DEF phase, pos
<1>7. op[t].sections[pos[t]] = This(t)
  BY <1>6 DEF This, Sections
<1>8. Effect(<<This(t)>>, committed) = committed
  <2>1. NoWrites(This(t)) /\ <<This(t)>> \in Seq(Section) /\ committed \in [Cell -> Word]
    BY <1>0, <1>1 DEF NoWrites, TypeOK
  <2>2. \A i \in DOMAIN <<This(t)>> : NoWrites(<<This(t)>>[i])
    BY <2>1
  <2> QED BY <2>1, <2>2, NoEffect
<1>9. Atomic!Observed(This(t), FALSE) = {}
  <2>1. \A k \in DOMAIN This(t).body : This(t).body[k].do \notin {"read", "overlay"}
    BY <1>1
  <2>2. SeenUpTo(committed, profiles, This(t), Len(This(t).body) + 1) = {}
    BY <2>1, NothingSeen
  <2> QED BY <1>0, <2>2, ObservedSeen
<1>10. "swap" \in Atomic!Do(This(t))
  BY <1>1 DEF Atomic!Do
<1>11. got' = [got EXCEPT ![t] = @ \cup Atomic!Observed(This(t), FALSE)]
  BY <1>0, <1>3, <1>9 DEF TypeOK
<1> QED BY <1>3, <1>6, <1>7, <1>8, <1>10, <1>11, SameEffect DEF phase, pos, Atomic!Block, Atomic!Here

\* A section ends: the abstract block of that section, unless profiles were
\* swapped in it, or it is one of an outer call's.
LEMMA LeaveSectionRefines ==
  ASSUME AInv, NEW t \in Thread, LeaveSection(t)
  PROVE  UNCHANGED Atomic!vars \/ Atomic!Block(t)
<1> DEFINE phase == [u \in Thread |-> AbstractPhase(u)]
           pos == [u \in Thread |-> AbstractPos(u)]
<1>0. /\ IInv /\ TypeOK /\ HasSection(t) /\ ~HasAccess(t) /\ pc[t] = "inside" /\ RecordedAt(t)
      /\ This(t) \in Section /\ SectionForm(This(t)) /\ op[t].outer \in BOOLEAN
      /\ This(t).body \in Seq(Access) /\ This(t).prep # "assign"
      /\ Writes(This(t)) \/ NoWrites(This(t))
      /\ Held(t) > 0 /\ depth = Held(t)
  <2>1. HasSection(t) /\ pc[t] = "inside" /\ Held(t) > 0
    BY AtThread DEF LeaveSection, Placed, Held, InSection, InOuter
  <2> QED BY <2>1, AtThread, Holder DEF LeaveSection, CountedAt, InSection
<1>1. acc[t] = Len(This(t).body) + 1 /\ pc'[t] = "next"
      /\ UNCHANGED <<profiles, simDefaults, op, built>>
      /\ sec'[t] = sec[t] + 1 /\ ~Swapped(t)'
  <2>1. acc[t] <= Len(This(t).body) + 1
    BY <1>0, AtThread DEF CountedAt, InSection
  <2>2. acc[t] = Len(This(t).body) + 1
    BY <1>0, <2>1 DEF HasAccess, TypeOK
  <2> QED BY <1>0, <2>2 DEF LeaveSection, Go, NextSection, TypeOK, shared, Swapped
<1>2. CASE op[t].outer
  <2>1. depth = 2
    BY <1>0, <1>2 DEF Held, InOuter, InSection
  <2>2. committed' = committed /\ got' = got
    BY <1>2, <2>1 DEF LeaveSection, Leave
  <2>3. AbstractPhase(t)' = AbstractPhase(t) /\ AbstractPos(t)' = AbstractPos(t)
    BY <1>0, <1>1, <1>2 DEF AbstractPhase, AbstractPos
  <2> QED BY <1>1, <2>2, <2>3, Stutters DEF Step
<1>3. CASE ~op[t].outer
  <2>1. depth = 1
    BY <1>0, <1>3 DEF Held, InOuter, InSection
  <2>2. committed' = store /\ got' = [got EXCEPT ![t] = @ \cup buf[t]]
    BY <1>3, <2>1 DEF LeaveSection, Leave, Deliver
  <2>3. Block(t) = <<This(t)>> /\ <<This(t)>> \in Seq(Section) /\ Here(t) = 1
    BY <1>0, <1>3 DEF Block, Here
  <2>4. Effect(<<This(t)>>, committed) = store
    <3>1. ASSUME NEW c \in Cell, NEW b \in Bit, NEW p \in WritesTo(Block(t), c, b)
          PROVE  IsDone(t, p)
      <4>1. p[1] \in DOMAIN <<This(t)>> /\ p[2] \in DOMAIN <<This(t)>>[p[1]].body
        BY <2>3, <3>1, PlacesTyped
      <4>2. p[1] = 1 /\ p[2] \in DOMAIN This(t).body
        BY <4>1
      <4> QED BY <1>0, <1>1, <2>3, <4>2 DEF IsDone, InSection
    <3> QED BY <1>0, <2>3, <3>1, BlockOver
  <2>5. buf[t] = SeenUpTo(store, profiles, This(t), Len(This(t).body) + 1)
    BY <1>0, <1>1, <1>3 DEF RecordedAt, InOuter, InSection
  <2>6. buf[t] = Atomic!Observed(This(t), FALSE)
    <3>1. CASE Writes(This(t))
      BY <1>0, <2>5, <3>1, ObservedSeen, NothingSeen DEF Writes
    <3>2. CASE NoWrites(This(t))
      <4>1. store = committed
        BY <1>0, <2>3, <3>2, ReadsCommitted
      <4> QED BY <1>0, <2>5, <4>1, ObservedSeen
    <3> QED BY <1>0, <3>1, <3>2
  <2>7. AbstractPhase(t)' = "next" /\ AbstractPos(t)' = sec[t] + 1
    BY <1>1, <1>3 DEF AbstractPhase, AbstractPos
  <2>8. CASE This(t).prep = "build"
    <3>1. This(t).body = <<Swap>> /\ acc[t] = 2 /\ NoWrites(This(t)) /\ Swapped(t)
      BY <1>0, <1>1, <2>8 DEF SectionForm, Swap, NoWrites, Swapped
    <3>2. committed' = committed
      BY <1>0, <2>2, <2>3, <3>1, ReadsCommitted
    <3>3. buf[t] = {}
      BY <2>5, <3>1, NothingSeen DEF Swap
    <3>4. got' = got
      BY <1>0, <2>2, <3>3 DEF TypeOK
    <3>5. AbstractPhase(t) = "next" /\ AbstractPos(t) = sec[t] + 1
      BY <1>0, <1>3, <3>1 DEF AbstractPhase, AbstractPos
    <3> QED BY <1>1, <2>7, <3>2, <3>4, <3>5, Stutters DEF Step
  <2>9. CASE This(t).prep # "build"
    <3>1. \A j \in DOMAIN This(t).body : This(t).body[j].do # "swap"
      BY <1>0, <2>9 DEF SectionForm
    <3>2. ~Swapped(t)
      BY <1>0, <1>1, <3>1 DEF Swapped
    <3>3. /\ AbstractPhase(t) = IF This(t).prep = "none" THEN "next" ELSE "ready"
          /\ AbstractPos(t) = sec[t]
      BY <1>0, <1>3, <3>2 DEF AbstractPhase, AbstractPos
    <3>4. /\ phase' = [phase EXCEPT ![t] = "next"]
          /\ phase[t] = IF This(t).prep = "none" THEN "next" ELSE "ready"
          /\ pos' = [pos EXCEPT ![t] = sec[t] + 1] /\ pos[t] = sec[t]
      BY <1>0, <2>7, <3>3, AbstractOthers DEF Step
    <3> HIDE DEF phase, pos
    <3>5. op[t].sections[pos[t]] = This(t) /\ pos[t] \in DOMAIN op[t].sections
      BY <1>0, <3>4 DEF This, Sections, HasSection
    <3>6. "swap" \notin Atomic!Do(This(t))
      BY <3>1 DEF Atomic!Do
    <3>7. phase[t] = "ready" \/ Atomic!AtSection(t, "none")
      BY <1>3, <3>4, <3>5 DEF Atomic!AtSection, Atomic!Here, phase, pos
    <3> QED BY <1>1, <2>2, <2>4, <2>6, <3>4, <3>5, <3>6, <3>7, SameEffect
            DEF phase, pos, Atomic!Block, Atomic!Here
  <2> QED BY <2>8, <2>9
<1> QED BY <1>0, <1>2, <1>3

\* An outer call ends: all its sections at once.
LEMMA LeaveOuterRefines ==
  ASSUME AInv, NEW t \in Thread, LeaveOuter(t)
  PROVE  Atomic!WholeCall(t)
<1> DEFINE phase == [u \in Thread |-> AbstractPhase(u)]
           pos == [u \in Thread |-> AbstractPos(u)]
<1>0. /\ IInv /\ TypeOK /\ ~HasSection(t) /\ pc[t] = "next" /\ RecordedAt(t) /\ op[t].outer
      /\ Sections(t) \in Seq(Section)
      /\ \/ \A i \in DOMAIN Sections(t) : Writes(Sections(t)[i]) /\ Sections(t)[i].prep = "none"
         \/ \A i \in DOMAIN Sections(t) : NoWrites(Sections(t)[i])
  BY AtThread DEF LeaveOuter
<1>1. Held(t) = 1 /\ depth = 1
  <2>1. Held(t) = 1
    BY <1>0 DEF Held, InOuter, InSection
  <2> QED BY <1>0, <2>1, Holder
<1>2. /\ committed' = store /\ got' = [got EXCEPT ![t] = @ \cup buf[t]] /\ pc'[t] = "done"
      /\ UNCHANGED <<profiles, simDefaults, op, built>>
  BY <1>0, <1>1 DEF LeaveOuter, Leave, Deliver, Go, shared, TypeOK
<1>3. sec[t] \in Nat /\ \A i \in DOMAIN Sections(t) : i < sec[t]
  BY <1>0 DEF HasSection, TypeOK
<1>4. Block(t) = Sections(t) /\ Here(t) = sec[t]
  BY <1>0 DEF Block, Here
<1>5. Effect(Sections(t), committed) = store
  <2>1. ASSUME NEW c \in Cell, NEW b \in Bit, NEW p \in WritesTo(Block(t), c, b)
        PROVE  IsDone(t, p)
    <3>1. p[1] \in DOMAIN Sections(t)
      BY <1>0, <1>4, <2>1, PlacesTyped
    <3> QED BY <1>3, <1>4, <3>1 DEF IsDone
  <2> QED BY <1>0, <1>1, <1>4, <2>1, BlockOver
<1>6. buf[t] = UNION {SeenIn(store, profiles, Sections(t)[i]) : i \in DOMAIN Sections(t)}
  <2>1. buf[t] = SeenBefore(store, profiles, Sections(t), sec[t])
    BY <1>0 DEF RecordedAt, InOuter, InSection
  <2> QED BY <1>3, <2>1 DEF SeenBefore
<1>7. ASSUME NEW i \in DOMAIN Sections(t)
      PROVE  SeenIn(store, profiles, Sections(t)[i]) = Atomic!Observed(Sections(t)[i], TRUE)
  <2>0. Sections(t)[i] \in Section
    BY <1>0
  <2>1. CASE Writes(Sections(t)[i]) /\ Sections(t)[i].prep = "none"
    BY <2>0, <2>1, ObservedSeen, NothingSeen DEF SeenIn, Writes
  <2>2. CASE \A j \in DOMAIN Sections(t) : NoWrites(Sections(t)[j])
    <3>1. store = committed
      BY <1>0, <1>1, <1>4, <2>2, ReadsCommitted
    <3> QED BY <2>0, <3>1, ObservedSeen
  <2> QED BY <1>0, <2>1, <2>2
<1>8. got' = [got EXCEPT ![t] = @ \cup
                UNION {Atomic!Observed(op[t].sections[i], TRUE) : i \in DOMAIN op[t].sections}]
  BY <1>2, <1>6, <1>7 DEF Sections
<1>9. /\ AbstractPhase(t) = "next" /\ AbstractPhase(t)' = "done"
      /\ AbstractPos(t)' = AbstractPos(t)
  BY <1>0, <1>2 DEF AbstractPhase, AbstractPos
<1>10. phase' = [phase EXCEPT ![t] = "done"] /\ phase[t] = "next" /\ pos' = pos
  BY <1>0, <1>9, AbstractOthers DEF Step
<1> QED BY <1>0, <1>2, <1>5, <1>8, <1>10, SameEffect DEF Sections, Atomic!WholeCall

\* A call returns.
LEMMA ReturnRefines ==
  ASSUME AInv, NEW t \in Thread, Return(t)
  PROVE  Atomic!End(t)
<1> DEFINE phase == [u \in Thread |-> AbstractPhase(u)]
           pos == [u \in Thread |-> AbstractPos(u)]
<1>0. /\ TypeOK /\ op[t].outer \in BOOLEAN
      /\ pc[t] = "done" \/ (pc[t] = "next" /\ ~op[t].outer /\ ~HasSection(t))
  BY AtThread DEF Return
<1>1. /\ pc'[t] = "idle" /\ sec'[t] = 1 /\ op'[t] = NoCall /\ NoCall.outer = FALSE
  BY <1>0 DEF Return, Go, TypeOK, NoCall
<1>2. AbstractPhase(t)' = "idle" /\ AbstractPos(t)' = 1
  BY <1>1 DEF AbstractPhase, AbstractPos, Swapped
<1>3. /\ AbstractPhase(t) = pc[t]
      /\ pc[t] = "next" => AbstractPos(t) = sec[t]
  BY <1>0 DEF AbstractPhase, AbstractPos, Swapped
<1>4. /\ phase' = [phase EXCEPT ![t] = "idle"] /\ pos' = [pos EXCEPT ![t] = 1]
      /\ phase[t] = pc[t] /\ (pc[t] = "next" => pos[t] = sec[t])
  BY <1>0, <1>2, <1>3, AbstractOthers DEF Step
<1> HIDE DEF phase, pos
<1>5. \/ phase[t] = "done"
      \/ phase[t] = "next" /\ ~op[t].outer /\ pos[t] \notin DOMAIN op[t].sections
  BY <1>0, <1>4 DEF HasSection, Sections
<1> QED BY <1>4, <1>5 DEF phase, pos, Return, Atomic!End, NoCall, Atomic!NoCall, shared, lock

\* The locked store implements the atomic one: a thread that takes the RLock
\* around its accesses, as register_map.py does, performs each block at one instant.
THEOREM Atomicity == Spec => ImplementsAtomic
<1>1. AInv /\ [Next]_vars => [Atomic!Next]_Atomic!vars
  <2> SUFFICES ASSUME AInv, [Next]_vars
               PROVE  Atomic!Next \/ UNCHANGED Atomic!vars
    OBVIOUS
  <2>1. CASE UNCHANGED vars
    <3>1. \A u \in Thread : AbstractPhase(u)' = AbstractPhase(u) /\ AbstractPos(u)' = AbstractPos(u)
      BY <2>1 DEF vars, AbstractPhase, AbstractPos, Swapped, This, Sections
    <3>2. /\ [u \in Thread |-> AbstractPhase(u)]' = [u \in Thread |-> AbstractPhase(u)]
          /\ [u \in Thread |-> AbstractPos(u)]' = [u \in Thread |-> AbstractPos(u)]
      BY <3>1
    <3> QED BY <2>1, <3>2 DEF vars, Atomic!vars
  <2>2. CASE Next
    <3>1. PICK t \in Thread : (\E call \in MayCall(t) : Begin(t, call)) \/ Take(t) \/ Step(t)
      BY <2>2 DEF Next, Thread
    <3>2. \/ UNCHANGED Atomic!vars
          \/ \E call \in MayCall(t) : Atomic!Begin(t, call)
          \/ Atomic!Lookup(t) \/ Atomic!Assign(t) \/ Atomic!Resolve(t)
          \/ Atomic!Block(t) \/ Atomic!WholeCall(t) \/ Atomic!End(t)
      BY <3>1, BeginRefines, InsideRefines, PrepRefines, SwapRefines, LeaveSectionRefines,
         LeaveOuterRefines, ReturnRefines DEF Step
    <3>3. t \in Atomic!Thread /\ Atomic!MayCall(t) = MayCall(t)
      BY SameCalls DEF Thread, Atomic!Thread
    <3> QED BY <3>2, <3>3 DEF Atomic!Next
  <2> QED BY <2>1, <2>2
<1> QED BY <1>1, InitRefines, BlockInvariance, PTL DEF Spec, ImplementsAtomic, Atomic!Spec
=============================================================================
