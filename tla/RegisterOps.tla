---------------------------- MODULE RegisterOps ----------------------------
(***************************************************************************)
(* The vocabulary shared by RegisterMap (the register store at the level   *)
(* of its lock) and AtomicRegisterMap (what the store promises): signals,  *)
(* cells, words, and every call the Modbus server and the Flask API make   *)
(* on one device's register map, as the accesses the call performs.        *)
(*                                                                         *)
(* A word is the set of its bits that are 1, so "masked write" is what the *)
(* code's |= (1 << bit), &= ~(1 << bit) and plain assignment all are.  The *)
(* numeric codecs (two's complement, IEEE floats) are not in this module:  *)
(* a 32-bit raw value is its high and its low word.                        *)
(***************************************************************************)
EXTENDS Naturals, Sequences

CONSTANTS
  WordSize,     \* bits of a register: 16 in the code
  MaxAddress,   \* addresses are 0 .. MaxAddress: 65535 in the code
  Signals,      \* the device's signals, a sequence of records (file order)
  NoSignal,     \* "this access is not made for a signal" (raw block access)
  RawValues,    \* the raw values the API is asked to write
  BlockReads,   \* the <<register type, address, count>> of FC3 / FC4 requests
  BlockWrites,  \* the <<address, words>> of FC6 / FC16 requests
  BitReads,     \* the <<register type, address, count of words>> of FC1 / FC2
  BitWrites,    \* the <<address, bits>> of FC5 / FC15 requests
  SimChoices    \* the simulation settings, as the set of signals each selects

REGISTER_TYPES == {"holding", "input", "coil", "discrete_input"}
BitTypes == {"coil", "discrete_input"}
WIDE_TYPES == {"uint32", "int32", "float32"}
DataTypes == WIDE_TYPES \cup {"uint16", "int16", "bool"}

Bit == 0 .. WordSize - 1
Word == SUBSET Bit
Address == 0 .. MaxAddress
Cell == REGISTER_TYPES \X Address
Raw == [high : Word, low : Word]

SignalRecord ==
  [name : STRING, register_type : REGISTER_TYPES, address : Address,
   data_type : DataTypes, word_order : {"big_endian", "little_endian"},
   bit_index : Bit, default_raw : Raw]

SignalSet == {Signals[i] : i \in DOMAIN Signals}
(***************************************************************************)
(* Accesses made under the lock.  A write covers the bits of mask in every *)
(* cell of cells; a read observes the bits of mask in one cell; "overlay"  *)
(* puts generated values over what was read; "swap" installs profiles.     *)
(***************************************************************************)
Access == [do : {"write", "read", "overlay", "swap"}, cells : SUBSET Cell,
           mask : Word, bits : Word, who : SignalSet \cup {NoSignal}]

Write(cells, mask, bits) ==
  [do |-> "write", cells |-> cells, mask |-> mask, bits |-> bits, who |-> NoSignal]
Read(cell, mask, who) ==
  [do |-> "read", cells |-> {cell}, mask |-> mask, bits |-> {}, who |-> who]
Overlay ==
  [do |-> "overlay", cells |-> {}, mask |-> {}, bits |-> {}, who |-> NoSignal]
Swap ==
  [do |-> "swap", cells |-> {}, mask |-> {}, bits |-> {}, who |-> NoSignal]

(***************************************************************************)
(* A section is what one "with self._lock" block does, after a step taken  *)
(* before the lock: looking a signal's profile up, assigning the           *)
(* simulation settings, or building profiles from them.  A call is a       *)
(* sequence of sections, all inside one outer section when outer is TRUE   *)
(* (the lock is re-entrant).                                               *)
(***************************************************************************)
Section == [prep : {"none", "lookup", "assign", "build"},
            who : SignalSet \cup {NoSignal}, sims : SUBSET SignalSet,
            body : Seq(Access)]
Call == [outer : BOOLEAN, sections : Seq(Section)]

Prepared(prep, sims, body) ==
  [prep |-> prep, who |-> NoSignal, sims |-> sims, body |-> body]
Locked(body) == Prepared("none", {}, body)

IsWide(s) == s.data_type \in WIDE_TYPES
CellOf(s, i) == <<s.register_type, s.address + i>>

\* The bit of its word a bool signal owns: bit 0 of a coil, else bit_index.
BitOf(s) == IF s.register_type \in BitTypes THEN 0 ELSE s.bit_index

SignalCells(s) == IF IsWide(s) THEN {CellOf(s, 0), CellOf(s, 1)} ELSE {CellOf(s, 0)}

\* The bits of cell c that signal s owns.
SignalMask(s, c) ==
  {b \in Bit : c \in SignalCells(s) /\ (s.data_type = "bool" => b = BitOf(s))}

\* The bits of cell c that are generated when the signals of sims are simulated.
SimMask(sims, c) == UNION {SignalMask(s, c) : s \in sims}

\* _store_raw: high word first for big_endian, low word first for little_endian;
\* a bool in a register changes its own bit only, a coil is overwritten.
StoreRaw(s, raw) ==
  LET first == IF s.word_order = "little_endian" THEN raw.low ELSE raw.high
      second == IF s.word_order = "little_endian" THEN raw.high ELSE raw.low
      on == IF raw.low = {} THEN {} ELSE {BitOf(s)}
  IN IF IsWide(s)
     THEN <<Write({CellOf(s, 0)}, Bit, first), Write({CellOf(s, 1)}, Bit, second)>>
     ELSE IF s.data_type # "bool"
     THEN <<Write({CellOf(s, 0)}, Bit, raw.low)>>
     ELSE IF s.register_type \in BitTypes
     THEN <<Write({CellOf(s, 0)}, Bit, on)>>
     ELSE <<Write({CellOf(s, 0)}, SignalMask(s, CellOf(s, 0)), on)>>

\* read_signal: the profile is looked up before the lock is taken.
ReadSignal(s) ==
  LET read(i) == Read(CellOf(s, i), SignalMask(s, CellOf(s, i)), s)
  IN [prep |-> "lookup", who |-> s, sims |-> {},
      body |-> IF IsWide(s) THEN <<read(0), read(1)>> ELSE <<read(0)>>]

(***************************************************************************)
(* Calls of the API threads.                                               *)
(***************************************************************************)
\* set_value: write_signal, then read_signal for the answer: two sections.
SetValue(s, raw) ==
  [outer |-> FALSE, sections |-> <<Locked(StoreRaw(s, raw)), ReadSignal(s)>>]

\* set_defaults (Simulate): every default, inside one outer section.
SetDefaults ==
  [outer |-> TRUE,
   sections |-> [i \in 1 .. Len(Signals) |->
                   Locked(StoreRaw(Signals[i], Signals[i].default_raw))]]

\* clear_all: the four blocks one after the other.
ClearAll ==
  LET table(rt) == Write({rt} \X Address, Bit, {})
  IN [outer |-> FALSE,
      sections |-> <<Locked(<<table("holding"), table("input"),
                              table("coil"), table("discrete_input")>>)>>]

\* get_values_by_name: read_signal of every signal inside one outer section.
GetValues ==
  [outer |-> TRUE,
   sections |-> [i \in 1 .. Len(Signals) |-> ReadSignal(Signals[i])]]

\* set_sim_defaults: assign the settings, build from them, swap under the lock.
SetSimDefaults(sims) ==
  [outer |-> FALSE,
   sections |-> <<Prepared("assign", sims, <<>>), Prepared("build", {}, <<Swap>>)>>]

ApiCalls ==
  {SetValue(s, raw) : s \in SignalSet, raw \in RawValues}
    \cup {SetDefaults, ClearAll, GetValues}
SimCalls == {SetSimDefaults(sims) : sims \in SimChoices}

(***************************************************************************)
(* Calls of the Modbus server's event loop (_make_action).                 *)
(***************************************************************************)
ReadBlock(rt, address, count) ==
  [outer |-> FALSE,
   sections |-> <<Locked([i \in 1 .. count + 1 |->
                           IF i = count + 1 THEN Overlay
                           ELSE Read(<<rt, address + i - 1>>, Bit, NoSignal)])>>]

WriteBlock(address, words) ==
  [outer |-> FALSE,
   sections |-> <<Locked([i \in 1 .. Len(words) |->
                           Write({<<"holding", address + i - 1>>}, Bit, words[i])])>>]

\* FC1 / FC2: one read_coil, so one lock section, per bit of the words asked for.
ReadBits(rt, address, count) ==
  LET base == (address \div WordSize) * WordSize
  IN [outer |-> FALSE,
      sections |-> [i \in 1 .. count * WordSize |->
                      Locked(<<Read(<<rt, base + i - 1>>, {0}, NoSignal), Overlay>>)]]

\* FC5 / FC15: one write_coil per bit.
WriteBits(address, bits) ==
  [outer |-> FALSE,
   sections |-> [i \in 1 .. Len(bits) |->
                   Locked(<<Write({<<"coil", address + i - 1>>}, Bit,
                                  IF bits[i] THEN {0} ELSE {})>>)]]

ModbusCalls ==
  {ReadBlock(r[1], r[2], r[3]) : r \in BlockReads}
    \cup {WriteBlock(w[1], w[2]) : w \in BlockWrites}
    \cup {ReadBits(r[1], r[2], r[3]) : r \in BitReads}
    \cup {WriteBits(w[1], w[2]) : w \in BitWrites}

Calls == ApiCalls \cup SimCalls \cup ModbusCalls

(***************************************************************************)
(* What a caller gets back: for a cell, the stored bits it was given and   *)
(* the bits whose value was generated instead.                             *)
(***************************************************************************)
Observation == [who : SignalSet \cup {NoSignal}, cell : Cell, bits : Word, gen : Word]

Stored(a, store) ==
  {[who |-> a.who, cell |-> c, bits |-> store[c] \cap a.mask, gen |-> {}] : c \in a.cells}
Generated(s) ==
  {[who |-> s, cell |-> c, bits |-> {}, gen |-> SignalMask(s, c)] : c \in SignalCells(s)}
Overlaid(o, sims) ==
  [who |-> o.who, cell |-> o.cell, bits |-> o.bits \ SimMask(sims, o.cell),
   gen |-> o.gen \cup SimMask(sims, o.cell)]

(***************************************************************************)
(* What a whole block of sections does to the store, cell by cell and bit  *)
(* by bit: the last write that covers a bit decides it.                    *)
(***************************************************************************)
WritesTo(block, c, b) ==
  {p \in {<<i, j>> : i \in DOMAIN block, j \in UNION {DOMAIN block[k].body : k \in DOMAIN block}} :
     /\ p[2] \in DOMAIN block[p[1]].body
     /\ LET a == block[p[1]].body[p[2]]
        IN a.do = "write" /\ c \in a.cells /\ b \in a.mask}

LastOf(places) ==
  CHOOSE p \in places : \A q \in places : q[1] < p[1] \/ (q[1] = p[1] /\ q[2] <= p[2])

Effect(block, store) ==
  [c \in Cell |->
    {b \in Bit :
       LET places == WritesTo(block, c, b)
           last == LastOf(places)
       IN IF places = {} THEN b \in store[c] ELSE b \in block[last[1]].body[last[2]].bits}]

\* The store RegisterMap.__init__ leaves: every register 0, then the defaults.
InitialStore == Effect(SetDefaults.sections, [c \in Cell |-> {}])

-----------------------------------------------------------------------------
\* The signals are well formed: what parse_and_validate accepts.  A wide signal
\* has a second address, and a bit index is inside the word.
ASSUME SignalsAssumption ==
  /\ WordSize \in Nat \ {0}
  /\ MaxAddress \in Nat
  /\ Signals \in Seq(SignalRecord)
  /\ NoSignal \notin SignalSet
  /\ \A s \in SignalSet : IsWide(s) => s.address + 1 \in Address

\* The inputs: requests pymodbus lets through (they lie inside a block).
ASSUME InputsAssumption ==
  /\ RawValues \subseteq Raw
  /\ SimChoices \subseteq SUBSET SignalSet
  /\ \A r \in BlockReads : /\ r[1] \in {"holding", "input"}
                           /\ r[2] \in Address /\ r[3] \in Nat
                           /\ \A i \in 1 .. r[3] : r[2] + i - 1 \in Address
  /\ \A r \in BitReads : /\ r[1] \in BitTypes
                         /\ r[2] \in Address /\ r[3] \in Nat
                         /\ \A i \in 1 .. r[3] * WordSize :
                              (r[2] \div WordSize) * WordSize + i - 1 \in Address
  /\ \A w \in BlockWrites : /\ w[1] \in Address /\ w[2] \in Seq(Word)
                            /\ \A i \in 1 .. Len(w[2]) : w[1] + i - 1 \in Address
  /\ \A w \in BitWrites : /\ w[1] \in Address /\ w[2] \in Seq(BOOLEAN)
                          /\ \A i \in 1 .. Len(w[2]) : w[1] + i - 1 \in Address
=============================================================================
