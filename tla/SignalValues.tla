---------------------------- MODULE SignalValues ----------------------------
(***************************************************************************)
(* What a signal is worth, and to whom.  The codec of register_map.py      *)
(* between values and registers, the generators of simulator.py, and the   *)
(* two readers that must agree: the API (read_signal) and a Modbus master, *)
(* which gets a block of registers with generated words laid over it and   *)
(* interprets them by the signal's type and word order.  A coil or         *)
(* discrete input is read as one bit, but the loader takes signals of any  *)
(* type there: such a one keeps its words, and a master gets their low bits.*)
(*                                                                         *)
(* A register has WordBits bits, and time and generated values are counted *)
(* in quarters: the clock ticks in seconds, a phase is 0, 1, 2 or 3        *)
(* quarters of a period, and a sine is exact at quarters.  Periods divide  *)
(* 4, and lows and highs are whole.  float32, which struct converts, is    *)
(* left out.                                                               *)
(***************************************************************************)
EXTENDS Integers, Sequences

CONSTANTS
  WordBits,  \* 16 in the code
  Signals,   \* signals, with their sim_* fields
  Settings,  \* project-wide simulation settings
  Values,    \* values a client may set
  EndOfTime, \* the clock is stopped there
  None

W == 2 ^ WordBits
WideTypes == {"uint32", "int32"}
IntTypes == {"uint16", "int16"} \cup WideTypes

ASSUME ValuesAssumption ==
  /\ WordBits \in Nat \ {0}
  /\ None \notin Int /\ EndOfTime \in Nat /\ Values \subseteq Int
  /\ \A s \in Signals :
       /\ s.data_type \in IntTypes \cup {"bool"} /\ s.word_order \in {"big_endian", "little_endian"}
       /\ s.bit_index \in 0 .. WordBits - 1
       /\ s.default_value \in Int /\ (s.data_type = "bool" => s.default_value \in {0, 1})
       /\ s.coil \in BOOLEAN
       /\ s.phase \in 0 .. 3 /\ s.step \in Int \cup {None} /\ s.period \in {None, 0, 1, 2, 4}
       /\ \A q \in {s.sim_min, s.sim_max} : q # None => q \in Int /\ q % 4 = 0
  /\ \A g \in Settings : g.period \in {1, 2, 4}

VARIABLES
  signal,    \* the signal all is about
  settings,  \* in force
  store,     \* its two registers, or coils
  t          \* seconds since the process started

vars == <<signal, settings, store, t>>

Init ==
  /\ signal \in Signals
  /\ settings \in Settings /\ ~settings.enabled
  /\ store = <<0, 0>> /\ t = 0

-----------------------------------------------------------------------------
(***************************************************************************)
(* The codec.                                                              *)
(***************************************************************************)
Bits == IF signal.data_type \in WideTypes THEN 2 * WordBits ELSE WordBits

\* A number where each address is a bit.
NumberInCoil == signal.coil /\ signal.data_type # "bool"

\* Faulty variant: a wide value is masked to one register.
TypedToRawShort(v) ==
  IF signal.data_type = "bool" THEN IF v = 0 THEN 0 ELSE 1 ELSE v % W

\* _typed_to_raw: masked to the width, a negative value to its complement.
TypedToRaw(v) ==
  IF signal.data_type = "bool" THEN IF v = 0 THEN 0 ELSE 1 ELSE v % (2 ^ Bits)

\* Bit b of a word, and a word with it set to v.
Bit(word, b) == (word \div (2 ^ b)) % 2
WithBit(word, b, v) == word + (v - Bit(word, b)) * (2 ^ b)

\* Faulty variant: the words of a little-endian signal are not swapped.
WordsBig(words, raw) ==
  CASE signal.data_type \in WideTypes -> <<raw \div W, raw % W>>
    [] signal.data_type = "bool" ->
         <<IF signal.coil THEN raw ELSE WithBit(words[1], signal.bit_index, raw), words[2]>>
    [] OTHER -> <<raw % W, words[2]>>

\* _store_raw and _place_raw: a raw value laid over two registers.
Words(words, raw) ==
  CASE signal.data_type \in WideTypes ->
         IF signal.word_order = "little_endian"
         THEN <<raw % W, raw \div W>> ELSE <<raw \div W, raw % W>>
    [] signal.data_type = "bool" ->
         <<IF signal.coil THEN raw ELSE WithBit(words[1], signal.bit_index, raw), words[2]>>
    [] OTHER -> <<raw % W, words[2]>>

\* What the registers stand for: two's complement, the word order, a bit.
Unsigned(words) ==
  IF signal.data_type \in WideTypes
  THEN IF signal.word_order = "little_endian"
       THEN words[2] * W + words[1] ELSE words[1] * W + words[2]
  ELSE words[1]
Interpreted(words) ==
  CASE signal.data_type = "bool" ->
         IF signal.coil THEN words[1] % 2 ELSE Bit(words[1], signal.bit_index)
    [] signal.data_type \in {"int16", "int32"} /\ Unsigned(words) >= 2 ^ (Bits - 1) ->
         Unsigned(words) - 2 ^ Bits
    [] OTHER -> Unsigned(words)

(***************************************************************************)
(* The generators.  Quantities are in quarters.                            *)
(***************************************************************************)
\* int() of q quarters, and round() of n/d, which goes to the even neighbour.
Int4(q) == IF q >= 0 THEN q \div 4 ELSE -((-q) \div 4)
Round(n, d) ==
  LET down == n \div d
      twice == 2 * (n % d)
  IN IF twice < d \/ (twice = d /\ down % 2 = 0) THEN down ELSE down + 1

\* resolve_profile: None if the signal is static.
Mode(s, g) ==
  IF s.mode # "" THEN s.mode ELSE IF s.data_type = "bool" THEN g.bool_mode ELSE g.numeric_mode
Profile(s, g) ==
  LET mode == Mode(s, g)
      period == IF s.period = None \/ s.period = 0 THEN g.period ELSE s.period
      least == IF s.sim_max < s.sim_min THEN s.sim_max ELSE s.sim_min
      most == IF s.sim_max < s.sim_min THEN s.sim_min ELSE s.sim_max
      steps == mode = "step" /\ s.step # None /\ s.step > 0
      motion == IF mode \in {"sawtooth", "triangle"} \/ steps THEN mode ELSE "oscillate"
  IN IF ~g.enabled \/ mode = "static" THEN None
     ELSE IF s.data_type = "bool"
     THEN [mode |-> "toggle", lo |-> 0, hi |-> 4, period |-> period, phase |-> s.phase]
     ELSE IF s.sim_min = None \/ s.sim_max = None THEN None
     ELSE [mode |-> motion, lo |-> least, hi |-> most, period |-> period,
           phase |-> s.phase, step |-> s.step]
profile == Profile(signal, settings)
Simulated == profile # None

\* _staircase
Levels(p) == LET n == Round(p.hi - p.lo, p.step) IN IF n < 1 THEN 1 ELSE n
\* Faulty variant: a level every second.
IndexEverySecond(p) == t % (Levels(p) + 1)
Index(p) == (t \div p.period) % (Levels(p) + 1)
\* Faulty variant: the last jump goes as far as the others.
StaircaseBeyond(p) == IF p.hi = p.lo THEN p.lo ELSE p.lo + p.step * Index(p)
Staircase(p) ==
  LET level == p.lo + p.step * Index(p)
  IN IF p.hi = p.lo THEN p.lo ELSE IF level > p.hi THEN p.hi ELSE level

\* SimProfile.value: quarter f of the period.
Generated(p) ==
  LET f == ((4 * t) \div p.period + p.phase) % 4
      span == p.hi - p.lo
  IN CASE p.mode = "step" -> Staircase(p)
       [] p.mode = "toggle" -> IF f < 2 THEN 4 ELSE 0
       [] p.mode = "sawtooth" -> p.lo + (span * f) \div 4
       [] p.mode = "triangle" -> p.lo + (span * (IF f < 2 THEN 2 * f ELSE 2 * (4 - f))) \div 4
       [] OTHER -> p.lo + (span * <<2, 4, 2, 0>>[f + 1]) \div 4

(***************************************************************************)
(* The two readers.                                                        *)
(***************************************************************************)
\* read_signal
ApiValue ==
  IF Simulated
  THEN IF signal.data_type = "bool" THEN Generated(profile) \div 4 ELSE Round(Generated(profile), 4)
  ELSE Interpreted(store)

\* read_block with _overlay_block, or read_coil of both addresses, of which the
\* first is the signal's: what is generated is on unless it is 0.
Block ==
  IF signal.coil
  THEN <<IF Simulated THEN IF Generated(profile) = 0 THEN 0 ELSE 1 ELSE store[1] % 2,
         store[2] % 2>>
  ELSE IF Simulated THEN Words(store, TypedToRaw(Int4(Generated(profile)))) ELSE store

(***************************************************************************)
(* Steps.                                                                  *)
(***************************************************************************)
Write(raw) == store' = Words(store, raw)

\* set_value accepts any integer for an integer signal, 0 and 1 for a bool.
SetValue(v) ==
  /\ signal.data_type = "bool" => v \in {0, 1}
  /\ Write(TypedToRaw(v))
  /\ UNCHANGED <<signal, settings, t>>

\* set_defaults: default_raw was computed from the file.
SetDefaults ==
  /\ Write(TypedToRaw(signal.default_value))
  /\ UNCHANGED <<signal, settings, t>>

ClearAll == store' = <<0, 0>> /\ UNCHANGED <<signal, settings, t>>

\* A master writes one register, or coil.
MasterWrites(i, word) ==
  /\ signal.coil => word \in {0, 1}
  /\ store' = [store EXCEPT ![i] = word]
  /\ UNCHANGED <<signal, settings, t>>

SetSettings(g) == settings' = g /\ UNCHANGED <<signal, store, t>>

Tick == t < EndOfTime /\ t' = t + 1 /\ UNCHANGED <<signal, settings, store>>

Next ==
  \/ \E v \in Values : SetValue(v)
  \/ SetDefaults \/ ClearAll
  \/ \E i \in 1 .. 2, word \in {0, 1, W - 1} : MasterWrites(i, word)
  \/ \E g \in Settings : SetSettings(g)
  \/ Tick

Spec == Init /\ [][Next]_vars

-----------------------------------------------------------------------------
(***************************************************************************)
(* Properties.                                                             *)
(***************************************************************************)
\* Registers hold words, and the coil of a bool a bit, whatever is written to them.
TypeOK ==
  /\ signal \in Signals /\ settings \in Settings /\ t \in 0 .. EndOfTime
  /\ store \in Seq(0 .. W - 1) /\ Len(store) = 2
  /\ signal.coil /\ signal.data_type = "bool" => store[1] \in {0, 1}

\* A moving signal stays between its low and its high, in every motion and
\* whichever of the two was entered as the low one.
WithinRange ==
  Simulated => Generated(profile) \in profile.lo .. profile.hi

\* A staircase holds each level for its period and then goes up by one step, to
\* the high if that is nearer, or back to the low.
StairsHold ==
  [][t' = t + 1 /\ Simulated /\ profile.mode = "step" =>
       LET now == Generated(profile)
           then == Generated(profile)'
       IN IF t' % profile.period # 0 THEN then = now
          ELSE /\ then \in {profile.lo, now + profile.step, profile.hi}
               /\ then = now => profile.hi = profile.lo]_vars

\* The type's integers, and the one a value is congruent to.
TypeRange == IF signal.data_type \in {"int16", "int32"}
             THEN -(2 ^ (Bits - 1)) .. 2 ^ (Bits - 1) - 1 ELSE 0 .. 2 ^ Bits - 1
Wrapped(v) == IF signal.data_type = "bool" THEN v ELSE
  CHOOSE w \in TypeRange : (w - v) % (2 ^ Bits) = 0

\* What a master can see of value v: v, or of a number in coils its lowest bit, in
\* the coil where the low word is.
LowPlace == IF signal.data_type \in WideTypes /\ signal.word_order = "big_endian"
            THEN 2 ELSE 1
Shows(block, v) ==
  IF NumberInCoil THEN block[LowPlace] = v % 2 ELSE Interpreted(block) = v

\* What a client sets is what a master can then see while nothing is simulated, and
\* modulo the width when it does not fit; the same for the defaults.
WritesLand ==
  [][/\ \A v \in Values : SetValue(v) /\ ~Simulated => Shows(Block', Wrapped(v))
     /\ SetDefaults /\ ~Simulated => Shows(Block', Wrapped(signal.default_value))]_vars

\* The API and a master see one value: the same while it is stored, and less than 1
\* apart while it is generated within the range of the signal's type.  Of a number
\* generated in a coil only its being 0 agrees, and only one way.
OneValue ==
  CASE ~Simulated -> Shows(Block, ApiValue)
    [] Simulated /\ signal.data_type = "bool" -> Interpreted(Block) = ApiValue
    [] Simulated /\ NumberInCoil -> Block[1] = 0 => ApiValue = 0
    [] OTHER -> Int4(profile.lo) \in TypeRange /\ Int4(profile.hi) \in TypeRange =>
                  Interpreted(Block) - ApiValue \in -1 .. 1

\* "Each address is a standalone bit (one signal per address)", of coils and discrete
\* inputs.
\* TLC refutes it: a number set there is stored as words, and the API returns it whole.
BitsInCoils == signal.coil => store[1] \in {0, 1} /\ store[2] \in {0, 1}

\* What the API returns is the "raw register interpretation" of read_signal.
\* TLC refutes it: the API rounds what a master gets truncated.
ApiIsRegister == ApiValue = Interpreted(Block)

\* A staircase goes "low->high->low".
\* TLC refutes it: 2.5 jumps are rounded to 2, and the last level is below the high.
StairsReachHigh ==
  Simulated /\ profile.mode = "step" /\ Index(profile) = Levels(profile) =>
    Generated(profile) = profile.hi
=============================================================================
