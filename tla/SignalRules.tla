----------------------------- MODULE SignalRules -----------------------------
(***************************************************************************)
(* The rows of a signal file, and the rules they obey: each by itself, and *)
(* any two of them (REQUIREMENTS.md, section 7, as signal_loader.py        *)
(* applies it).                                                            *)
(*                                                                         *)
(* A field is its parsed value, Empty, or Bad for a text that does not     *)
(* parse or names nothing known.  A default_value is 0, 1, one no integer  *)
(* has (inf, nan), one too large for a float32, or another number.  Scale  *)
(* and the simulation columns share one field, and unit, section,          *)
(* description and writable, which cannot be wrong, are left out.          *)
(***************************************************************************)
EXTENDS Integers, Sequences

CONSTANTS
  Name,  \* signal names
  Empty, Bad

RegisterTypes == {"holding", "input", "coil", "discrete_input"}
DataTypes == {"uint16", "int16", "uint32", "int32", "float32", "bool"}
WideTypes == {"uint32", "int32", "float32"}
WordOrders == {"big_endian", "little_endian"}
Defaults == {"0", "1", "other", "inf", "huge"}

Row == [name : Name \cup {Empty},
        register_type : RegisterTypes \cup {Bad},
        data_type : DataTypes \cup {Bad},
        address : Int \cup {Bad},
        bit_index : Int \cup {Empty, Bad},
        word_order : WordOrders \cup {Empty, Bad},
        scale : {"number", Bad},
        default_value : Defaults \cup {Bad}]

BoolInWord(r) == r.data_type = "bool" /\ r.register_type \in {"holding", "input"}

WellFormed(r) ==
  /\ r.name # Empty
  /\ r.register_type \in RegisterTypes /\ r.data_type \in DataTypes
  /\ r.address \in Nat
  /\ r.bit_index \in IF BoolInWord(r) THEN 0 .. 15 ELSE {Empty}
  /\ r.data_type \in WideTypes => r.word_order \in WordOrders
  /\ r.word_order # Bad /\ r.scale # Bad /\ r.default_value # Bad
  /\ r.data_type = "bool" => r.default_value \in {"0", "1"}

\* The default can be turned into registers of its type.  The rules do not ask for it.
Convertible(r) ==
  CASE r.data_type = "bool" -> TRUE
    [] r.data_type = "float32" -> r.default_value # "huge"
    [] OTHER -> r.default_value # "inf"

\* "A uint32, int32, or float32 signal at address N occupies registers N and N+1."
Reaches(r, s) ==
  /\ r.address <= s.address
  /\ s.address <= r.address + (IF r.data_type \in WideTypes THEN 1 ELSE 0)
Overlap(r, s) == r.register_type = s.register_type /\ (Reaches(r, s) \/ Reaches(s, r))

\* Two rows that may not stand in one file.
Clash(r, s) ==
  \/ r.name = s.name
  \/ /\ Overlap(r, s) /\ (BoolInWord(r) <=> BoolInWord(s))
     /\ BoolInWord(r) => r.bit_index = s.bit_index

LegalUpTo(rows, n) ==
  /\ \A i \in 1 .. n : WellFormed(rows[i])
  /\ \A i, j \in 1 .. n : i < j => ~Clash(rows[i], rows[j])

\* The same of all rows of a file, which may stand in any places.
Legal(rows) ==
  /\ \A i \in DOMAIN rows : WellFormed(rows[i])
  /\ \A i, j \in DOMAIN rows : i < j => ~Clash(rows[i], rows[j])
=============================================================================
