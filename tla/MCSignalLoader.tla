--------------------------- MODULE MCSignalLoader ---------------------------
(***************************************************************************)
(* Files for TLC: up to three rows, drawn from rows that meet each other   *)
(* in one or two registers and bits, and one row for every way a row can   *)
(* be wrong by itself, or for a default to fit its type.                   *)
(***************************************************************************)
EXTENDS SignalLoader

CONSTANTS a, b

Rec(n, rt, ad, dt, bit, order) ==
  [name |-> n, register_type |-> rt, data_type |-> dt, address |-> ad,
   bit_index |-> bit, word_order |-> order, scale |-> "number", default_value |-> "1"]

Names == {a, b} \cup {"c"}
Good == {Rec("c", "holding", 1, "uint16", Empty, Empty),
         Rec("c", "coil", 1, "uint16", Empty, Empty),
         Rec(a, "holding", 0, "uint32", Empty, "big_endian"),
         Rec(b, "holding", 1, "float32", Empty, "little_endian"),
         Rec(a, "holding", 1, "bool", 0, Empty),
         Rec(b, "holding", 1, "bool", 15, "little_endian"),
         Rec("c", "holding", 1, "bool", 0, Empty),
         Rec(b, "coil", 1, "bool", Empty, Empty)}
\* Defaults that cannot be converted, and the same ones where they can.
Odd == {[Rec(a, "input", 0, "uint16", Empty, Empty) EXCEPT !.default_value = "inf"],
        [Rec(a, "input", 0, "float32", Empty, "big_endian") EXCEPT !.default_value = "huge"],
        [Rec(b, "input", 2, "uint16", Empty, Empty) EXCEPT !.default_value = "huge"],
        [Rec(b, "input", 2, "float32", Empty, "big_endian") EXCEPT !.default_value = "inf"]}
Wrong == {Rec(Empty, "holding", 0, "uint16", Empty, Empty),
          Rec(a, Bad, 0, "uint16", Empty, Empty),
          Rec(a, "holding", -1, "uint16", Empty, Empty),
          Rec(a, "holding", 0, Bad, Empty, Empty),
          Rec(a, "holding", 0, "bool", 16, Empty),
          Rec(b, "coil", 0, "bool", 0, Empty),
          Rec(a, "holding", 0, "uint32", Empty, Empty),
          Rec(a, "holding", 0, "uint16", Empty, Bad),
          [Rec(b, "input", 0, "uint16", Empty, Empty) EXCEPT !.scale = Bad],
          [Rec(b, "coil", 0, "bool", Empty, Empty) EXCEPT !.default_value = "other"]}
MCRows == Good \cup Odd \cup Wrong
MCFiles == {[complete |-> TRUE, rows |-> rows] :
              rows \in {<<>>} \cup (MCRows \X MCRows) \cup (Good \X Good \X Good)}
           \cup {NoFile}
=============================================================================
