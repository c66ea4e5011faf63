--------------------------- MODULE MCRegisterMap ---------------------------
(***************************************************************************)
(* A device of four signals for TLC, with 2-bit registers: a 32-bit value, *)
(* two bools sharing one register, and a coil.                             *)
(***************************************************************************)
EXTENDS RegisterMap

Signal(name, rt, address, type, order, bit, default) ==
  [name |-> name, register_type |-> rt, address |-> address, data_type |-> type,
   word_order |-> order, bit_index |-> bit, default_raw |-> default]

Wide == Signal("W", "holding", 0, "uint32", "little_endian", 0,
               [high |-> {0}, low |-> {0, 1}])
BoolA == Signal("A", "holding", 2, "bool", "big_endian", 0,
                [high |-> {}, low |-> {}])
BoolB == Signal("B", "holding", 2, "bool", "big_endian", 1,
                [high |-> {}, low |-> {0}])
Coil == Signal("C", "coil", 0, "bool", "big_endian", 0,
               [high |-> {}, low |-> {0}])

MCSignals == <<Wide, BoolA, BoolB, Coil>>
MCRawValues == {[high |-> {1}, low |-> {1}]}
MCSimChoices == {{}, {Wide, BoolB}}
MCBlockReads == {<<"holding", 0, 3>>}
MCBlockWrites == {<<1, <<{0}, {1}>>>>}
MCBitReads == {<<"coil", 1, 1>>}
MCBitWrites == {<<0, <<TRUE, FALSE>>>>}
=============================================================================
