--------------------------- MODULE MCSignalValues ---------------------------
(***************************************************************************)
(* Signals for TLC, of 3-bit registers: every type, word order and motion, *)
(* ranges that lie inside, across and outside the type's, entered either   *)
(* way round, and steps that divide their range and that do not.           *)
(***************************************************************************)
EXTENDS SignalValues

Sig(type, order, mode, lo, hi, period, step, phase, default) ==
  [data_type |-> type, word_order |-> order, bit_index |-> 1, coil |-> FALSE,
   mode |-> mode, sim_min |-> lo, sim_max |-> hi, period |-> period, step |-> step,
   phase |-> phase, default_value |-> default]

Kinds == (IntTypes \X {"big_endian"}) \cup (WideTypes \X {"little_endian"})
Ints == {Sig(k[1], k[2], mode, r[1], r[2], period, 6, 3, 3) :
           k \in Kinds, mode \in {"", "sawtooth", "triangle", "step"},
           r \in {<<-12, 8>>, <<28, 0>>, <<0, 44>>}, period \in {1, 2}}
Odd == {Sig("int16", "big_endian", "step", 0, 20, period, step, 0, -1) :
          period \in {None, 0}, step \in {None, 0, 1, 8, 80}}
       \cup {Sig("uint32", "little_endian", mode, lo, 20, None, 4, 0, 70) :
               mode \in {"", "static"}, lo \in {None, 0, 20}}
Bools == {[Sig("bool", "big_endian", mode, None, None, period, None, 1, 1) EXCEPT !.coil = coil] :
            mode \in {"", "step", "static"}, period \in {1, 4}, coil \in BOOLEAN}
\* The loader asks for no bool in a coil or discrete input.
InCoils == {[Sig(k[1], k[2], mode, r[1], r[2], 1, 6, 3, 3) EXCEPT !.coil = TRUE] :
              k \in Kinds, mode \in {"", "static"}, r \in {<<-12, 8>>, <<0, 44>>}}
MCSignals == Ints \cup Odd \cup Bools \cup InCoils

Setting(on, numeric, bool) ==
  [enabled |-> on, numeric_mode |-> numeric, bool_mode |-> bool, period |-> 4]
MCSettings == {Setting(FALSE, "oscillate", "toggle"), Setting(TRUE, "oscillate", "toggle"),
               Setting(TRUE, "static", "static")}
MCValues == {-33, -4, 1, 7, 64}
=============================================================================
