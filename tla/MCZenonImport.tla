--------------------------- MODULE MCZenonImport ---------------------------
(***************************************************************************)
(* Exports and forms for TLC: a driver with two devices, variables on the  *)
(* first that meet in a name, a register or a bit, or are wrong or skipped *)
(* by themselves, and forms for either device or both.                     *)
(***************************************************************************)
EXTENDS ZenonImport

CONSTANTS m, n, x,
          a, b, digits, number  \* ids; number is what YAML makes of digits

Var(name, net, type, offset, hw, bit) ==
  [modbus |-> TRUE, driver |-> "d", net |-> net, name |-> name, type |-> type,
   offset |-> offset, hw |-> hw, bit |-> bit]
Names == {m, n}
Other == Var(n, 2, "DINT", 3, 8, Bad)
First == {Var(m, 1, "LINT", 0, 8, Bad), Var(m, 1, "BOOL", 0, 8, Bad)}
Second == {Var(n, 1, "WORD", 1, 8, Bad), Var(n, 1, "BOOL", 0, 8, 0),
           Var(n, 1, "BOOL", 0, 8, 15), Var(m, 1, "INT", 5, 64, Bad)}
Alone == {Var(n, 1, "BOOL", 0, 8, 16), Var(n, 1, "UINT", -1, 8, Bad),
          Var(n, 1, "REAL", 0, 64, Bad)}
Skipped == {[Other EXCEPT !.modbus = FALSE], [Other EXCEPT !.type = Bad],
            [Other EXCEPT !.name = Empty], [Other EXCEPT !.net = Bad],
            [Other EXCEPT !.offset = Bad]}
MCExports == {<<v, w, Other>> : v \in First, w \in Second}
             \cup {<<v, Other>> : v \in Alone}
             \cup {<<Var(m, 1, "SINT", 0, Bad, Bad), v>> : v \in Skipped}

Ent(net, id, unit, order) ==
  [driver |-> "d", net |-> net, id |-> id, ip |-> x, port |-> 502, unit_id |-> unit,
   word_order |-> order]
Ids == {a, b, digits, number}
Texts == {a, b, digits}
Ips == {x}
Yamled(id) == IF id = digits THEN number ELSE id
Both == <<Ent(1, a, 1, "little_endian"), Ent(2, b, 2, "big_endian")>>
MCForms ==
  {Both, <<Both[2], Both[1]>>, <<Both[2]>>,
   <<Both[1], Ent(2, digits, 2, "big_endian")>>,
   <<Both[1], Ent(2, b, 2, Bad)>>,
   <<Both[1], Ent(2, b, 1, "big_endian")>>,
   <<Both[1], Ent(2, a, 2, "big_endian")>>,
   <<Both[1], Ent(1, b, 2, "big_endian")>>,
   <<Ent(3, a, 1, "big_endian")>>, <<Ent(2, Empty, 1, "big_endian")>>,
   <<Ent(2, a, 0, "big_endian")>>,
   <<[Both[1] EXCEPT !.ip = Empty]>>, <<[Both[1] EXCEPT !.port = 65536]>>}
=============================================================================
