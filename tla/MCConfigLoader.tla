--------------------------- MODULE MCConfigLoader ---------------------------
(***************************************************************************)
(* Configs for TLC: up to three devices, drawn from devices that meet each *)
(* other in an id, an endpoint or a signals_file, and one device for every *)
(* way a device can be wrong by itself.                                    *)
(***************************************************************************)
EXTENDS ConfigLoader

CONSTANTS a, b, one, p, q, x

Dev(id, ip, port, unit, path) ==
  [id |-> id, name |-> "name", ip |-> ip, port |-> port, unit_id |-> unit,
   signals_file |-> path, vlan |-> 0, prefix_length |-> 24]

Ids == {a, b, one}
Texts == {a, b}
Ips == {x}
Paths == {p, q}
Good == {Dev(a, x, 502, 1, p), Dev(b, x, 502, 2, q), Dev(a, x, 502, 2, q),
         Dev(b, x, 502, 1, p), Dev(b, x, 1, 2, p), Dev(one, x, 65535, 255, q)}
Basic == Dev(a, x, 502, 1, p)
Wrong == {Bad,
          [Basic EXCEPT !.id = Empty], [Basic EXCEPT !.name = Empty],
          [Basic EXCEPT !.ip = Empty], [Basic EXCEPT !.ip = Bad],
          [Basic EXCEPT !.port = 65536], [Basic EXCEPT !.port = Bad],
          [Basic EXCEPT !.unit_id = 0], [Basic EXCEPT !.unit_id = 256],
          [Basic EXCEPT !.unit_id = Bad],
          [Basic EXCEPT !.signals_file = Empty], [Basic EXCEPT !.vlan = Bad],
          [Basic EXCEPT !.prefix_length = 33], [Basic EXCEPT !.prefix_length = Bad]}
MCRows == Good \cup Wrong
Of(rows) == [yaml |-> TRUE, wrong |-> {}, devices |-> rows]
MCConfigs ==
  {Of(rows) : rows \in {<<>>} \cup (MCRows \X MCRows) \cup (Good \X Good \X Good)}
  \cup {[Of(<<Basic>>) EXCEPT !.wrong = {h}] : h \in HeaderFields}
  \cup {Of(<<Basic>>), NoConfig}
=============================================================================
