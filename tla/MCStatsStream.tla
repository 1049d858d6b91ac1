--------------------------- MODULE MCStatsStream ---------------------------
(* The items of two machines: on m1 the ones that handle_block looks for in *)
(* its own ways, with the axis's conditions behind the device's; on m2 one  *)
(* that is simply overwritten.                                              *)
EXTENDS StatsStream

CONSTANTS m1, m2, part, alarm, axis, estop, exec

ItemsMachine == [i \in Items |-> IF i = exec THEN m2 ELSE m1]
ItemsKind    == [i \in Items |-> CASE i = part  -> "first"
                                   [] i = estop -> "estop"
                                   [] i = exec  -> "last"
                                   [] OTHER     -> "condition"]
ItemsSection == [i \in Items |-> IF i = axis THEN 2 ELSE 1]
=============================================================================
