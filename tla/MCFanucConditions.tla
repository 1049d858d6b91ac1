------------------------- MODULE MCFanucConditions -------------------------
(* FanucConditions with alarms that share a condition and a bit, and a clock *)
(* that wraps soon.                                                          *)
EXTENDS FanucConditions

\* Overtravel of an axis; two I/O alarms of different bits, and a second one of the
\* first bit, all on "comms".
MCAlarms == {"travel1", "io", "io2", "dataIo"}
MCTypeOf == [a \in MCAlarms |-> CASE a = "travel1" -> 4 [] a \in {"io", "io2"} -> 2 [] a = "dataIo" -> 7]
MCAxisOf == [a \in MCAlarms |-> IF a = "travel1" THEN 1 ELSE 0]

=============================================================================
