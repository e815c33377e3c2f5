----------------------------- MODULE MCSinkLoop -----------------------------
(***************************************************************************)
(* Instances of SinkLoop for TLC.                                          *)
(***************************************************************************)
EXTENDS SinkLoop

CONSTANTS x1, x2, t1, t2      \* two execs, two tcp closes

MCRecs == {x1, x2, t1, t2}
MCClassOf == [r \in MCRecs |-> IF r \in {x1, x2} THEN "attribution" ELSE "reliability"]
MCSizeOf == [r \in MCRecs |-> IF r = x2 THEN 2 ELSE 1]

\* A drain cycle that mixes both classes, and one of one class.
TwoMessages == {{x1, t1}, {x2}}

AnySink == {"up", "down", "rejecting"}
=============================================================================
