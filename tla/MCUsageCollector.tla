-------------------------- MODULE MCUsageCollector --------------------------
(* Values of the constants of UsageCollector for TLC. *)
EXTENDS UsageCollector

CONSTANTS f1, f2, i1, i2

Line(k, i, n) == [kind |-> k, id |-> i, units |-> n]
(* Two records of one request, one of another, and lines that are no usage. *)
FourLines == {Line("usage", i1, 1), Line("usage", i1, 2), Line("usage", i2, 1), Line("bad", i2, 1)}
(* Two usage lines are alike: the id of the first goes with the counter of *)
(* the second.                                                             *)
AlikeLines ==
    [l \in FourLines |-> [m \in FourLines |->
        IF l = m THEN l
        ELSE IF l.kind = "usage" /\ m.kind = "usage" THEN Line("usage", l.id, m.units)
        ELSE Line("bad", i1, 1)]]
=============================================================================
