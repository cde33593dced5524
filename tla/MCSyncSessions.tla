--------------------------- MODULE MCSyncSessions ---------------------------
(* Values of the constants of SyncSessions for TLC. *)
EXTENDS SyncSessions, TLC

CONSTANTS s1, s2, p1, small

OneUnit == [c \in Contents |-> 1]
BothWrite == s1 :> "rw" @@ s2 :> "rw"
SmallEdits == {small, Gone}
=============================================================================
