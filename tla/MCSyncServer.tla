---------------------------- MODULE MCSyncServer ----------------------------
(* Values of the constants of SyncServer for TLC. *)
EXTENDS SyncServer, TLC

CONSTANTS s1, s2, p1, p2, small, large

SizeOfContent == [c \in Contents |-> IF c = small THEN 1 ELSE 2]
BothWrite == s1 :> "rw" @@ s2 :> "rw"
OneCleans == s1 :> "rw" @@ s2 :> "cleanup"
NoEdits == {}
SmallEdits == {small, Gone}
AnyEdit == {small, large, Gone}
=============================================================================
